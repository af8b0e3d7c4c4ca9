---------------------------- MODULE TierRun_proofs ----------------------------
(***************************************************************************)
(* Theorems about TierRun, for every set of works, runners, releases and   *)
(* claim ids, every lease length, number of threads, retry ladder and      *)
(* number of faults.                                                       *)
(***************************************************************************)
EXTENDS TierRun, ClaimLedger_proofs, FiniteSetTheorems

RunRow == [pc : {"idle", "planning", "planned", "claiming", "running", "ending"},
           release : Releases \cup {""}, batch : SUBSET Works,
           claim : ClaimIds \cup {None}, until : Nat, tries : Nat,
           todo : SUBSET Works, failed : BOOLEAN, stop : BOOLEAN]

Request == [op : {"claim"}, release : Releases, items : SUBSET Works, until : Nat]
           \cup [op : {"end"}, id : ClaimIds, status : EndStatuses]
           \cup [op : {"row"}, row : Row]

\* The tables and the calls on their way.
Shapes ==
    /\ LedgerTypeOK
    /\ asked \in [Runners -> SUBSET Works] /\ owed \in [Runners -> SUBSET Row]
    /\ rows \subseteq Row
    /\ late \subseteq Request

\* What a runner knows at each point of its run.
RunOK(x) ==
    /\ x \in RunRow
    /\ x.pc # "idle" => x.release \in Releases
    /\ x.todo \subseteq x.batch
    /\ x.todo # {} => x.pc = "running"
    /\ x.tries \in 0 .. Attempts - 1
    /\ x.claim \in ClaimIds <=> x.pc \in {"running", "ending"}
RunsOK == run \in [Runners -> RunRow] /\ \A r \in Runners : RunOK(run[r])

\* The threads work on the batch that was claimed, and only in between the
\* claim and its end.
BusyOK ==
    \A r \in Runners :
        /\ IsFiniteSet(Busy(r)) /\ Cardinality(Busy(r)) <= Workers
        /\ Busy(r) \subseteq run[r].batch
        /\ Busy(r) # {} => run[r].pc = "running"

Inv == Shapes /\ RunsOK /\ BusyOK

-----------------------------------------------------------------------------
LEMMA InvType == Inv => TypeOK
  BY DEF Inv, Shapes, RunsOK, RunOK, BusyOK, TypeOK, RunRow

LEMMA IdleOK == RunOK(Idle)
  BY BoundsAssumption, NoneAssumption DEF RunOK, RunRow, Idle

LEMMA RunUpdate ==
    ASSUME RunsOK, NEW r \in Runners, NEW x, RunOK(x), run' = [run EXCEPT ![r] = x]
    PROVE  RunsOK'
  BY DEF RunsOK, RunOK

LEMMA NextAttemptOK ==
    ASSUME RunsOK, NEW r \in Runners
    PROVE  RunOK(NextAttempt(r))
<1>1. RunOK(run[r]) /\ Attempts \in Nat
  BY BoundsAssumption DEF RunsOK
<1>2. ASSUME run[r].tries + 1 < Attempts
      PROVE  RunOK([run[r] EXCEPT !.tries = @ + 1])
  <2> DEFINE x == [run[r] EXCEPT !.tries = @ + 1]
  <2>1. run[r] \in RunRow /\ run[r].tries \in 0 .. Attempts - 1
    BY <1>1 DEF RunOK
  <2>2. run[r].tries + 1 \in 0 .. Attempts - 1
    BY <1>1, <1>2, <2>1
  <2>3. x \in RunRow /\ x.tries = run[r].tries + 1
    <3>1. run[r].tries + 1 \in Nat
      BY <1>1, <2>2
    <3>2. \A y \in RunRow, n \in Nat : [y EXCEPT !.tries = n] \in RunRow
      BY DEF RunRow
    <3>3. \A y \in RunRow, n \in Nat : [y EXCEPT !.tries = n].tries = n
      BY DEF RunRow
    <3>4. QED
      BY <2>1, <3>1, <3>2, <3>3
  <2>4. /\ x.pc = run[r].pc /\ x.release = run[r].release /\ x.claim = run[r].claim
        /\ x.todo = run[r].todo /\ x.batch = run[r].batch
    BY <2>1 DEF RunRow
  <2> HIDE DEF x
  <2>5. RunOK(x)
    BY <1>1, <2>2, <2>3, <2>4 DEF RunOK
  <2>6. QED
    BY <2>5 DEF x
<1>3. QED
  BY <1>1, <1>2, IdleOK DEF NextAttempt

LEMMA NextAttemptKeeps ==
    ASSUME RunsOK, NEW r \in Runners
    PROVE  LET x == NextAttempt(r)
           IN  \/ x = Idle
               \/ x.pc = run[r].pc /\ x.claim = run[r].claim /\ x.batch = run[r].batch
                  /\ x.todo = run[r].todo /\ x.failed = run[r].failed /\ x.stop = run[r].stop
<1>1. run[r] \in RunRow
  BY DEF RunsOK
<1>2. \A y \in RunRow : LET x == [y EXCEPT !.tries = @ + 1]
                        IN  x.pc = y.pc /\ x.claim = y.claim /\ x.batch = y.batch
                            /\ x.todo = y.todo /\ x.failed = y.failed /\ x.stop = y.stop
  BY DEF RunRow
<1>3. QED
  BY <1>1, <1>2 DEF NextAttempt

\* Steps that touch no work of any batch.
LEMMA BusyKept ==
    ASSUME BusyOK, UNCHANGED <<asked, owed>>,
           \A r \in Runners : Busy(r) # {} =>
               run'[r].batch = run[r].batch /\ run'[r].pc = "running"
    PROVE  BusyOK'
  BY DEF BusyOK, Busy

\* Steps of one runner whose threads are not at work.
LEMMA BusyElsewhere ==
    ASSUME BusyOK, RunsOK, NEW r \in Runners, NEW x, run' = [run EXCEPT ![r] = x],
           UNCHANGED <<asked, owed>>, run[r].pc # "running" \/ Busy(r) = {}
    PROVE  BusyOK'
<1>1. Busy(r) = {}
  BY DEF BusyOK
<1>2. ASSUME NEW q \in Runners, Busy(q) # {}
      PROVE  run'[q].batch = run[q].batch /\ run'[q].pc = "running"
  BY <1>1, <1>2 DEF BusyOK, RunsOK
<1>3. QED
  BY <1>2, BusyKept

\* The ledger after each call.
LEMMA GrantType ==
    ASSUME LedgerTypeOK, NEW id \in ClaimIds, NEW q, q.release \in Releases,
           q.items \in SUBSET Works, q.until \in Nat, Grant(id, q)
    PROVE  LedgerTypeOK'
  BY TierAssumption DEF LedgerTypeOK, Grant, InsertClaim, ClaimRow, Tiers

LEMMA EndType ==
    ASSUME LedgerTypeOK, NEW id \in ClaimIds, NEW s \in EndStatuses, EndClaim(id, s),
           UNCHANGED <<releases, now>>
    PROVE  LedgerTypeOK'
  BY DEF LedgerTypeOK, EndClaim, ClaimRow

LEMMA ClaimRequestType ==
    ASSUME RunsOK, NEW r \in Runners, run[r].pc = "claiming"
    PROVE  /\ ClaimRequest(r) \in Request
           /\ ClaimRequest(r).release \in Releases
           /\ ClaimRequest(r).items \in SUBSET Works
           /\ ClaimRequest(r).until \in Nat
  BY DEF RunsOK, RunOK, RunRow, ClaimRequest, Request

LEMMA EndRequestType ==
    ASSUME RunsOK, NEW r \in Runners, run[r].pc = "ending"
    PROVE  /\ EndRequest(r) \in Request
           /\ run[r].claim \in ClaimIds /\ EndStatus(r) \in EndStatuses
  BY DEF RunsOK, RunOK, RunRow, EndRequest, EndStatus, EndStatuses, Request
LEMMA VotesType ==
    ASSUME NEW r \in Runners, run[r].claim \in ClaimIds, NEW w \in Works, NEW A \in SUBSET Voters
    PROVE  /\ VotesOf(r, w, A) \in SUBSET Row
           /\ VotesOf(r, w, A) # {}
           /\ \A x \in VotesOf(r, w, A) : x.work = w /\ x.claim = run[r].claim
<1> DEFINE V == IF A = {} THEN {Placeholder} ELSE A
<1>1. V \subseteq Voters \cup {Placeholder} /\ V # {}
  OBVIOUS
<1>2. VotesOf(r, w, A) = {[claim |-> run[r].claim, work |-> w, voter |-> v] : v \in V}
  BY DEF VotesOf
<1>3. \A v \in V : [claim |-> run[r].claim, work |-> w, voter |-> v] \in Row
  BY <1>1 DEF Row
<1> HIDE DEF V
<1>4. VotesOf(r, w, A) \in SUBSET Row
  BY <1>2, <1>3
<1>5. VotesOf(r, w, A) # {}
  BY <1>1, <1>2
<1>6. \A x \in VotesOf(r, w, A) : x.work = w /\ x.claim = run[r].claim
  BY <1>2
<1>7. QED
  BY <1>4, <1>5, <1>6

-----------------------------------------------------------------------------
\* A runner's record after each kind of step, field by field.
LEMMA Planned ==
    ASSUME NEW y, RunOK(y), y.pc = "planning", NEW B \in SUBSET Works
    PROVE  RunOK([y EXCEPT !.pc = "planned", !.batch = B])
<1> DEFINE z == [y EXCEPT !.pc = "planned", !.batch = B]
<1>1. y \in RunRow
  BY DEF RunOK
<1>2. z \in RunRow
  BY <1>1 DEF RunRow
<1>3. /\ z.pc = "planned" /\ z.batch = B
      /\ z.release = y.release /\ z.claim = y.claim /\ z.todo = y.todo /\ z.tries = y.tries
  BY <1>1 DEF RunRow
<1> HIDE DEF z
<1>4. RunOK(z)
  BY <1>2, <1>3 DEF RunOK
<1>5. QED
  BY <1>4 DEF z

LEMMA Calling ==
    ASSUME NEW y, RunOK(y), y.pc = "planned", NEW n \in Nat
    PROVE  RunOK([y EXCEPT !.pc = "claiming", !.until = n, !.tries = 0])
<1> DEFINE z == [y EXCEPT !.pc = "claiming", !.until = n, !.tries = 0]
<1>1. y \in RunRow
  BY DEF RunOK
<1>2. z \in RunRow
  BY <1>1 DEF RunRow
<1>3. /\ z.pc = "claiming" /\ z.tries = 0
      /\ z.release = y.release /\ z.claim = y.claim /\ z.todo = y.todo /\ z.batch = y.batch
  BY <1>1 DEF RunRow
<1> HIDE DEF z
<1>4. 0 \in 0 .. Attempts - 1
  BY BoundsAssumption
<1>5. RunOK(z)
  BY <1>2, <1>3, <1>4 DEF RunOK
<1>6. QED
  BY <1>5 DEF z

LEMMA Holding ==
    ASSUME NEW y, RunOK(y), y.pc = "claiming", NEW id \in ClaimIds
    PROVE  RunOK([y EXCEPT !.pc = "running", !.claim = id, !.todo = y.batch, !.tries = 0])
<1> DEFINE z == [y EXCEPT !.pc = "running", !.claim = id, !.todo = y.batch, !.tries = 0]
<1>1. y \in RunRow
  BY DEF RunOK
<1>2. z \in RunRow
  BY <1>1 DEF RunRow
<1>3. /\ z.pc = "running" /\ z.tries = 0 /\ z.claim = id /\ z.todo = y.batch
      /\ z.release = y.release /\ z.batch = y.batch
  BY <1>1 DEF RunRow
<1> HIDE DEF z
<1>4. 0 \in 0 .. Attempts - 1
  BY BoundsAssumption
<1>5. RunOK(z)
  BY <1>2, <1>3, <1>4 DEF RunOK
<1>6. QED
  BY <1>5 DEF z

LEMMA Registered ==
    ASSUME NEW y, RunOK(y), y.pc = "claiming"
    PROVE  RunOK([y EXCEPT !.pc = "planned"])
<1> DEFINE z == [y EXCEPT !.pc = "planned"]
<1>1. y \in RunRow
  BY DEF RunOK
<1>2. z \in RunRow
  BY <1>1 DEF RunRow
<1>3. /\ z.pc = "planned" /\ z.tries = y.tries /\ z.claim = y.claim /\ z.todo = y.todo
      /\ z.release = y.release /\ z.batch = y.batch
  BY <1>1 DEF RunRow
<1> HIDE DEF z
<1>4. RunOK(z)
  BY <1>2, <1>3 DEF RunOK
<1>5. QED
  BY <1>4 DEF z

LEMMA Draining ==
    ASSUME NEW y, RunOK(y), y.pc = "running"
    PROVE  RunOK([y EXCEPT !.pc = "ending", !.todo = {}])
<1> DEFINE z == [y EXCEPT !.pc = "ending", !.todo = {}]
<1>1. y \in RunRow
  BY DEF RunOK
<1>2. z \in RunRow
  BY <1>1 DEF RunRow
<1>3. /\ z.pc = "ending" /\ z.todo = {} /\ z.tries = y.tries /\ z.claim = y.claim
      /\ z.release = y.release /\ z.batch = y.batch
  BY <1>1 DEF RunRow
<1> HIDE DEF z
<1>4. RunOK(z)
  BY <1>2, <1>3 DEF RunOK
<1>5. QED
  BY <1>4 DEF z

\* The fields a running batch is judged by: its works and claim stay, works
\* leave the queue, and the flags are raised.
LEMMA RunningOn ==
    ASSUME NEW y, RunOK(y), y.pc = "running", NEW z \in RunRow,
           z.pc = y.pc, z.release = y.release, z.claim = y.claim, z.batch = y.batch,
           z.tries = y.tries, z.todo \subseteq y.todo
    PROVE  RunOK(z)
  BY DEF RunOK

-----------------------------------------------------------------------------
\* One runner's threads at work.
LEMMA BusyShrinks ==
    ASSUME Inv, NEW r \in Runners, NEW x, x.batch = run[r].batch, x.pc = run[r].pc,
           run' = [run EXCEPT ![r] = x],
           NEW a \in SUBSET Works, NEW o \in SUBSET Row,
           asked' = [asked EXCEPT ![r] = a], owed' = [owed EXCEPT ![r] = o],
           a \cup {e.work : e \in o} \subseteq Busy(r)
    PROVE  BusyOK'
<1>1. Busy(r)' = a \cup {e.work : e \in o} /\ run'[r] = x
  BY DEF Busy, Inv, Shapes, RunsOK
<1>2. IsFiniteSet(Busy(r)') /\ Cardinality(Busy(r)') <= Workers
  <2>1. /\ IsFiniteSet(Busy(r)') /\ Cardinality(Busy(r)') <= Cardinality(Busy(r))
        /\ Cardinality(Busy(r)') \in Nat /\ Cardinality(Busy(r)) \in Nat
    BY <1>1, FS_Subset, FS_CardinalityType DEF Inv, BusyOK
  <2>2. Workers \in Nat /\ Cardinality(Busy(r)) <= Workers
    BY BoundsAssumption DEF Inv, BusyOK
  <2>3. QED
    BY <2>1, <2>2
<1>3. \A q \in Runners \ {r} : Busy(q)' = Busy(q) /\ run'[q] = run[q]
  BY DEF Busy, Inv, Shapes, RunsOK
<1>4. QED
  BY <1>1, <1>2, <1>3 DEF BusyOK, Inv

LEMMA AskInv ==
    ASSUME Inv, NEW r \in Runners, Ask(r)
    PROVE  Inv'
<1>1. PICK w \in run[r].todo :
          /\ run' = [run EXCEPT ![r] = [run[r] EXCEPT !.todo = run[r].todo \ {w}]]
          /\ asked' = [asked EXCEPT ![r] = @ \cup {w}]
  BY DEF Ask
<1> DEFINE y == [run[r] EXCEPT !.todo = run[r].todo \ {w}]
<1>2. RunOK(run[r]) /\ run[r] \in RunRow /\ run[r].pc = "running"
  BY DEF Inv, RunsOK, RunOK, Ask
<1>3. w \in Works /\ w \in run[r].batch /\ run[r].todo \ {w} \in SUBSET Works
  BY <1>2 DEF RunOK, RunRow
<1>4. /\ y \in RunRow /\ y.pc = run[r].pc /\ y.release = run[r].release /\ y.claim = run[r].claim
      /\ y.batch = run[r].batch /\ y.tries = run[r].tries
      /\ y.todo = run[r].todo \ {w}
  BY <1>2, <1>3 DEF RunRow
<1>5. run' = [run EXCEPT ![r] = y]
  BY <1>1
<1> HIDE DEF y
<1>6. RunsOK'
  <2>1. RunOK(y)
    BY <1>2, <1>4, RunningOn
  <2>2. QED
    BY <1>5, <2>1, RunUpdate DEF Inv
<1>7. Shapes'
  BY <1>1, <1>3 DEF Inv, Shapes, Ask, ledger, LedgerTypeOK, Quiet
<1>8. BusyOK'
  <2>1. Busy(r)' = Busy(r) \cup {w} /\ run'[r] = y
    BY <1>1, <1>5 DEF Busy, Ask, Inv, Shapes, RunsOK
  <2>2. IsFiniteSet(Busy(r)) /\ Cardinality(Busy(r)) < Workers
    BY DEF Inv, BusyOK, Ask
  <2>3. /\ IsFiniteSet(Busy(r)') /\ Cardinality(Busy(r)') \in {Cardinality(Busy(r)), Cardinality(Busy(r)) + 1}
        /\ Cardinality(Busy(r)) \in Nat
    BY <2>1, <2>2, FS_AddElement, FS_CardinalityType
  <2>4. Cardinality(Busy(r)') <= Workers
    BY <2>2, <2>3, BoundsAssumption
  <2>5. \A q \in Runners \ {r} : Busy(q)' = Busy(q) /\ run'[q] = run[q]
    BY <1>1, <1>5 DEF Busy, Ask, Inv, Shapes, RunsOK
  <2>6. QED
    BY <1>2, <1>3, <1>4, <2>1, <2>3, <2>4, <2>5 DEF BusyOK, Inv
<1>9. QED
  BY <1>6, <1>7, <1>8 DEF Inv

\* A work's thread gets its answers: from asked to owed.
LEMMA JudgedInv ==
    ASSUME Inv, NEW r \in Runners, NEW w \in Works, NEW A \in SUBSET Voters, Judged(r, w, A)
    PROVE  Inv'
<1>1. run[r].claim \in ClaimIds /\ w \in Busy(r)
  BY DEF Judged, Busy, Inv, BusyOK, RunsOK, RunOK
<1>2. /\ VotesOf(r, w, A) \in SUBSET Row
      /\ \A x \in VotesOf(r, w, A) : x.work = w
  BY <1>1, VotesType
<1>3. Shapes'
  BY <1>2 DEF Inv, Shapes, Judged, ledger, LedgerTypeOK
<1>4. RunsOK'
  BY DEF Inv, RunsOK, Judged
<1>5. BusyOK'
  <2> DEFINE a == asked[r] \ {w}
             o == owed[r] \cup VotesOf(r, w, A)
  <2>1. a \in SUBSET Works /\ o \in SUBSET Row
    BY <1>2 DEF Inv, Shapes
  <2>2. a \cup {e.work : e \in o} \subseteq Busy(r)
    BY <1>1, <1>2 DEF Busy
  <2>3. asked' = [asked EXCEPT ![r] = a] /\ owed' = [owed EXCEPT ![r] = o]
    BY DEF Judged
  <2>4. run' = [run EXCEPT ![r] = run[r]]
    BY DEF Judged, Inv, RunsOK
  <2> HIDE DEF a, o
  <2>5. QED
    BY <2>1, <2>2, <2>3, <2>4, BusyShrinks
<1>6. QED
  BY <1>3, <1>4, <1>5 DEF Inv

LEMMA FailedUpdate ==
    ASSUME Inv, NEW r \in Runners, run[r].pc = "running"
    PROVE  LET z == [run[r] EXCEPT !.failed = TRUE]
           IN  RunOK(z) /\ z.batch = run[r].batch /\ z.pc = run[r].pc
<1> DEFINE z == [run[r] EXCEPT !.failed = TRUE]
<1>1. RunOK(run[r]) /\ run[r] \in RunRow
  BY DEF Inv, RunsOK
<1>2. /\ z \in RunRow /\ z.todo = run[r].todo
      /\ z.pc = run[r].pc /\ z.release = run[r].release /\ z.claim = run[r].claim
      /\ z.batch = run[r].batch /\ z.tries = run[r].tries
  BY <1>1 DEF RunRow
<1> HIDE DEF z
<1>3. RunOK(z)
  BY <1>1, <1>2, RunningOn
<1>4. QED
  BY <1>2, <1>3 DEF z

LEMMA JudgeRaisesInv ==
    ASSUME Inv, NEW r \in Runners, JudgeRaises(r)
    PROVE  Inv'
<1> DEFINE z == [run[r] EXCEPT !.failed = TRUE]
<1>1. PICK w \in asked[r] : asked' = [asked EXCEPT ![r] = @ \ {w}]
  BY DEF JudgeRaises
<1>2. run[r].pc = "running" /\ run' = [run EXCEPT ![r] = z]
  BY <1>1 DEF JudgeRaises, Busy, Inv, BusyOK
<1>3. RunOK(z) /\ z.batch = run[r].batch /\ z.pc = run[r].pc
  BY <1>2, FailedUpdate
<1> HIDE DEF z
<1>4. RunsOK'
  BY <1>2, <1>3, RunUpdate DEF Inv
<1>5. Shapes'
  BY <1>1 DEF Inv, Shapes, JudgeRaises, ledger, LedgerTypeOK
<1>6. BusyOK'
  <2>1. /\ asked[r] \ {w} \in SUBSET Works /\ owed[r] \in SUBSET Row
        /\ owed' = [owed EXCEPT ![r] = owed[r]]
        /\ asked' = [asked EXCEPT ![r] = asked[r] \ {w}]
    BY <1>1 DEF Inv, Shapes, JudgeRaises
  <2>2. (asked[r] \ {w}) \cup {e.work : e \in owed[r]} \subseteq Busy(r)
    BY DEF Busy
  <2>3. QED
    BY <1>2, <1>3, <2>1, <2>2, BusyShrinks
<1>7. QED
  BY <1>4, <1>5, <1>6 DEF Inv
LEMMA RecordInv ==
    ASSUME Inv, NEW r \in Runners, Record(r)
    PROVE  Inv'
<1>1. PICK x \in NextVotes(r) :
          /\ rows' = rows \cup {x}
          /\ owed' = [owed EXCEPT ![r] = @ \ {x}]
  BY DEF Record
<1>2. x \in Row
  BY DEF NextVotes, Inv, Shapes
<1>3. Shapes'
  BY <1>1, <1>2 DEF Inv, Shapes, Record, ledger, LedgerTypeOK, Quiet
<1>4. RunsOK'
  BY DEF Inv, RunsOK, Record
<1>5. BusyOK'
  <2>1. /\ asked[r] \in SUBSET Works /\ owed[r] \ {x} \in SUBSET Row
        /\ asked' = [asked EXCEPT ![r] = asked[r]]
        /\ owed' = [owed EXCEPT ![r] = owed[r] \ {x}]
        /\ run' = [run EXCEPT ![r] = run[r]]
    BY <1>1 DEF Inv, Shapes, RunsOK, Record
  <2>2. asked[r] \cup {e.work : e \in owed[r] \ {x}} \subseteq Busy(r)
    BY DEF Busy
  <2>3. QED
    BY <2>1, <2>2, BusyShrinks
<1>6. QED
  BY <1>3, <1>4, <1>5 DEF Inv

LEMMA RecordRaisesInv ==
    ASSUME Inv, NEW r \in Runners, RecordRaises(r)
    PROVE  Inv'
<1> DEFINE z == [run[r] EXCEPT !.failed = TRUE]
<1>1. PICK x \in NextVotes(r) :
          /\ \/ rows' = rows \cup {x} /\ late' = late
             \/ rows' = rows /\ LostOrLate([op |-> "row", row |-> x])
          /\ owed' = [owed EXCEPT ![r] = {y \in owed[r] : y.work # x.work}]
  BY DEF RecordRaises
<1>2. x \in Row /\ x \in owed[r]
  BY DEF NextVotes, Inv, Shapes
<1>3. run[r].pc = "running" /\ run' = [run EXCEPT ![r] = z]
  <2>1. Busy(r) # {}
    BY <1>2 DEF Busy
  <2>2. QED
    BY <2>1 DEF RecordRaises, Inv, BusyOK
<1>4. RunOK(z) /\ z.batch = run[r].batch /\ z.pc = run[r].pc
  BY <1>3, FailedUpdate
<1> HIDE DEF z
<1>5. RunsOK'
  BY <1>3, <1>4, RunUpdate DEF Inv
<1>6. Shapes'
  <2>1. rows' \subseteq Row /\ late' \subseteq Request
    BY <1>1, <1>2 DEF Inv, Shapes, LostOrLate, Request
  <2>2. QED
    BY <1>1, <2>1 DEF Inv, Shapes, RecordRaises, ledger, LedgerTypeOK
<1>7. BusyOK'
  <2> DEFINE o == {y \in owed[r] : y.work # x.work}
  <2>1. /\ asked[r] \in SUBSET Works /\ o \in SUBSET Row
        /\ asked' = [asked EXCEPT ![r] = asked[r]]
        /\ owed' = [owed EXCEPT ![r] = o]
    BY <1>1 DEF Inv, Shapes, RecordRaises
  <2>2. asked[r] \cup {e.work : e \in o} \subseteq Busy(r)
    BY DEF Busy
  <2> HIDE DEF o
  <2>3. QED
    BY <1>3, <1>4, <2>1, <2>2, BusyShrinks
<1>8. QED
  BY <1>5, <1>6, <1>7 DEF Inv

\* Steps outside the threads: planning, the claim, the flags and the end.
LEMMA PlanInv ==
    ASSUME Inv, NEW r \in Runners,
           ReadClaimed(r) \/ ReadDecided(r) \/ CallClaim(r)
    PROVE  Inv'
<1>1. Shapes'
  BY DEF Inv, Shapes, LedgerTypeOK, ReadClaimed, ReadDecided, CallClaim, ledger, Working, Quiet
<1>2. run[r] \in RunRow /\ RunOK(run[r])
  BY DEF Inv, RunsOK
<1>3. CASE ReadClaimed(r)
  <2>1. PICK release \in Releases, S \in Offers :
            run' = [run EXCEPT ![r] = [Idle EXCEPT !.pc = "planning", !.release = release,
                                                   !.batch = S \ ClaimedWorks(release)]]
    BY <1>3 DEF ReadClaimed
  <2>2. RunOK([Idle EXCEPT !.pc = "planning", !.release = release,
                           !.batch = S \ ClaimedWorks(release)])
    BY IdleOK, OffersAssumption DEF RunOK, RunRow, Idle
  <2>3. QED
    BY <1>1, <1>3, <2>1, <2>2, RunUpdate, BusyElsewhere DEF Inv, ReadClaimed, Working
<1>4. CASE ReadDecided(r)
  <2> DEFINE B == run[r].batch \ DecidedWorks
  <2>1. B \in SUBSET Works
    BY <1>2 DEF RunRow
  <2>2. RunOK([run[r] EXCEPT !.pc = "planned", !.batch = B])
    BY <1>2, <1>4, <2>1, Planned DEF ReadDecided
  <2>3. PICK x : RunOK(x) /\ run' = [run EXCEPT ![r] = x]
    BY <1>4, <2>2, IdleOK DEF ReadDecided
  <2>4. QED
    BY <1>1, <1>4, <2>3, RunUpdate, BusyElsewhere DEF Inv, ReadDecided, Working
<1>5. CASE CallClaim(r)
  <2>1. now + TTL \in Nat
    BY BoundsAssumption DEF Inv, Shapes, LedgerTypeOK
  <2>2. RunOK([run[r] EXCEPT !.pc = "claiming", !.until = now + TTL, !.tries = 0])
    BY <1>2, <1>5, <2>1, Calling DEF CallClaim
  <2>3. QED
    BY <1>1, <1>5, <2>2, RunUpdate, BusyElsewhere DEF Inv, CallClaim, Working
<1>6. QED
  BY <1>3, <1>4, <1>5

LEMMA ClaimInv ==
    ASSUME Inv, NEW r \in Runners,
           \/ ClaimGranted(r) \/ ClaimGrantedUnheard(r) \/ ClaimUnanswered(r)
           \/ ClaimRefused(r) \/ RegisterRelease(r)
    PROVE  Inv'
<1>1. RunOK(run[r]) /\ run[r].pc = "claiming"
  BY DEF Inv, RunsOK, ClaimGranted, ClaimGrantedUnheard, ClaimUnanswered, ClaimRefused, RegisterRelease
<1>2. UNCHANGED <<asked, owed, rows>>
  BY DEF ClaimGranted, ClaimGrantedUnheard, ClaimUnanswered, ClaimRefused, RegisterRelease, Working
<1>3. LedgerTypeOK'
  <2>1. CASE ClaimGranted(r) \/ ClaimGrantedUnheard(r)
    BY <1>1, <2>1, GrantType, ClaimRequestType DEF Inv, Shapes, ClaimGranted, ClaimGrantedUnheard
  <2>2. CASE RegisterRelease(r)
    BY <1>1, <2>2 DEF Inv, Shapes, LedgerTypeOK, RegisterRelease, RunOK
  <2>3. QED
    BY <2>1, <2>2 DEF Inv, Shapes, LedgerTypeOK, ClaimUnanswered, ClaimRefused, ledger
<1>4. late' \subseteq Request
  BY <1>1, ClaimRequestType DEF Inv, Shapes, ClaimGranted, ClaimGrantedUnheard, ClaimUnanswered,
                              ClaimRefused, RegisterRelease, LostOrLate, Quiet
<1>5. PICK x : RunOK(x) /\ run' = [run EXCEPT ![r] = x]
  <2>1. CASE ClaimGranted(r)
    BY <1>1, <2>1, Holding DEF ClaimGranted
  <2>2. CASE RegisterRelease(r)
    BY <1>1, <2>2, Registered DEF RegisterRelease
  <2>3. QED
    BY <2>1, <2>2, IdleOK, NextAttemptOK DEF Inv, ClaimGrantedUnheard, ClaimUnanswered, ClaimRefused
<1>6. RunsOK' /\ BusyOK'
  BY <1>1, <1>2, <1>5, RunUpdate, BusyElsewhere DEF Inv
<1>7. QED
  BY <1>2, <1>3, <1>4, <1>6 DEF Inv, Shapes

LEMMA FlagInv ==
    ASSUME Inv, NEW r \in Runners, Interrupt(r) \/ HearFailure(r) \/ Drain(r)
    PROVE  Inv'
<1>1. RunOK(run[r]) /\ run[r] \in RunRow /\ run[r].pc = "running"
  BY DEF Inv, RunsOK, Interrupt, HearFailure, Drain
<1>2. Shapes'
  BY DEF Inv, Shapes, LedgerTypeOK, Interrupt, HearFailure, Drain, ledger, Working, Quiet
<1>3. CASE Drain(r)
  <2>1. RunOK([run[r] EXCEPT !.pc = "ending", !.todo = {}])
    BY <1>1, Draining
  <2>2. QED
    BY <1>2, <1>3, <2>1, RunUpdate, BusyElsewhere DEF Inv, Drain, Working
<1>4. ASSUME NEW z, run' = [run EXCEPT ![r] = z],
             z = [run[r] EXCEPT !.failed = TRUE, !.stop = TRUE] \/ z = [run[r] EXCEPT !.stop = TRUE],
             UNCHANGED <<asked, owed>>
      PROVE  Inv'
  <2>1. /\ z \in RunRow /\ z.todo = run[r].todo
        /\ z.pc = run[r].pc /\ z.release = run[r].release /\ z.claim = run[r].claim
        /\ z.batch = run[r].batch /\ z.tries = run[r].tries
    BY <1>1, <1>4 DEF RunRow
  <2>2. RunOK(z)
    BY <1>1, <2>1, RunningOn
  <2>3. BusyOK'
    BY <1>1, <1>4, <2>1, BusyKept DEF Inv, BusyOK, RunsOK
  <2>4. QED
    BY <1>2, <1>4, <2>2, <2>3, RunUpdate DEF Inv
<1>5. QED
  BY <1>3, <1>4 DEF Interrupt, HearFailure, Working

LEMMA EndInv ==
    ASSUME Inv, NEW r \in Runners,
           Ended(r) \/ EndedUnheard(r) \/ EndUnanswered(r) \/ EndRefused(r)
    PROVE  Inv'
<1>1. run[r].pc = "ending"
  BY DEF Ended, EndedUnheard, EndUnanswered, EndRefused
<1>2. UNCHANGED <<asked, owed, rows>>
  BY DEF Ended, EndedUnheard, EndUnanswered, EndRefused, Working
<1>3. LedgerTypeOK'
  <2>1. CASE Ended(r) \/ EndedUnheard(r)
    BY <1>1, <2>1, EndType, EndRequestType DEF Inv, Shapes, Ended, EndedUnheard
  <2>2. QED
    BY <2>1 DEF Inv, Shapes, LedgerTypeOK, EndUnanswered, EndRefused, ledger
<1>4. late' \subseteq Request
  BY <1>1, EndRequestType DEF Inv, Shapes, Ended, EndedUnheard, EndUnanswered, EndRefused,
                            LostOrLate, Quiet
<1>5. PICK x : RunOK(x) /\ run' = [run EXCEPT ![r] = x]
  BY IdleOK, NextAttemptOK DEF Inv, Ended, EndedUnheard, EndUnanswered, EndRefused
<1>6. RunsOK' /\ BusyOK'
  BY <1>1, <1>2, <1>5, RunUpdate, BusyElsewhere DEF Inv
<1>7. QED
  BY <1>2, <1>3, <1>4, <1>6 DEF Inv, Shapes

LEMMA KillInv ==
    ASSUME Inv, NEW r \in Runners, Kill(r)
    PROVE  Inv'
<1>1. \A x \in NextVotes(r) : x \in Row
  BY DEF NextVotes, Inv, Shapes
<1>2. InFlight(r) \subseteq Request
  BY <1>1, ClaimRequestType, EndRequestType DEF InFlight, Inv, Request
<1>3. Shapes'
  BY <1>2 DEF Inv, Shapes, Kill, ledger, LedgerTypeOK
<1>4. RunsOK'
  BY IdleOK, RunUpdate DEF Inv, Kill
<1>5. BusyOK'
  <2>1. Busy(r)' = {}
    BY DEF Busy, Kill, Inv, Shapes
  <2>2. \A q \in Runners \ {r} : Busy(q)' = Busy(q) /\ run'[q] = run[q]
    BY DEF Busy, Kill, Inv, Shapes, RunsOK
  <2>3. IsFiniteSet({}) /\ Cardinality({}) <= Workers
    BY FS_EmptySet, BoundsAssumption
  <2>4. QED
    BY <2>1, <2>2, <2>3 DEF BusyOK, Inv
<1>6. QED
  BY <1>3, <1>4, <1>5 DEF Inv

\* What happens without a runner.
LEMMA OutsideInv ==
    ASSUME Inv,
           \/ \E q \in late : Late(q)
           \/ \E id \in ClaimIds : OperatorEnds(id)
           \/ Tick
           \/ UNCHANGED vars
    PROVE  Inv'
<1>1. UNCHANGED <<run, asked, owed>>
  BY DEF Late, OperatorEnds, Tick, Working, vars
<1>2. RunsOK' /\ BusyOK'
  BY <1>1 DEF Inv, RunsOK, BusyOK, Busy
<1>3. Shapes'
  <2>1. ASSUME NEW q \in late, Late(q)
        PROVE  Shapes'
    <3>1. LedgerTypeOK' /\ rows' \subseteq Row
      <4>1. q \in Request
        BY DEF Inv, Shapes
      <4>2. CASE LateClaim(q)
        BY <4>1, <4>2, GrantType DEF LateClaim, Inv, Shapes, Request
      <4>3. CASE LateRow(q)
        BY <4>1, <4>3 DEF LateRow, Inv, Shapes, Request, ledger, LedgerTypeOK
      <4>4. CASE LateEnd(q)
        BY <4>1, <4>4, EndType DEF LateEnd, Inv, Shapes, Request
      <4>5. QED
        BY <2>1, <4>2, <4>3, <4>4 DEF Late
    <3>2. QED
      BY <1>1, <2>1, <3>1 DEF Late, Inv, Shapes
  <2>2. ASSUME NEW id \in ClaimIds, OperatorEnds(id)
        PROVE  Shapes'
    BY <2>2, EndType DEF OperatorEnds, Inv, Shapes, EndStatuses, Working
  <2>3. CASE Tick
    BY <2>3 DEF Tick, Inv, Shapes, LedgerTypeOK, Working, Quiet
  <2>4. QED
    BY <2>1, <2>2, <2>3 DEF vars, Inv, Shapes, LedgerTypeOK
<1>4. QED
  BY <1>2, <1>3 DEF Inv

LEMMA InvStep == Inv /\ [Next]_vars => Inv'
  BY AskInv, JudgedInv, JudgeRaisesInv, RecordInv, RecordRaisesInv, PlanInv, ClaimInv, FlagInv,
     EndInv, KillInv, OutsideInv
  DEF Next, Step, Trouble, Answered, HalfAnswered

LEMMA Invariance == Spec => []Inv
<1>1. Init => Inv
  <2>1. ASSUME Init PROVE Shapes
    BY <2>1 DEF Init, LedgerInit, Shapes, LedgerTypeOK, NoClaim, ClaimRow
  <2>2. ASSUME Init PROVE RunsOK
    BY <2>2, IdleOK DEF Init, RunsOK, RunOK
  <2>3. ASSUME Init PROVE BusyOK
    <3>1. \A r \in Runners : Busy(r) = {}
      BY <2>3 DEF Init, Busy
    <3>2. QED
      BY <3>1, FS_EmptySet, BoundsAssumption DEF BusyOK
  <2>4. QED
    BY <2>1, <2>2, <2>3 DEF Inv
<1>2. QED
  BY <1>1, InvStep, PTL DEF Spec

\* Type correctness: batches, votes and requests keep their shape, a claim is
\* held exactly between its grant and its end, and no run asks about more works
\* at once than it has threads.
THEOREM TypeCorrect == Spec => []TypeOK
<1>1. QED
  BY Invariance, InvType, PTL
-----------------------------------------------------------------------------
\* What a step does to the ledger.
Granting == \E id \in ClaimIds, q \in Request :
                q.op = "claim" /\ Grant(id, q)
Ending == \E id \in ClaimIds, s \in EndStatuses :
              Endable(id) /\ EndClaim(id, s) /\ now' = now
Keeping == claims' = claims /\ now' \in Nat /\ now' >= now

LEMMA LedgerStep ==
    ASSUME Inv, [Next]_vars
    PROVE  Granting \/ Ending \/ Keeping
<1>1. now \in Nat
  BY DEF Inv, Shapes, LedgerTypeOK
<1>2. ASSUME UNCHANGED <<claims, now>> PROVE Keeping
  BY <1>1, <1>2 DEF Keeping
<1>3. ASSUME NEW r \in Runners, ClaimGranted(r) \/ ClaimGrantedUnheard(r)
      PROVE  Granting
  <2>1. run[r].pc = "claiming"
    BY <1>3 DEF ClaimGranted, ClaimGrantedUnheard
  <2>2. ClaimRequest(r) \in Request /\ ClaimRequest(r).op = "claim"
    BY <2>1, ClaimRequestType DEF Inv, ClaimRequest
  <2>3. QED
    BY <1>3, <2>2 DEF ClaimGranted, ClaimGrantedUnheard, Granting
<1>4. ASSUME NEW r \in Runners, Ended(r) \/ EndedUnheard(r)
      PROVE  Ending
  BY <1>4, EndRequestType DEF Ended, EndedUnheard, Ending, Inv
<1>5. ASSUME NEW r \in Runners, Step(r) \/ Trouble(r)
      PROVE  Granting \/ Ending \/ Keeping
  BY <1>2, <1>3, <1>4, <1>5
  DEF Step, Trouble, ReadClaimed, ReadDecided, CallClaim, ClaimRefused, RegisterRelease, Ask,
      Answered, HalfAnswered, Judged, Record, HearFailure, Drain, EndRefused, ClaimUnanswered,
      JudgeRaises, Interrupt, RecordRaises, EndUnanswered, Kill, ledger
<1>6. ASSUME NEW q \in late, Late(q)
      PROVE  Granting \/ Ending \/ Keeping
  <2>1. q \in Request
    BY <1>6 DEF Inv, Shapes
  <2>2. CASE LateClaim(q)
    BY <2>1, <2>2 DEF LateClaim, Granting
  <2>3. CASE LateRow(q)
    BY <1>2, <2>3 DEF LateRow, ledger
  <2>4. CASE LateEnd(q)
    BY <2>1, <2>4 DEF LateEnd, Ending, Request
  <2>5. QED
    BY <1>6, <2>2, <2>3, <2>4 DEF Late
<1>7. ASSUME NEW id \in ClaimIds, OperatorEnds(id)
      PROVE  Ending
  BY <1>7 DEF OperatorEnds, Ending, EndStatuses
<1>8. CASE Tick
  BY <1>1, <1>8 DEF Tick, Keeping
<1>9. CASE UNCHANGED vars
  BY <1>2, <1>9 DEF vars
<1>10. QED
  BY <1>5, <1>6, <1>7, <1>8, <1>9 DEF Next

\* A claim that was minted keeps its tier and works, and only an active claim
\* is live later.
LEMMA RowsStay ==
    ASSUME Inv, [Next]_vars, NEW id \in ClaimIds, claims[id].status # "absent"
    PROVE  /\ claims'[id].status # "absent"
           /\ claims'[id].tier = claims[id].tier /\ claims'[id].items = claims[id].items
           /\ Live(id, now)' => Live(id, now)
<1>1. claims \in [ClaimIds -> ClaimRow] /\ claims[id].expires \in Nat /\ now \in Nat
  BY DEF Inv, Shapes, LedgerTypeOK, ClaimRow
<1>2. CASE Granting
  BY <1>1, <1>2 DEF Granting, Grant, Fresh, InsertClaim, Live
<1>3. CASE Ending
  <2>1. PICK jd \in ClaimIds, s \in EndStatuses : Endable(jd) /\ EndClaim(jd, s) /\ now' = now
    BY <1>3 DEF Ending
  <2>2. s # "active" /\ s # "absent"
    BY DEF EndStatuses
  <2>3. /\ claims'[id].tier = claims[id].tier /\ claims'[id].items = claims[id].items
        /\ claims'[id].expires = claims[id].expires
        /\ claims'[id].status \in {claims[id].status, s}
    BY <1>1, <2>1 DEF EndClaim, ClaimRow
  <2>4. QED
    BY <2>1, <2>2, <2>3 DEF Live
<1>4. CASE Keeping
  <2>1. now' \in Nat /\ now' >= now /\ claims' = claims
    BY <1>4 DEF Keeping
  <2>2. claims[id].expires > now' => claims[id].expires > now
    BY <1>1, <2>1
  <2>3. QED
    BY <2>1, <2>2 DEF Live
<1>5. QED
  BY <1>2, <1>3, <1>4, LedgerStep

\* What a step does to the claim a runner holds.
LEMMA HoldStep ==
    ASSUME Inv, [Next]_vars, NEW r \in Runners
    PROVE  \/ run'[r].claim = None
           \/ run'[r].claim = run[r].claim /\ run'[r].batch = run[r].batch
           \/ /\ run'[r].claim \in ClaimIds /\ run'[r].batch = run[r].batch
              /\ Grant(run'[r].claim, ClaimRequest(r))
              /\ \A s \in Runners \ {r} : run'[s] = run[s]
<1>1. /\ run \in [Runners -> RunRow] /\ run[r].claim \in ClaimIds \cup {None}
      /\ RunOK(run[r])
  BY DEF Inv, RunsOK, RunRow
<1>2. ASSUME run'[r].pc \notin {"running", "ending"}
      PROVE  run'[r].claim = None
  BY <1>2, InvStep DEF Inv, RunsOK, RunOK, RunRow
<1>3. ASSUME run' = run
      PROVE  run'[r].claim = run[r].claim /\ run'[r].batch = run[r].batch
  BY <1>3
<1>4. ASSUME ReadClaimed(r) \/ ReadDecided(r) \/ CallClaim(r) \/ ClaimGrantedUnheard(r)
             \/ ClaimUnanswered(r) \/ ClaimRefused(r) \/ RegisterRelease(r)
             \/ Ended(r) \/ EndRefused(r) \/ Kill(r)
      PROVE  run'[r].pc \notin {"running", "ending"}
  <2>1. Idle.pc = "idle"
    BY DEF Idle
  <2>2. CASE ClaimGrantedUnheard(r) \/ ClaimUnanswered(r)
    BY <1>1, <2>1, <2>2, NextAttemptKeeps DEF ClaimGrantedUnheard, ClaimUnanswered, Inv
  <2>3. CASE ClaimRefused(r) \/ Ended(r) \/ EndRefused(r) \/ Kill(r)
    BY <1>1, <2>1, <2>3 DEF ClaimRefused, Ended, EndRefused, Kill
  <2>4. CASE ReadClaimed(r)
    BY <1>1, <2>4 DEF ReadClaimed, Idle
  <2>5. CASE ReadDecided(r)
    BY <1>1, <2>1, <2>5 DEF ReadDecided, RunRow
  <2>6. CASE CallClaim(r)
    BY <1>1, <2>6 DEF CallClaim, RunRow
  <2>7. CASE RegisterRelease(r)
    BY <1>1, <2>7 DEF RegisterRelease, RunRow
  <2>8. QED
    BY <1>4, <2>2, <2>3, <2>4, <2>5, <2>6, <2>7
<1>5. ASSUME EndedUnheard(r) \/ EndUnanswered(r)
      PROVE  \/ run'[r].pc \notin {"running", "ending"}
             \/ run'[r].claim = run[r].claim /\ run'[r].batch = run[r].batch
  <2>1. Idle.pc = "idle"
    BY DEF Idle
  <2>2. QED
    BY <1>1, <1>5, <2>1, NextAttemptKeeps DEF EndedUnheard, EndUnanswered, Inv
<1>6. ASSUME Ask(r) \/ JudgeRaises(r) \/ Interrupt(r) \/ HearFailure(r) \/ RecordRaises(r) \/ Drain(r)
      PROVE  run'[r].claim = run[r].claim /\ run'[r].batch = run[r].batch
  <2>1. PICK x \in RunRow : x = run[r] BY <1>1
  <2>2. CASE Ask(r)
    <3>1. PICK t : run' = [run EXCEPT ![r] = [x EXCEPT !.todo = t]] BY <2>1, <2>2 DEF Ask
    <3>2. PICK y : y = [x EXCEPT !.todo = t] OBVIOUS
    <3>3. y.claim = x.claim /\ y.batch = x.batch BY <3>2 DEF RunRow
    <3>4. QED BY <1>1, <2>1, <3>1, <3>2, <3>3
  <2>3. CASE JudgeRaises(r) \/ RecordRaises(r)
    <3>1. run' = [run EXCEPT ![r] = [x EXCEPT !.failed = TRUE]]
      BY <2>1, <2>3 DEF JudgeRaises, RecordRaises
    <3>2. PICK y : y = [x EXCEPT !.failed = TRUE] OBVIOUS
    <3>3. y.claim = x.claim /\ y.batch = x.batch BY <3>2 DEF RunRow
    <3>4. QED BY <1>1, <2>1, <3>1, <3>2, <3>3
  <2>4. CASE Interrupt(r) BY <1>1, <2>1, <2>4 DEF Interrupt, RunRow
  <2>5. CASE HearFailure(r) BY <1>1, <2>1, <2>5 DEF HearFailure, RunRow
  <2>6. CASE Drain(r) BY <1>1, <2>1, <2>6 DEF Drain, RunRow
  <2>7. QED BY <1>6, <2>2, <2>3, <2>4, <2>5, <2>6
<1>7. ASSUME ClaimGranted(r)
      PROVE  /\ run'[r].claim \in ClaimIds /\ run'[r].batch = run[r].batch
             /\ Grant(run'[r].claim, ClaimRequest(r))
             /\ \A s \in Runners \ {r} : run'[s] = run[s]
  <2>1. PICK id \in ClaimIds :
            /\ Grant(id, ClaimRequest(r))
            /\ run' = [run EXCEPT ![r] = [@ EXCEPT !.pc = "running", !.claim = id,
                                                !.todo = run[r].batch, !.tries = 0]]
    BY <1>7 DEF ClaimGranted
  <2>2. PICK x \in RunRow : x = run[r] BY <1>1
  <2>3. PICK y : y = [x EXCEPT !.pc = "running", !.claim = id, !.todo = x.batch, !.tries = 0]
    OBVIOUS
  <2>4. y.claim = id /\ y.batch = x.batch BY <2>3 DEF RunRow
  <2>5. run' = [run EXCEPT ![r] = y] BY <2>1, <2>2, <2>3
  <2>6. QED BY <1>1, <2>1, <2>2, <2>4, <2>5
<1>8. ASSUME Answered(r) \/ HalfAnswered(r) \/ Record(r)
      PROVE  run' = run
  BY <1>8 DEF Answered, HalfAnswered, Judged, Record
<1>9. ASSUME NEW s \in Runners \ {r}, Step(s) \/ Trouble(s)
      PROVE  run'[r] = run[r]
  BY <1>1, <1>9
  DEF Step, Trouble, ReadClaimed, ReadDecided, CallClaim, ClaimGranted, ClaimRefused,
      RegisterRelease, Ask, Answered, Record, HearFailure, Drain, Ended, EndRefused,
      ClaimGrantedUnheard, ClaimUnanswered, HalfAnswered, JudgeRaises, Interrupt, RecordRaises,
      EndedUnheard, EndUnanswered, Kill, Judged
<1>10. ASSUME ~\E s \in Runners : Step(s) \/ Trouble(s)
       PROVE  run' = run
  BY <1>10 DEF Next, Late, OperatorEnds, Tick, vars
<1>11. ASSUME Step(r) \/ Trouble(r)
       PROVE  \/ run'[r].claim = None
              \/ run'[r].claim = run[r].claim /\ run'[r].batch = run[r].batch
              \/ /\ run'[r].claim \in ClaimIds /\ run'[r].batch = run[r].batch
                 /\ Grant(run'[r].claim, ClaimRequest(r))
                 /\ \A s \in Runners \ {r} : run'[s] = run[s]
  BY <1>2, <1>3, <1>4, <1>5, <1>6, <1>7, <1>8, <1>11 DEF Step, Trouble
<1>12. QED
  BY <1>3, <1>9, <1>10, <1>11
-----------------------------------------------------------------------------
\* What keeps two runners from spending on one work.  A runner that holds a
\* claim holds the row it was granted, two runners never hold one row, and two
\* live rows of the tier share no work.
Owned ==
    \A r \in Runners :
        run[r].claim # None =>
            /\ claims[run[r].claim].status # "absent"
            /\ claims[run[r].claim].tier = Tier
            /\ claims[run[r].claim].items = run[r].batch
Distinct ==
    \A r, s \in Runners : r # s /\ run[r].claim # None => run[r].claim # run[s].claim
Exclusive ==
    \A g, h \in ClaimIds :
        /\ g # h
        /\ Live(g, now) /\ Live(h, now)
        /\ claims[g].tier = Tier /\ claims[h].tier = Tier
        => claims[g].items \cap claims[h].items = {}

LEMMA Granted ==
    ASSUME Inv, NEW id \in ClaimIds, NEW q, Grant(id, q)
    PROVE  /\ claims[id].status = "absent"
           /\ claims'[id].status = "active" /\ claims'[id].tier = Tier
           /\ claims'[id].items = q.items /\ now' = now
           /\ \A g \in ClaimIds \ {id} : claims'[g] = claims[g]
           /\ \A g \in ClaimIds : Live(g, now) /\ claims[g].tier = Tier
                                   => claims[g].items \cap q.items = {}
  BY TierAssumption, MeasurementAssumption
  DEF Grant, Fresh, Grantable, Claimable, Conflicts, InsertClaim, Inv, Shapes, LedgerTypeOK

LEMMA OwnedStep ==
    ASSUME Inv, Owned, [Next]_vars
    PROVE  Owned'
<1> SUFFICES ASSUME NEW r \in Runners, run'[r].claim # None
             PROVE  /\ claims'[run'[r].claim].status # "absent"
                    /\ claims'[run'[r].claim].tier = Tier
                    /\ claims'[run'[r].claim].items = run'[r].batch
  BY DEF Owned
<1>1. run'[r].claim \in ClaimIds
  BY InvStep DEF Inv, RunsOK, RunOK, RunRow
<1>2. CASE run'[r].claim = run[r].claim /\ run'[r].batch = run[r].batch
  BY <1>1, <1>2, RowsStay DEF Owned
<1>3. CASE run'[r].batch = run[r].batch /\ Grant(run'[r].claim, ClaimRequest(r))
  BY <1>1, <1>3, Granted DEF ClaimRequest
<1>4. QED
  BY <1>2, <1>3, HoldStep

LEMMA DistinctStep ==
    ASSUME Inv, Owned, Distinct, [Next]_vars
    PROVE  Distinct'
<1> SUFFICES ASSUME NEW r \in Runners, NEW s \in Runners, r # s,
                    run'[r].claim = run'[s].claim, run'[r].claim # None
             PROVE  FALSE
  BY DEF Distinct
<1>1. \A t \in Runners : run[t].claim # None => claims[run[t].claim].status # "absent"
  BY DEF Owned
<1>2. ASSUME NEW t \in Runners, NEW u \in Runners, t # u, run'[t].claim = run'[u].claim,
             run'[t].claim # None, Grant(run'[t].claim, ClaimRequest(t)), run'[t].claim \in ClaimIds,
             \A v \in Runners \ {t} : run'[v] = run[v]
      PROVE  FALSE
  <2>1. claims[run'[t].claim].status = "absent"
    BY <1>2, Granted
  <2>2. run[u].claim = run'[t].claim
    BY <1>2
  <2>3. QED
    BY <1>1, <1>2, <2>1, <2>2
<1>3. CASE run'[r].claim = run[r].claim /\ run'[s].claim = run[s].claim
  BY <1>3 DEF Distinct
<1>4. QED
  BY <1>2, <1>3, HoldStep

LEMMA ExclusiveStep ==
    ASSUME Inv, Exclusive, [Next]_vars
    PROVE  Exclusive'
<1> SUFFICES ASSUME NEW g \in ClaimIds, NEW h \in ClaimIds, g # h,
                    Live(g, now)', Live(h, now)',
                    claims'[g].tier = Tier, claims'[h].tier = Tier
             PROVE  claims'[g].items \cap claims'[h].items = {}
  BY DEF Exclusive, Live
<1>1. CASE claims[g].status # "absent" /\ claims[h].status # "absent"
  BY <1>1, RowsStay DEF Exclusive
<1>2. ASSUME NEW a \in ClaimIds, NEW b \in ClaimIds, a # b, claims[a].status = "absent",
             Live(a, now)', Live(b, now)', claims'[b].tier = Tier
      PROVE  claims'[a].items \cap claims'[b].items = {}
  <2>1. claims'[a].status = "active" /\ claims'[b].status = "active"
    BY <1>2 DEF Live
  <2>2. ~Ending /\ ~Keeping
    BY <1>2, <2>1 DEF Ending, Endable, EndClaim, Keeping, Inv, Shapes, LedgerTypeOK
  <2>3. PICK id \in ClaimIds, q \in Request : q.op = "claim" /\ Grant(id, q)
    BY <2>2, LedgerStep DEF Granting
  <2>4. a = id /\ claims'[b] = claims[b]
    BY <1>2, <2>1, <2>3, Granted
  <2>5. Live(b, now) /\ claims[b].tier = Tier
    BY <1>2, <2>3, <2>4, Granted DEF Live
  <2>6. QED
    BY <2>3, <2>4, <2>5, Granted
<1>3. QED
  BY <1>1, <1>2

\* No two runners ask about one work at one moment unless a claim has stopped
\* holding it: what the lease and the advisory lock buy a screen (run_tier),
\* whatever answers are lost and whatever arrives late.
THEOREM SpendsAlone == Spec => []NoConcurrentSpend
<1>1. Init => Owned /\ Distinct /\ Exclusive
  <2>1. ASSUME Init PROVE Owned /\ Distinct
    BY <2>1 DEF Init, Owned, Distinct, Idle
  <2>2. ASSUME Init, NEW g \in ClaimIds PROVE ~Live(g, now)
    BY <2>2 DEF Init, LedgerInit, NoClaim, Live
  <2>3. QED
    BY <2>1, <2>2 DEF Exclusive
<1>2. Inv /\ Owned /\ Distinct /\ Exclusive /\ [Next]_vars => (Owned /\ Distinct /\ Exclusive)'
  BY OwnedStep, DistinctStep, ExclusiveStep
<1>3. Inv /\ Owned /\ Distinct /\ Exclusive => NoConcurrentSpend
  <2> SUFFICES ASSUME Inv, Owned, Distinct, Exclusive, NEW r \in Runners, NEW s \in Runners,
                      r # s, run[r].claim # None, run[s].claim # None,
                      Busy(r) \cap Busy(s) # {},
                      Live(run[r].claim, now), Live(run[s].claim, now)
               PROVE  FALSE
    BY DEF NoConcurrentSpend
  <2>1. run[r].claim \in ClaimIds /\ run[s].claim \in ClaimIds /\ run[r].claim # run[s].claim
    BY DEF Distinct, Inv, RunsOK, RunRow
  <2>2. claims[run[r].claim].items \cap claims[run[s].claim].items = {}
    BY <2>1 DEF Exclusive, Owned
  <2>3. Busy(r) \subseteq claims[run[r].claim].items /\ Busy(s) \subseteq claims[run[s].claim].items
    BY DEF Owned, Inv, BusyOK
  <2>4. QED
    BY <2>2, <2>3
<1>4. QED
  BY <1>1, <1>2, <1>3, Invariance, PTL DEF Spec
-----------------------------------------------------------------------------
\* What makes CompleteMeansAnswered inductive: every work of a batch that has
\* not failed is queued, at a thread, or recorded under the batch's claim, and
\* an end still on its way says "complete" only of works already recorded.
HasRow(c, w) == \E x \in rows : x.claim = c /\ x.work = w

Accounted(r) ==
    /\ run[r].stop => run[r].failed
    /\ \A x \in owed[r] : x.claim = run[r].claim
    /\ run[r].pc \in {"running", "ending"} /\ ~run[r].failed =>
           \A w \in run[r].batch : w \in run[r].todo \cup Busy(r) \/ HasRow(run[r].claim, w)

LateEndsTrue ==
    \A q \in late : q.op = "end" =>
        /\ claims[q.id].status # "absent"
        /\ q.status = "complete" => \A w \in claims[q.id].items : HasRow(q.id, w)

Truthful == (\A r \in Runners : Accounted(r)) /\ LateEndsTrue /\ CompleteMeansAnswered

LEMMA RowsGrow == ASSUME [Next]_vars PROVE rows \subseteq rows'
<1>1. ASSUME NEW r \in Runners, Step(r) PROVE rows \subseteq rows'
  <2>1. CASE ReadClaimed(r) \/ ReadDecided(r) \/ CallClaim(r) \/ ClaimGranted(r)
             \/ ClaimRefused(r) \/ RegisterRelease(r)
    BY <2>1 DEF ReadClaimed, ReadDecided, CallClaim, ClaimGranted, ClaimRefused,
                RegisterRelease, Working
  <2>2. CASE Ask(r) \/ Answered(r) \/ Record(r) BY <2>2 DEF Ask, Answered, Judged, Record
  <2>3. CASE HearFailure(r) \/ Drain(r) \/ Ended(r) \/ EndRefused(r)
    BY <2>3 DEF HearFailure, Drain, Ended, EndRefused, Working
  <2>4. QED BY <1>1, <2>1, <2>2, <2>3 DEF Step
<1>2. ASSUME NEW r \in Runners, Trouble(r) PROVE rows \subseteq rows'
  <2>1. CASE ClaimGrantedUnheard(r) \/ ClaimUnanswered(r) \/ EndedUnheard(r)
             \/ EndUnanswered(r) \/ Interrupt(r)
    BY <2>1 DEF ClaimGrantedUnheard, ClaimUnanswered, EndedUnheard, EndUnanswered, Interrupt,
                Working
  <2>2. CASE HalfAnswered(r) \/ JudgeRaises(r) \/ RecordRaises(r) \/ Kill(r)
    BY <2>2 DEF HalfAnswered, Judged, JudgeRaises, RecordRaises, Kill
  <2>3. QED BY <1>2, <2>1, <2>2 DEF Trouble
<1>3. ASSUME NEW q \in late, Late(q) PROVE rows \subseteq rows'
  BY <1>3 DEF Late, LateClaim, LateRow, LateEnd
<1>4. CASE (\E id \in ClaimIds : OperatorEnds(id)) \/ Tick \/ UNCHANGED vars
  BY <1>4 DEF OperatorEnds, Tick, Working, vars
<1>5. QED BY <1>1, <1>2, <1>3, <1>4 DEF Next

LEMMA RowsKept ==
    ASSUME [Next]_vars, NEW c, NEW w, HasRow(c, w)
    PROVE  HasRow(c, w)'
  BY RowsGrow DEF HasRow

\* Runners that do nothing stay accounted for.
LEMMA AccountedKept ==
    ASSUME Inv, [Next]_vars, NEW r \in Runners, Accounted(r),
           run'[r] = run[r], asked'[r] = asked[r], owed'[r] = owed[r]
    PROVE  Accounted(r)'
<1>1. Busy(r)' = Busy(r)
  BY DEF Busy
<1>2. QED
  BY <1>1, RowsKept DEF Accounted

\* A runner without a batch at its threads, or with a failed one, is.
LEMMA AccountedIdle ==
    ASSUME NEW r \in Runners, owed'[r] = {}, run'[r].stop => run'[r].failed,
           run'[r].pc \notin {"running", "ending"} \/ run'[r].failed
    PROVE  Accounted(r)'
  BY DEF Accounted

LEMMA DoneAtTheEnd ==
    ASSUME Inv, Owned, NEW r \in Runners, Accounted(r), run[r].pc = "ending", EndStatus(r) = "complete"
    PROVE  \A w \in claims[run[r].claim].items : HasRow(run[r].claim, w)
<1>1. run[r].claim # None /\ run[r].todo = {} /\ Busy(r) = {} /\ ~run[r].failed
  BY NoneAssumption DEF Inv, RunsOK, RunOK, BusyOK, EndStatus
<1>2. QED
  BY <1>1 DEF Accounted, Owned

\* The runner that acts stays accounted for.
LEMMA AccountedStep ==
    ASSUME Inv, [Next]_vars, NEW r \in Runners, Accounted(r), Step(r) \/ Trouble(r)
    PROVE  Accounted(r)'
<1>1. /\ run \in [Runners -> RunRow] /\ run[r] \in RunRow
      /\ asked \in [Runners -> SUBSET Works] /\ owed \in [Runners -> SUBSET Row]
  BY DEF Inv, RunsOK, Shapes
<1>2. run[r].pc # "running" => owed[r] = {}
  BY DEF Inv, BusyOK, Busy
<1>3. Idle.pc = "idle" /\ ~Idle.stop
  BY DEF Idle
<1>4. run[r].stop => run[r].failed
  BY DEF Accounted
<1>5. CASE \/ ReadClaimed(r) \/ ReadDecided(r) \/ CallClaim(r) \/ RegisterRelease(r)
  <2>1. owed'[r] = {}
    BY <1>2, <1>5 DEF ReadClaimed, ReadDecided, CallClaim, RegisterRelease, Working
  <2>2. CASE ReadClaimed(r)
    <3>1. run'[r].pc = "planning" /\ ~run'[r].stop
      BY <1>1, <2>2 DEF ReadClaimed, Idle
    <3>2. QED
      BY <2>1, <3>1, AccountedIdle
  <2>3. CASE ReadDecided(r)
    <3>1. run'[r].pc \in {"idle", "planned"} /\ (run'[r].stop => run'[r].failed)
      BY <1>1, <1>3, <1>4, <2>3 DEF ReadDecided, RunRow
    <3>2. QED
      BY <2>1, <3>1, AccountedIdle
  <2>4. CASE CallClaim(r)
    <3>1. run'[r].pc = "claiming" /\ (run'[r].stop => run'[r].failed)
      BY <1>1, <1>4, <2>4 DEF CallClaim, RunRow
    <3>2. QED
      BY <2>1, <3>1, AccountedIdle
  <2>5. CASE RegisterRelease(r)
    <3>1. run'[r].pc = "planned" /\ (run'[r].stop => run'[r].failed)
      BY <1>1, <1>4, <2>5 DEF RegisterRelease, RunRow
    <3>2. QED
      BY <2>1, <3>1, AccountedIdle
  <2>6. QED
    BY <1>5, <2>2, <2>3, <2>4, <2>5
<1>6. CASE ClaimRefused(r) \/ Ended(r) \/ EndRefused(r) \/ Kill(r)
  <2>1. owed'[r] = {}
    BY <1>1, <1>2, <1>6 DEF ClaimRefused, Ended, EndRefused, Kill, Working
  <2>2. run'[r] = Idle
    BY <1>1, <1>6 DEF ClaimRefused, Ended, EndRefused, Kill
  <2>3. QED
    BY <1>3, <2>1, <2>2, AccountedIdle
<1>7. CASE ClaimGrantedUnheard(r) \/ ClaimUnanswered(r) \/ EndedUnheard(r) \/ EndUnanswered(r)
  <2>1. /\ run'[r] = NextAttempt(r) /\ owed'[r] = {} /\ asked'[r] = asked[r] /\ owed[r] = {}
    BY <1>1, <1>2, <1>7 DEF ClaimGrantedUnheard, ClaimUnanswered, EndedUnheard, EndUnanswered, Working
  <2>2. CASE run'[r] = Idle
    BY <1>3, <2>1, <2>2, AccountedIdle
  <2>3. CASE /\ run'[r].pc = run[r].pc /\ run'[r].claim = run[r].claim /\ run'[r].batch = run[r].batch
             /\ run'[r].todo = run[r].todo /\ run'[r].failed = run[r].failed /\ run'[r].stop = run[r].stop
    <3>1. Busy(r)' = Busy(r)
      BY <2>1 DEF Busy
    <3>2. QED
      BY <2>1, <2>3, <3>1, RowsKept DEF Accounted
  <2>4. QED
    BY <2>1, <2>2, <2>3, NextAttemptKeeps DEF Inv
<1>8. CASE ClaimGranted(r)
  <2>1. owed'[r] = {}
    BY <1>2, <1>8 DEF ClaimGranted, Working
  <2>2. PICK id \in ClaimIds :
            run' = [run EXCEPT ![r] = [run[r] EXCEPT !.pc = "running", !.claim = id,
                                                     !.todo = run[r].batch, !.tries = 0]]
    BY <1>8 DEF ClaimGranted
  <2>3. \A y \in RunRow, i \in ClaimIds, b \in SUBSET Works :
            LET x == [y EXCEPT !.pc = "running", !.claim = i, !.todo = b, !.tries = 0]
            IN  x.todo = b /\ x.batch = y.batch /\ x.stop = y.stop /\ x.failed = y.failed
    BY DEF RunRow
  <2>4. run[r].batch \in SUBSET Works
    BY <1>1 DEF RunRow
  <2>5. run'[r].todo = run'[r].batch /\ (run'[r].stop => run'[r].failed)
    BY <1>1, <1>4, <2>2, <2>3, <2>4
  <2>6. QED
    BY <2>1, <2>5 DEF Accounted
<1>9. CASE Ask(r)
  <2>1. PICK w \in run[r].todo :
            /\ run' = [run EXCEPT ![r] = [run[r] EXCEPT !.todo = run[r].todo \ {w}]]
            /\ asked' = [asked EXCEPT ![r] = @ \cup {w}]
    BY <1>9 DEF Ask
  <2>2. /\ run'[r].todo = run[r].todo \ {w} /\ run'[r].pc = run[r].pc /\ run'[r].claim = run[r].claim
        /\ run'[r].batch = run[r].batch /\ run'[r].failed = run[r].failed /\ run'[r].stop = run[r].stop
    BY <1>1, <2>1 DEF RunRow
  <2>3. Busy(r)' = Busy(r) \cup {w} /\ owed' = owed
    BY <1>1, <1>9, <2>1 DEF Ask, Busy
  <2>4. QED
    BY <2>2, <2>3, RowsKept DEF Accounted
<1>10. CASE Answered(r) \/ HalfAnswered(r)
  <2>1. PICK w \in Works, A \in SUBSET Voters : Judged(r, w, A)
    BY <1>10 DEF Answered, HalfAnswered
  <2>2. run[r].claim \in ClaimIds
    BY <2>1 DEF Judged, Busy, Inv, BusyOK, RunsOK, RunOK
  <2>3. /\ \A x \in VotesOf(r, w, A) : x.work = w /\ x.claim = run[r].claim
        /\ \E x \in VotesOf(r, w, A) : x.work = w
    BY <2>2, VotesType
  <2>4. Busy(r) \subseteq Busy(r)' /\ run'[r] = run[r]
        /\ owed'[r] = owed[r] \cup VotesOf(r, w, A)
    BY <1>1, <2>1, <2>3 DEF Judged, Busy
  <2>5. QED
    BY <2>3, <2>4, RowsKept DEF Accounted
<1>11. CASE Record(r)
  <2>1. PICK x \in owed[r] : rows' = rows \cup {x} /\ owed' = [owed EXCEPT ![r] = @ \ {x}]
    BY <1>11 DEF Record, NextVotes
  <2>2. x.claim = run[r].claim /\ HasRow(run[r].claim, x.work)'
    BY <1>11, <2>1 DEF Accounted, HasRow, Record
  <2>3. run'[r] = run[r] /\ owed'[r] = owed[r] \ {x} /\ asked'[r] = asked[r]
    BY <1>1, <1>11, <2>1 DEF Record
  <2>4. Busy(r) \subseteq Busy(r)' \cup {x.work}
    BY <2>3 DEF Busy
  <2>5. ASSUME NEW w \in run[r].batch, w \in run[r].todo \cup Busy(r) \/ HasRow(run[r].claim, w)
        PROVE  w \in run'[r].todo \cup Busy(r)' \/ HasRow(run[r].claim, w)'
    BY <2>2, <2>3, <2>4, <2>5, RowsKept
  <2>6. QED
    BY <2>3, <2>5 DEF Accounted, HasRow
<1>12. CASE JudgeRaises(r) \/ RecordRaises(r) \/ Interrupt(r)
  <2>1. run'[r].failed /\ run'[r].claim = run[r].claim
    <3>1. \/ run' = [run EXCEPT ![r] = [run[r] EXCEPT !.failed = TRUE]]
          \/ run' = [run EXCEPT ![r] = [run[r] EXCEPT !.failed = TRUE, !.stop = TRUE]]
      BY <1>12 DEF JudgeRaises, RecordRaises, Interrupt
    <3>2. \A y \in RunRow : /\ [y EXCEPT !.failed = TRUE].failed
                            /\ [y EXCEPT !.failed = TRUE].claim = y.claim
                            /\ [y EXCEPT !.failed = TRUE, !.stop = TRUE].failed
                            /\ [y EXCEPT !.failed = TRUE, !.stop = TRUE].claim = y.claim
      BY DEF RunRow
    <3>3. QED
      BY <1>1, <3>1, <3>2
  <2>2. owed'[r] \subseteq owed[r]
    BY <1>1, <1>12 DEF JudgeRaises, RecordRaises, Interrupt, Working
  <2>3. QED
    BY <2>1, <2>2 DEF Accounted
<1>13. CASE HearFailure(r)
  <2>1. run'[r].failed /\ run'[r].claim = run[r].claim /\ owed'[r] = owed[r]
    BY <1>1, <1>13 DEF HearFailure, RunRow, Working
  <2>2. QED
    BY <2>1 DEF Accounted
<1>14. CASE Drain(r)
  <2>1. /\ run'[r].claim = run[r].claim /\ run'[r].batch = run[r].batch
        /\ run'[r].failed = run[r].failed /\ run'[r].stop = run[r].stop
        /\ owed'[r] = owed[r] /\ run[r].pc = "running"
        /\ Busy(r) = {} /\ (run[r].todo = {} \/ run[r].stop)
    BY <1>1, <1>14 DEF Drain, RunRow, Working
  <2>2. QED
    BY <2>1, RowsKept DEF Accounted
<1>15. QED
  BY <1>5, <1>6, <1>7, <1>8, <1>9, <1>10, <1>11, <1>12, <1>13, <1>14 DEF Step, Trouble

\* A step of one runner leaves the others as they were.
LEMMA Elsewhere ==
    ASSUME Inv, [Next]_vars, NEW r \in Runners, ~(Step(r) \/ Trouble(r))
    PROVE  run'[r] = run[r] /\ asked'[r] = asked[r] /\ owed'[r] = owed[r]
<1>1. /\ run \in [Runners -> RunRow]
      /\ asked \in [Runners -> SUBSET Works] /\ owed \in [Runners -> SUBSET Row]
  BY DEF Inv, RunsOK, Shapes
<1>2. ASSUME NEW s \in Runners \ {r}, Step(s) \/ Trouble(s)
      PROVE  run'[r] = run[r] /\ asked'[r] = asked[r] /\ owed'[r] = owed[r]
  BY <1>1, <1>2
  DEF Step, Trouble, ReadClaimed, ReadDecided, CallClaim, ClaimGranted, ClaimRefused,
      RegisterRelease, Ask, Answered, Record, HearFailure, Drain, Ended, EndRefused,
      ClaimGrantedUnheard, ClaimUnanswered, HalfAnswered, JudgeRaises, Interrupt, RecordRaises,
      EndedUnheard, EndUnanswered, Kill, Judged, Working
<1>3. ASSUME ~\E s \in Runners : Step(s) \/ Trouble(s)
      PROVE  UNCHANGED <<run, asked, owed>>
  BY <1>3 DEF Next, Late, OperatorEnds, Tick, Working, vars
<1>4. QED
  BY <1>2, <1>3

\* Who may end a claim, and as what.
LEMMA EndOf ==
    ASSUME Inv, NEW jd \in ClaimIds, NEW s, EndClaim(jd, s), NEW id \in ClaimIds,
           claims[id].status # "complete", claims'[id].status = "complete"
    PROVE  id = jd /\ s = "complete"
<1>1. claims \in [ClaimIds -> ClaimRow]
  BY DEF Inv, Shapes, LedgerTypeOK
<1>2. \A y \in ClaimRow : [y EXCEPT !.status = s].status = s
  BY DEF ClaimRow
<1>3. QED
  BY <1>1, <1>2 DEF EndClaim

LEMMA EndStep ==
    ASSUME Inv, Owned, Truthful, [Next]_vars, NEW id \in ClaimIds,
           claims[id].status # "complete", claims'[id].status = "complete"
    PROVE  claims[id].status # "absent" /\ \A w \in claims[id].items : HasRow(id, w)
<1>1. \A jd \in ClaimIds : \A q : Grant(jd, q) => claims'[id].status \in {"active", claims[id].status}
  BY Granted
<1>2. CASE Granting
  BY <1>1, <1>2 DEF Granting
<1>3. CASE claims' = claims
  BY <1>3
<1>4. CASE \E r \in Runners : Ended(r) \/ EndedUnheard(r)
  <2>1. PICK r \in Runners : Ended(r) \/ EndedUnheard(r)
    BY <1>4
  <2>2. run[r].pc = "ending" /\ Endable(run[r].claim) /\ EndClaim(run[r].claim, EndStatus(r))
    BY <2>1 DEF Ended, EndedUnheard
  <2>3. run[r].claim \in ClaimIds /\ Accounted(r)
    BY <2>2 DEF Inv, RunsOK, RunOK, Truthful
  <2>4. id = run[r].claim /\ EndStatus(r) = "complete"
    BY <2>2, <2>3, EndOf
  <2>5. QED
    BY <2>2, <2>3, <2>4, DoneAtTheEnd DEF Endable
<1>5. CASE \E q \in late : Late(q)
  <2>1. PICK q \in late : Late(q)
    BY <1>5
  <2>2. CASE LateEnd(q)
    <3>1. q.op = "end" /\ q.id \in ClaimIds /\ Endable(q.id) /\ EndClaim(q.id, q.status)
      BY <2>2 DEF LateEnd, Inv, Shapes, Request
    <3>2. id = q.id /\ q.status = "complete"
      BY <3>1, EndOf
    <3>3. QED
      BY <3>1, <3>2 DEF Truthful, LateEndsTrue
  <2>3. CASE LateClaim(q) \/ LateRow(q)
    BY <1>1, <1>3, <2>3 DEF LateClaim, LateRow, ledger
  <2>4. QED
    BY <2>1, <2>2, <2>3 DEF Late
<1>6. CASE \E jd \in ClaimIds : OperatorEnds(jd)
  BY <1>6, EndOf DEF OperatorEnds
<1>7. CASE Tick \/ UNCHANGED vars
  BY <1>3, <1>7 DEF Tick, vars
<1>8. ASSUME NEW r \in Runners, Step(r) \/ Trouble(r), ~(Ended(r) \/ EndedUnheard(r))
      PROVE  claims' = claims \/ \E jd \in ClaimIds : \E q : Grant(jd, q)
  <2>1. ASSUME ClaimGranted(r) \/ ClaimGrantedUnheard(r)
        PROVE  \E jd \in ClaimIds : Grant(jd, ClaimRequest(r))
    BY <2>1 DEF ClaimGranted, ClaimGrantedUnheard
  <2>2. QED
    BY <1>8, <2>1
    DEF Step, Trouble, ReadClaimed, ReadDecided, CallClaim, ClaimRefused, RegisterRelease, Ask,
        Answered, HalfAnswered, Judged, Record, HearFailure, Drain, EndRefused, ClaimUnanswered,
        JudgeRaises, Interrupt, RecordRaises, EndUnanswered, Kill, ledger
<1>9. QED
  BY <1>1, <1>3, <1>4, <1>5, <1>6, <1>7, <1>8 DEF Next

\* The only ends put on their way are those a runner at its end sends.
LEMMA NewEnds ==
    ASSUME [Next]_vars, NEW q \in late', q \notin late, q.op = "end"
    PROVE  \E r \in Runners : run[r].pc = "ending" /\ q = EndRequest(r)
<1>1. ASSUME NEW r \in Runners, Step(r) \/ Trouble(r)
      PROVE  run[r].pc = "ending" /\ q = EndRequest(r)
  <2>1. CASE Kill(r)
    BY <2>1 DEF Kill, InFlight, ClaimRequest
  <2>2. CASE ClaimUnanswered(r)
    BY <2>2 DEF ClaimUnanswered, LostOrLate, ClaimRequest
  <2>3. CASE EndUnanswered(r)
    BY <2>3 DEF EndUnanswered, LostOrLate
  <2>4. CASE RecordRaises(r)
    BY <2>4 DEF RecordRaises, LostOrLate
  <2>5. QED
    BY <1>1, <2>1, <2>2, <2>3, <2>4
    DEF Step, Trouble, ReadClaimed, ReadDecided, CallClaim, ClaimGranted, ClaimRefused,
        RegisterRelease, Ask, Answered, Record, HearFailure, Drain, Ended, EndRefused,
        ClaimGrantedUnheard, HalfAnswered, JudgeRaises, Interrupt, EndedUnheard, Judged, Quiet
<1>2. QED
  BY <1>1 DEF Next, Late, OperatorEnds, Tick, Quiet, vars

LEMMA EndsTrueStep ==
    ASSUME Inv, Owned, Truthful, [Next]_vars
    PROVE  LateEndsTrue'
<1> SUFFICES ASSUME NEW q \in late', q.op = "end"
             PROVE  /\ claims'[q.id].status # "absent"
                    /\ q.status = "complete" => \A w \in claims'[q.id].items : HasRow(q.id, w)'
  BY DEF LateEndsTrue, HasRow
<1>1. /\ q.id \in ClaimIds /\ claims[q.id].status # "absent"
      /\ q.status = "complete" => \A w \in claims[q.id].items : HasRow(q.id, w)
  <2>1. CASE q \in late
    <3>1. q.id \in ClaimIds
      BY <2>1 DEF Inv, Shapes, Request
    <3>2. QED
      BY <2>1, <3>1 DEF Truthful, LateEndsTrue
  <2>2. CASE q \notin late
    <3>1. PICK r \in Runners : run[r].pc = "ending" /\ q = EndRequest(r)
      BY <2>2, NewEnds
    <3>2. q.id = run[r].claim /\ q.status = EndStatus(r)
      BY <3>1 DEF EndRequest
    <3>3. run[r].claim \in ClaimIds /\ run[r].claim # None /\ Accounted(r)
      BY <3>1, NoneAssumption DEF Inv, RunsOK, RunOK, Truthful
    <3>4. QED
      BY <3>1, <3>2, <3>3, DoneAtTheEnd DEF Owned
  <2>3. QED
    BY <2>1, <2>2
<1>2. QED
  BY <1>1, RowsStay, RowsKept

LEMMA TruthfulStep ==
    ASSUME Inv, Owned, Truthful, [Next]_vars
    PROVE  Truthful'
<1>1. ASSUME NEW r \in Runners
      PROVE  Accounted(r)'
  <2>1. Accounted(r)
    BY DEF Truthful
  <2>2. QED
    BY <2>1, AccountedStep, AccountedKept, Elsewhere
<1>2. CompleteMeansAnswered'
  <2> SUFFICES ASSUME NEW id \in ClaimIds, claims'[id].status = "complete"
               PROVE  \A w \in claims'[id].items : HasRow(id, w)'
    BY DEF CompleteMeansAnswered, HasRow
  <2>1. claims[id].status # "absent" /\ \A w \in claims[id].items : HasRow(id, w)
    <3>1. CASE claims[id].status = "complete"
      BY <3>1 DEF Truthful, CompleteMeansAnswered, HasRow
    <3>2. CASE claims[id].status # "complete"
      BY <3>2, EndStep
    <3>3. QED
      BY <3>1, <3>2
  <2>2. QED
    BY <2>1, RowsStay, RowsKept
<1>3. QED
  BY <1>1, <1>2, EndsTrueStep DEF Truthful

LEMMA TruthfulAlways == Spec => [](Owned /\ Truthful)
<1>1. Init => Owned /\ Truthful
  <2>1. ASSUME Init PROVE Owned
    BY <2>1 DEF Init, Owned, Idle
  <2>2. ASSUME Init, NEW r \in Runners PROVE Accounted(r)
    BY <2>2 DEF Init, Accounted, Idle
  <2>3. ASSUME Init PROVE LateEndsTrue /\ CompleteMeansAnswered
    BY <2>3 DEF Init, LedgerInit, NoClaim, LateEndsTrue, CompleteMeansAnswered
  <2>4. QED
    BY <2>1, <2>2, <2>3 DEF Truthful
<1>2. Inv /\ Owned /\ Truthful /\ [Next]_vars => (Owned /\ Truthful)'
  BY OwnedStep, TruthfulStep
<1>3. QED
  BY <1>1, <1>2, Invariance, PTL DEF Spec

\* A claim that says "complete" left a row of its own for every work it held:
\* however threads raise, responses are lost and ends arrive late, the status
\* run_tier writes in its finally never claims more than the votes it recorded.
THEOREM CompleteIsTrue == Spec => []CompleteMeansAnswered
<1>1. Truthful => CompleteMeansAnswered
  BY DEF Truthful
<1>2. QED
  BY <1>1, TruthfulAlways, PTL

\* A work that is decided stays decided, and the first end of a claim is the last:
\* it says for good how the claim ended, and over what.
ResultsStand ==
    [][/\ \A w \in Works : Decided(w) => Decided(w)'
       /\ \A id \in ClaimIds : claims[id].status \in EndStatuses => claims'[id] = claims[id]]_vars

\* A late or repeated end, an operator's or the one of a run that was stopped in
\* between, finds a claim that has ended and changes nothing; and no vote that was
\* recorded is lost (release_claim, record_verdict).
THEOREM ResultsAreFinal == Spec => ResultsStand
<1>1. ASSUME Inv, [Next]_vars, NEW w \in Works, Decided(w) PROVE Decided(w)'
  BY <1>1, RowsGrow DEF Decided
<1>2. ASSUME Inv, [Next]_vars, NEW id \in ClaimIds, claims[id].status \in EndStatuses
      PROVE  claims'[id] = claims[id]
  <2>1. claims \in [ClaimIds -> ClaimRow] BY <1>2 DEF Inv, Shapes, LedgerTypeOK
  <2>2. claims[id].status # "absent" /\ claims[id].status # "active" BY <1>2 DEF EndStatuses
  <2>3. CASE Granting
    BY <2>1, <2>2, <2>3 DEF Granting, Grant, Fresh, InsertClaim
  <2>4. CASE Ending
    BY <2>1, <2>2, <2>4 DEF Ending, Endable, EndClaim
  <2>5. CASE Keeping
    BY <2>5 DEF Keeping
  <2>6. QED
    BY <1>2, <2>3, <2>4, <2>5, LedgerStep
<1>3. Inv /\ [Next]_vars =>
        [/\ \A w \in Works : Decided(w) => Decided(w)'
         /\ \A id \in ClaimIds : claims[id].status \in EndStatuses => claims'[id] = claims[id]]_vars
  BY <1>1, <1>2
<1>4. QED
  BY <1>3, Invariance, PTL DEF Spec, ResultsStand

-----------------------------------------------------------------------------
\* What bounds the screens that are bought again.  Three things can make, or
\* will make, one more full screen of a work: a screen that is complete, a vote
\* that is still on its way, and a runner that is buying the work and has not
\* completed its screen.  A vote is late only after a fault, and once a screen
\* is complete no runner that still has to read what is decided buys the work.
LateRows(w) == {q \in late : q.op = "row" /\ q.row.work = w}
Buys(r, w) ==
    \/ run[r].pc \in {"planned", "claiming"} /\ w \in run[r].batch
    \/ /\ run[r].pc = "running" /\ w \in run[r].todo \cup Busy(r)
       /\ run[r].claim \notin FullScreens(w)
Buying(w) == {r \in Runners : Buys(r, w)}

Rebought(w) ==
    /\ IsFiniteSet(FullScreens(w)) /\ IsFiniteSet(LateRows(w))
    /\ Cardinality(LateRows(w)) <= faults
    /\ Cardinality(FullScreens(w)) + Cardinality(LateRows(w)) + Cardinality(Buying(w))
           <= Cardinality(Runners) + faults
RebuyInv == faults \in Nat /\ \A w \in Works : Rebought(w)

LEMMA BuyingFinite ==
    ASSUME NEW w
    PROVE  /\ IsFiniteSet(Buying(w)) /\ Cardinality(Buying(w)) \in Nat
           /\ Cardinality(Buying(w)) <= Cardinality(Runners) /\ Cardinality(Runners) \in Nat
<1>1. Buying(w) \subseteq Runners
  BY DEF Buying
<1>2. QED
  BY <1>1, RunnersAssumption, FS_Subset, FS_CardinalityType

\* The counts a step may change and those that follow.
LEMMA CountsAre ==
    ASSUME NEW w, Rebought(w)
    PROVE  /\ Cardinality(FullScreens(w)) \in Nat /\ Cardinality(LateRows(w)) \in Nat
           /\ Cardinality(Buying(w)) \in Nat /\ Cardinality(Runners) \in Nat
           /\ IsFiniteSet(Buying(w)) /\ IsFiniteSet(FullScreens(w)) /\ IsFiniteSet(LateRows(w))
  BY BuyingFinite, FS_CardinalityType DEF Rebought

\* How a step may change the counts: it takes nothing away that it does not
\* account for.
LEMMA Counts ==
    ASSUME NEW w, Rebought(w), faults \in Nat, faults' = faults \/ faults' = faults + 1,
           IsFiniteSet(FullScreens(w)'), IsFiniteSet(LateRows(w)'),
           \/ /\ Cardinality(FullScreens(w)') <= Cardinality(FullScreens(w))
              /\ Cardinality(LateRows(w)') <= Cardinality(LateRows(w))
              /\ Cardinality(Buying(w)') <= Cardinality(Buying(w))
           \/ /\ Cardinality(FullScreens(w)') <= Cardinality(FullScreens(w))
              /\ Cardinality(LateRows(w)') <= Cardinality(LateRows(w)) + 1
              /\ Cardinality(Buying(w)') <= Cardinality(Buying(w))
              /\ faults' = faults + 1
           \/ /\ Cardinality(FullScreens(w)') <= Cardinality(FullScreens(w)) + 1
              /\ Cardinality(LateRows(w)') + 1 <= Cardinality(LateRows(w))
              /\ Cardinality(Buying(w)') <= Cardinality(Buying(w))
           \/ /\ Cardinality(FullScreens(w)') <= Cardinality(FullScreens(w)) + 1
              /\ Cardinality(LateRows(w)') <= Cardinality(LateRows(w))
              /\ Cardinality(Buying(w)') + 1 <= Cardinality(Buying(w))
    PROVE  Rebought(w)'
<1>1. PICK cf \in Nat, cl \in Nat, cb \in Nat, cr \in Nat, n \in Nat :
          /\ cf = Cardinality(FullScreens(w)) /\ cl = Cardinality(LateRows(w))
          /\ cb = Cardinality(Buying(w)) /\ cr = Cardinality(Runners) /\ n = faults
  BY CountsAre
<1>2. Buying(w)' \subseteq Runners
  BY DEF Buying
<1>3. PICK df \in Nat, dl \in Nat, db \in Nat, m \in Nat :
          /\ df = Cardinality(FullScreens(w)') /\ dl = Cardinality(LateRows(w)')
          /\ db = Cardinality(Buying(w)') /\ m = faults'
  BY <1>1, <1>2, RunnersAssumption, FS_Subset, FS_CardinalityType
<1>4. cl <= n /\ cf + cl + cb <= cr + n
  BY <1>1 DEF Rebought
<1>5. /\ m = n \/ m = n + 1
      /\ \/ df <= cf /\ dl <= cl /\ db <= cb
         \/ df <= cf /\ dl <= cl + 1 /\ db <= cb /\ m = n + 1
         \/ df <= cf + 1 /\ dl + 1 <= cl /\ db <= cb
         \/ df <= cf + 1 /\ dl <= cl /\ db + 1 <= cb
  BY <1>1, <1>3
<1>6. dl <= m /\ df + dl + db <= cr + m
  BY <1>4, <1>5
<1>7. QED
  BY <1>1, <1>3, <1>6 DEF Rebought

LEMMA OneMore ==
    ASSUME NEW S, NEW T, NEW e, IsFiniteSet(S), T \subseteq S \cup {e}
    PROVE  IsFiniteSet(T) /\ Cardinality(T) <= Cardinality(S) + 1
<1>1. /\ IsFiniteSet(S \cup {e}) /\ Cardinality(S) \in Nat
      /\ Cardinality(S \cup {e}) \in {Cardinality(S), Cardinality(S) + 1}
  BY FS_AddElement, FS_CardinalityType
<1>2. IsFiniteSet(T) /\ Cardinality(T) <= Cardinality(S \cup {e}) /\ Cardinality(T) \in Nat
  BY <1>1, FS_Subset, FS_CardinalityType
<1>3. QED
  BY <1>1, <1>2

LEMMA OneLess ==
    ASSUME NEW S, NEW T, NEW e \in S, IsFiniteSet(S), T \subseteq S \ {e}
    PROVE  IsFiniteSet(T) /\ Cardinality(T) + 1 <= Cardinality(S)
<1>1. /\ IsFiniteSet(S \ {e}) /\ Cardinality(S) \in Nat
      /\ Cardinality(S \ {e}) = Cardinality(S) - 1
  BY FS_RemoveElement, FS_CardinalityType
<1>2. IsFiniteSet(T) /\ Cardinality(T) <= Cardinality(S \ {e}) /\ Cardinality(T) \in Nat
  BY <1>1, FS_Subset, FS_CardinalityType
<1>3. QED
  BY <1>1, <1>2

\* What a step does to the complete screens, the late votes and the buyers.
LEMMA FullSame == ASSUME NEW w, rows' = rows PROVE FullScreens(w)' = FullScreens(w)
  BY DEF FullScreens

LEMMA FullGrows == ASSUME [Next]_vars, NEW w PROVE FullScreens(w) \subseteq FullScreens(w)'
  BY RowsGrow DEF FullScreens

LEMMA FullWith ==
    ASSUME NEW w, NEW x, rows' = rows \cup {x}
    PROVE  /\ FullScreens(w)' \subseteq FullScreens(w) \cup {x.claim}
           /\ x.work # w => FullScreens(w)' = FullScreens(w)
<1>1. ASSUME NEW id \in FullScreens(w)', id \notin FullScreens(w)
      PROVE  x.claim = id /\ x.work = w
  <2>1. PICK v \in Voters : [claim |-> id, work |-> w, voter |-> v] \notin rows
    BY <1>1 DEF FullScreens
  <2>2. PICK y : y = [claim |-> id, work |-> w, voter |-> v]
    OBVIOUS
  <2>3. y \in rows'
    BY <1>1, <2>2 DEF FullScreens
  <2>4. y = x
    BY <2>1, <2>2, <2>3
  <2>5. QED
    BY <2>2, <2>4
<1>2. FullScreens(w) \subseteq FullScreens(w)'
  BY DEF FullScreens
<1>3. QED
  BY <1>1, <1>2

\* A runner that goes on with less still to buy was buying it before.
LEMMA BuysLess ==
    ASSUME [Next]_vars, NEW w, NEW r \in Runners,
           run'[r].pc = run[r].pc, run'[r].claim = run[r].claim, run'[r].batch = run[r].batch,
           run'[r].todo \cup Busy(r)' \subseteq run[r].todo \cup Busy(r),
           Buys(r, w)'
    PROVE  Buys(r, w)
<1>1. FullScreens(w) \subseteq FullScreens(w)'
  BY FullGrows
<1>2. QED
  BY <1>1 DEF Buys

LEMMA BuysElsewhere ==
    ASSUME Inv, [Next]_vars, NEW w, NEW r \in Runners, ~(Step(r) \/ Trouble(r)), Buys(r, w)'
    PROVE  Buys(r, w)
<1>1. run'[r] = run[r] /\ asked'[r] = asked[r] /\ owed'[r] = owed[r]
  BY Elsewhere
<1>2. Busy(r)' = Busy(r)
  BY <1>1 DEF Busy
<1>3. QED
  BY <1>1, <1>2, BuysLess

\* What one runner's step does to its threads' works.
LEMMA BusyAfter ==
    ASSUME Inv, NEW r \in Runners, Answered(r) \/ HalfAnswered(r) \/ JudgeRaises(r)
                                   \/ Record(r) \/ RecordRaises(r)
    PROVE  Busy(r)' \subseteq Busy(r)
<1>1. CASE Answered(r) \/ HalfAnswered(r)
  <2>1. PICK w \in Works, A \in SUBSET Voters : Judged(r, w, A)
    BY <1>1 DEF Answered, HalfAnswered
  <2>2. asked'[r] = asked[r] \ {w} /\ owed'[r] = owed[r] \cup VotesOf(r, w, A) /\ w \in asked[r]
    BY <2>1 DEF Judged, Inv, Shapes
  <2>3. \A x \in VotesOf(r, w, A) : x.work = w
    BY DEF VotesOf
  <2>4. QED
    BY <2>2, <2>3 DEF Busy
<1>2. CASE JudgeRaises(r)
  BY <1>2 DEF JudgeRaises, Busy, Inv, Shapes
<1>3. CASE Record(r) \/ RecordRaises(r)
  <2>1. owed'[r] \subseteq owed[r] /\ asked' = asked
    BY <1>3 DEF Record, RecordRaises, Inv, Shapes
  <2>2. QED
    BY <2>1 DEF Busy
<1>4. QED
  BY <1>1, <1>2, <1>3

LEMMA FlagsOnly ==
    ASSUME Inv, NEW r \in Runners, JudgeRaises(r) \/ RecordRaises(r) \/ Interrupt(r) \/ HearFailure(r)
    PROVE  /\ run'[r].pc = run[r].pc /\ run'[r].claim = run[r].claim
           /\ run'[r].batch = run[r].batch /\ run'[r].todo = run[r].todo
<1>1. PICK y \in RunRow : y = run[r] /\ run \in [Runners -> RunRow]
  BY DEF Inv, RunsOK
<1>2. \/ run' = [run EXCEPT ![r] = [y EXCEPT !.failed = TRUE]]
      \/ run' = [run EXCEPT ![r] = [y EXCEPT !.failed = TRUE, !.stop = TRUE]]
      \/ run' = [run EXCEPT ![r] = [y EXCEPT !.stop = TRUE]]
  BY <1>1 DEF JudgeRaises, RecordRaises, Interrupt, HearFailure
<1>3. PICK u, v, z : /\ u = [y EXCEPT !.failed = TRUE]
                     /\ v = [y EXCEPT !.failed = TRUE, !.stop = TRUE]
                     /\ z = [y EXCEPT !.stop = TRUE]
  OBVIOUS
<1>4. \A q \in {u, v, z} : q.pc = y.pc /\ q.claim = y.claim /\ q.batch = y.batch /\ q.todo = y.todo
  BY <1>3 DEF RunRow
<1>5. run'[r] \in {u, v, z}
  BY <1>1, <1>2, <1>3
<1>6. QED
  BY <1>1, <1>4, <1>5

\* Who buys a work after a step bought it before: but for a run that reads
\* what is decided, and finds no decision.
LEMMA BuysAfter ==
    ASSUME Inv, [Next]_vars, NEW w \in Works, NEW r \in Runners, Step(r) \/ Trouble(r),
           Buys(r, w)', ~ (ReadDecided(r) /\ FullScreens(w) = {})
    PROVE  Buys(r, w)
<1>1. PICK y \in RunRow : y = run[r] /\ run \in [Runners -> RunRow] /\ RunOK(y)
  BY DEF Inv, RunsOK
<1>2. run'[r].pc \in {"planned", "claiming", "running"}
  BY DEF Buys
<1>3. Busy(r) # {} => run[r].pc = "running"
  BY DEF Inv, BusyOK
<1>4. Idle.pc = "idle"
  BY DEF Idle
<1>5. CASE ClaimRefused(r) \/ Ended(r) \/ EndRefused(r) \/ Kill(r)
  BY <1>1, <1>2, <1>4, <1>5 DEF ClaimRefused, Ended, EndRefused, Kill
<1>6. CASE ReadClaimed(r)
  <2>1. PICK rel, S : run'[r] = [Idle EXCEPT !.pc = "planning", !.release = rel, !.batch = S]
    BY <1>1, <1>6 DEF ReadClaimed
  <2>2. run'[r].pc = "planning"
    BY <2>1 DEF Idle
  <2>3. QED
    BY <1>2, <2>2
<1>7. CASE Drain(r)
  <2>1. run'[r] = [y EXCEPT !.pc = "ending", !.todo = {}]
    BY <1>1, <1>7 DEF Drain
  <2>2. run'[r].pc = "ending"
    BY <2>1 DEF RunRow
  <2>3. QED
    BY <1>2, <2>2
<1>8. CASE ReadDecided(r)
  <2>1. PICK b : b = y.batch \ DecidedWorks
    OBVIOUS
  <2>2. run' = [run EXCEPT ![r] = IF b = {} THEN Idle ELSE [y EXCEPT !.pc = "planned", !.batch = b]]
    BY <1>1, <1>8, <2>1 DEF ReadDecided
  <2>3. run'[r] = [y EXCEPT !.pc = "planned", !.batch = b]
    BY <1>1, <1>2, <1>4, <2>2
  <2>4. run'[r].pc = "planned" /\ run'[r].batch = b
    BY <2>3 DEF RunRow
  <2>5. w \in b
    BY <2>4 DEF Buys
  <2>6. ~ Decided(w)
    BY <2>1, <2>5 DEF DecidedWorks
  <2>7. PICK id : id \in FullScreens(w)
    BY <1>8
  <2>8. ASSUME NEW v \in Voters PROVE \E x \in rows : x.work = w /\ x.voter = v
    <3>1. PICK x : x = [claim |-> id, work |-> w, voter |-> v]
      OBVIOUS
    <3>2. x \in rows
      BY <2>7, <3>1 DEF FullScreens
    <3>3. QED
      BY <3>1, <3>2
  <2>9. QED
    BY <2>6, <2>8 DEF Decided
<1>9. CASE CallClaim(r)
  <2>1. y.pc = "planned" /\ run'[r] = [y EXCEPT !.pc = "claiming", !.until = now + TTL, !.tries = 0]
    BY <1>1, <1>9 DEF CallClaim
  <2>2. run'[r].pc = "claiming" /\ run'[r].batch = y.batch
    BY <2>1 DEF RunRow
  <2>3. QED
    BY <1>1, <2>1, <2>2 DEF Buys
<1>10. CASE RegisterRelease(r)
  <2>1. y.pc = "claiming" /\ run'[r] = [y EXCEPT !.pc = "planned"]
    BY <1>1, <1>10 DEF RegisterRelease
  <2>2. run'[r].pc = "planned" /\ run'[r].batch = y.batch
    BY <2>1 DEF RunRow
  <2>3. QED
    BY <1>1, <2>1, <2>2 DEF Buys
<1>11. CASE ClaimGranted(r)
  <2>1. y.pc = "claiming" /\ UNCHANGED <<asked, owed>>
    BY <1>1, <1>11 DEF ClaimGranted, Working
  <2>2. PICK id : run'[r] = [y EXCEPT !.pc = "running", !.claim = id, !.todo = y.batch, !.tries = 0]
    BY <1>1, <1>11 DEF ClaimGranted
  <2>3. run'[r].pc = "running" /\ run'[r].todo = y.batch
    BY <2>2 DEF RunRow
  <2>4. Busy(r)' = {}
    BY <1>1, <1>3, <2>1 DEF Busy
  <2>5. w \in y.batch
    BY <2>3, <2>4 DEF Buys
  <2>6. QED
    BY <1>1, <2>1, <2>5 DEF Buys
<1>12. CASE ClaimGrantedUnheard(r) \/ ClaimUnanswered(r) \/ EndedUnheard(r) \/ EndUnanswered(r)
  <2>1. run'[r] = NextAttempt(r) /\ UNCHANGED <<asked, owed>> /\ y.pc \in {"claiming", "ending"}
    BY <1>1, <1>12
    DEF ClaimGrantedUnheard, ClaimUnanswered, EndedUnheard, EndUnanswered, Working
  <2>2. run'[r].pc = y.pc /\ run'[r].batch = y.batch
    BY <1>1, <1>2, <1>4, <2>1, NextAttemptKeeps DEF Inv
  <2>3. y.pc = "claiming" /\ w \in y.batch
    BY <1>2, <2>1, <2>2 DEF Buys
  <2>4. QED
    BY <1>1, <2>3 DEF Buys
<1>13. CASE Ask(r)
  <2>1. PICK v \in y.todo : /\ run'[r] = [y EXCEPT !.todo = y.todo \ {v}]
                            /\ asked'[r] = asked[r] \cup {v} /\ owed' = owed
    BY <1>1, <1>13 DEF Ask, Inv, Shapes
  <2>2. /\ run'[r].pc = y.pc /\ run'[r].claim = y.claim /\ run'[r].batch = y.batch
        /\ run'[r].todo = y.todo \ {v}
    BY <2>1 DEF RunRow
  <2>3. Busy(r)' = Busy(r) \cup {v}
    BY <2>1 DEF Busy
  <2>4. QED
    BY <1>1, <2>1, <2>2, <2>3, BuysLess
<1>14. CASE Answered(r) \/ HalfAnswered(r) \/ Record(r)
  <2>1. run' = run
    BY <1>14 DEF Answered, HalfAnswered, Judged, Record
  <2>2. QED
    BY <1>14, <2>1, BusyAfter, BuysLess
<1>15. CASE JudgeRaises(r) \/ RecordRaises(r)
  BY <1>15, FlagsOnly, BusyAfter, BuysLess
<1>16. CASE Interrupt(r) \/ HearFailure(r)
  <2>1. Busy(r)' = Busy(r)
    BY <1>16 DEF Interrupt, HearFailure, Working, Busy
  <2>2. QED
    BY <1>16, <2>1, FlagsOnly, BuysLess
<1>17. QED
  BY <1>5, <1>6, <1>7, <1>8, <1>9, <1>10, <1>11, <1>12, <1>13, <1>14, <1>15, <1>16
  DEF Step, Trouble

LEMMA BuyersAfter ==
    ASSUME Inv, [Next]_vars, NEW w \in Works,
           ~ (FullScreens(w) = {} /\ \E r \in Runners : ReadDecided(r))
    PROVE  Buying(w)' \subseteq Buying(w)
  BY BuysAfter, BuysElsewhere DEF Buying

\* Where new rows come from.
LEMMA RowsAre ==
    ASSUME [Next]_vars, rows' # rows
    PROVE  \/ \E r \in Runners : /\ Record(r) \/ RecordRaises(r)
                                 /\ late' = late
                                 /\ \E x \in NextVotes(r) : rows' = rows \cup {x}
           \/ \E q \in late : Late(q) /\ LateRow(q)
<1>1. ASSUME NEW r \in Runners, Step(r)
      PROVE  Record(r)
  BY <1>1 DEF Step, ReadClaimed, ReadDecided, CallClaim, ClaimGranted, ClaimRefused,
     RegisterRelease, Ask, Answered, Judged, HearFailure, Drain, Ended, EndRefused, Working
<1>2. ASSUME NEW r \in Runners, Trouble(r)
      PROVE  RecordRaises(r)
  BY <1>2 DEF Trouble, ClaimGrantedUnheard, ClaimUnanswered, HalfAnswered, Judged, JudgeRaises,
     Interrupt, EndedUnheard, EndUnanswered, Kill, Working
<1>3. ASSUME NEW q \in late, Late(q)
      PROVE  LateRow(q)
  BY <1>3 DEF Late, LateClaim, LateEnd
<1>4. ASSUME (\E id \in ClaimIds : OperatorEnds(id)) \/ Tick \/ UNCHANGED vars
      PROVE  FALSE
  BY <1>4 DEF OperatorEnds, Tick, Working, vars
<1>5. ASSUME NEW r \in Runners, Record(r)
      PROVE  late' = late /\ \E x \in NextVotes(r) : rows' = rows \cup {x}
  BY <1>5 DEF Record, Quiet
<1>6. ASSUME NEW r \in Runners, RecordRaises(r)
      PROVE  late' = late /\ \E x \in NextVotes(r) : rows' = rows \cup {x}
  BY <1>6 DEF RecordRaises
<1>7. QED
  BY <1>1, <1>2, <1>3, <1>4, <1>5, <1>6 DEF Next

\* A runner sends one vote of a work at a time.
LEMMA OneVote ==
    ASSUME Inv, Truthful, NEW r \in Runners, NEW x \in NextVotes(r), NEW y \in NextVotes(r),
           x.work = y.work
    PROVE  x = y
<1>1. x \in Row /\ y \in Row
  BY DEF NextVotes, Inv, Shapes
<1>2. x.claim = y.claim
  BY DEF NextVotes, Truthful, Accounted
<1>3. x.voter <= y.voter /\ y.voter <= x.voter
  BY DEF NextVotes
<1>4. x.voter \in 0 .. 2 /\ y.voter \in 0 .. 2
  BY <1>1 DEF Row, Voters, Placeholder
<1>5. x.voter = y.voter
  BY <1>3, <1>4
<1>6. QED
  BY <1>1, <1>2, <1>5 DEF Row

\* Where the votes on their way come from: a fault cuts a runner off from the
\* one vote of the work it was sending.
LEMMA LateAfter ==
    ASSUME Inv, Truthful, [Next]_vars, NEW w
    PROVE  \/ LateRows(w)' \subseteq LateRows(w)
           \/ /\ rows' = rows /\ faults' = faults + 1
              /\ \E q : LateRows(w)' \subseteq LateRows(w) \cup {q}
<1>1. ASSUME NEW r \in Runners, Step(r)
      PROVE  late' = late
  BY <1>1 DEF Step, ReadClaimed, ReadDecided, CallClaim, ClaimGranted, ClaimRefused,
     RegisterRelease, Ask, Answered, Judged, Record, HearFailure, Drain, Ended, EndRefused, Quiet
<1>2. ASSUME NEW r \in Runners, Kill(r)
      PROVE  /\ rows' = rows /\ faults' = faults + 1
             /\ \E q : LateRows(w)' \subseteq LateRows(w) \cup {q}
  <2>1. PICK sent \in SUBSET InFlight(r) : late' = late \cup sent
    BY <1>2 DEF Kill
  <2>2. \A q \in sent : q.op = "row" => q.row \in NextVotes(r) /\ q = [op |-> "row", row |-> q.row]
    BY DEF InFlight, ClaimRequest, EndRequest
  <2>3. \A p, q \in sent : p.op = "row" /\ q.op = "row" /\ p.row.work = q.row.work => p = q
    BY <2>2, OneVote
  <2>4. \A q \in LateRows(w)' \ LateRows(w) : q \in sent /\ q.op = "row" /\ q.row.work = w
    BY <2>1 DEF LateRows
  <2>5. \A p, q \in LateRows(w)' \ LateRows(w) : p = q
    BY <2>3, <2>4
  <2>6. \E q : LateRows(w)' \subseteq LateRows(w) \cup {q}
    BY <2>5
  <2>7. QED
    BY <1>2, <2>6 DEF Kill, Fault
<1>3. ASSUME NEW r \in Runners, RecordRaises(r)
      PROVE  \/ late' = late
             \/ /\ rows' = rows /\ faults' = faults + 1
                /\ \E q : LateRows(w)' \subseteq LateRows(w) \cup {q}
  BY <1>3 DEF RecordRaises, LostOrLate, LateRows, Fault
<1>4. ASSUME NEW r \in Runners, ClaimUnanswered(r) \/ EndUnanswered(r)
      PROVE  LateRows(w)' \subseteq LateRows(w)
  <2>1. PICK q \in {ClaimRequest(r), EndRequest(r)} : late' \subseteq late \cup {q}
    BY <1>4 DEF ClaimUnanswered, EndUnanswered, LostOrLate
  <2>2. q.op # "row"
    BY DEF ClaimRequest, EndRequest
  <2>3. QED
    BY <2>1, <2>2 DEF LateRows
<1>5. ASSUME NEW r \in Runners, Trouble(r),
             ~(Kill(r) \/ RecordRaises(r) \/ ClaimUnanswered(r) \/ EndUnanswered(r))
      PROVE  late' = late
  BY <1>5 DEF Trouble, ClaimGrantedUnheard, HalfAnswered, Judged, JudgeRaises, Interrupt, EndedUnheard
<1>6. ASSUME ~\E r \in Runners : Step(r) \/ Trouble(r)
      PROVE  late' \subseteq late
  BY <1>6 DEF Next, Late, OperatorEnds, Tick, Quiet, vars
<1>7. late' \subseteq late => LateRows(w)' \subseteq LateRows(w)
  BY DEF LateRows
<1>8. QED
  BY <1>1, <1>2, <1>3, <1>4, <1>5, <1>6, <1>7

LEMMA FaultsStep ==
    ASSUME [Next]_vars
    PROVE  faults' = faults \/ faults' = faults + 1
<1>1. ASSUME NEW r \in Runners, Step(r)
      PROVE  faults' = faults
  BY <1>1 DEF Step, ReadClaimed, ReadDecided, CallClaim, ClaimGranted, ClaimRefused,
     RegisterRelease, Ask, Answered, Record, HearFailure, Drain, Ended, EndRefused, Quiet
<1>2. ASSUME NEW r \in Runners, Trouble(r)
      PROVE  faults' = faults + 1
  BY <1>2 DEF Trouble, ClaimGrantedUnheard, ClaimUnanswered, HalfAnswered, JudgeRaises, Interrupt,
     RecordRaises, EndedUnheard, EndUnanswered, Kill, Fault
<1>3. ASSUME ~\E r \in Runners : Step(r) \/ Trouble(r)
      PROVE  faults' = faults \/ faults' = faults + 1
  BY <1>3 DEF Next, Late, OperatorEnds, Tick, Quiet, Fault, vars
<1>4. QED
  BY <1>1, <1>2, <1>3

\* A step that records nothing: at most one vote more is on its way, and then
\* there was a fault.
LEMMA RecordsNothing ==
    ASSUME Inv, Truthful, RebuyInv, [Next]_vars, NEW w \in Works, rows' = rows,
           Buying(w)' \subseteq Buying(w)
    PROVE  Rebought(w)'
<1>1. /\ Rebought(w) /\ faults \in Nat /\ (faults' = faults \/ faults' = faults + 1)
      /\ FullScreens(w)' = FullScreens(w)
      /\ Cardinality(FullScreens(w)) \in Nat /\ Cardinality(LateRows(w)) \in Nat
      /\ Cardinality(Buying(w)) \in Nat
      /\ IsFiniteSet(Buying(w)) /\ IsFiniteSet(FullScreens(w)) /\ IsFiniteSet(LateRows(w))
  BY FaultsStep, FullSame, CountsAre DEF RebuyInv
<1>2. Cardinality(Buying(w)') <= Cardinality(Buying(w)) /\ Cardinality(Buying(w)') \in Nat
  BY <1>1, FS_Subset, FS_CardinalityType
<1>3. CASE LateRows(w)' \subseteq LateRows(w)
  <2>1. /\ IsFiniteSet(LateRows(w)') /\ Cardinality(LateRows(w)') <= Cardinality(LateRows(w))
        /\ Cardinality(LateRows(w)') \in Nat
    BY <1>1, <1>3, FS_Subset, FS_CardinalityType
  <2>2. QED
    BY <1>1, <1>2, <2>1, Counts
<1>4. ASSUME faults' = faults + 1, NEW q, LateRows(w)' \subseteq LateRows(w) \cup {q}
      PROVE  Rebought(w)'
  <2>1. IsFiniteSet(LateRows(w)') /\ Cardinality(LateRows(w)') <= Cardinality(LateRows(w)) + 1
    BY <1>1, <1>4, OneMore
  <2>2. QED
    BY <1>1, <1>2, <1>4, <2>1, Counts
<1>5. QED
  BY <1>3, <1>4, LateAfter

\* A step that records a vote: the runner that completes a screen buys the
\* work no longer, and a vote that arrives is on its way no longer.
LEMMA RecordsVote ==
    ASSUME Inv, Truthful, RebuyInv, [Next]_vars, NEW w \in Works, rows' # rows
    PROVE  Rebought(w)'
<1>1. /\ Rebought(w) /\ faults \in Nat /\ (faults' = faults \/ faults' = faults + 1)
      /\ Cardinality(FullScreens(w)) \in Nat /\ Cardinality(LateRows(w)) \in Nat
      /\ Cardinality(Buying(w)) \in Nat
      /\ IsFiniteSet(Buying(w)) /\ IsFiniteSet(FullScreens(w)) /\ IsFiniteSet(LateRows(w))
  BY FaultsStep, CountsAre DEF RebuyInv
<1>2. Buying(w)' \subseteq Buying(w)
  BY BuyersAfter DEF ReadDecided, Working
<1>3. Cardinality(Buying(w)') <= Cardinality(Buying(w)) /\ Cardinality(Buying(w)') \in Nat
  BY <1>1, <1>2, FS_Subset, FS_CardinalityType
<1>4. LateRows(w)' \subseteq LateRows(w)
  BY LateAfter
<1>5. /\ IsFiniteSet(LateRows(w)') /\ Cardinality(LateRows(w)') <= Cardinality(LateRows(w))
      /\ Cardinality(LateRows(w)') \in Nat
  BY <1>1, <1>4, FS_Subset, FS_CardinalityType
<1>6. CASE FullScreens(w)' = FullScreens(w)
  BY <1>1, <1>3, <1>5, <1>6, Counts
<1>7. ASSUME FullScreens(w)' # FullScreens(w), NEW x, rows' = rows \cup {x}
      PROVE  /\ x.work = w /\ x.claim \in FullScreens(w)' /\ x.claim \notin FullScreens(w)
             /\ IsFiniteSet(FullScreens(w)')
             /\ Cardinality(FullScreens(w)') <= Cardinality(FullScreens(w)) + 1
  <2>1. x.work = w /\ FullScreens(w)' \subseteq FullScreens(w) \cup {x.claim}
    BY <1>7, FullWith
  <2>2. FullScreens(w) \subseteq FullScreens(w)'
    BY FullGrows
  <2>3. QED
    BY <1>1, <1>7, <2>1, <2>2, OneMore
<1>8. ASSUME FullScreens(w)' # FullScreens(w),
             NEW r \in Runners, Record(r) \/ RecordRaises(r),
             NEW x \in NextVotes(r), rows' = rows \cup {x}
      PROVE  Rebought(w)'
  <2>1. /\ x.work = w /\ x.claim \in FullScreens(w)' /\ x.claim \notin FullScreens(w)
        /\ IsFiniteSet(FullScreens(w)')
        /\ Cardinality(FullScreens(w)') <= Cardinality(FullScreens(w)) + 1
    BY <1>7, <1>8
  <2>2. x \in owed[r] /\ x.claim = run[r].claim
    BY DEF NextVotes, Truthful, Accounted
  <2>3. w \in Busy(r)
    BY <2>1, <2>2 DEF Busy
  <2>4. run[r].pc = "running"
    BY <2>3 DEF Inv, BusyOK
  <2>5. r \in Buying(w)
    BY <2>1, <2>2, <2>3, <2>4 DEF Buying, Buys
  <2>6. run'[r].pc = run[r].pc /\ run'[r].claim = run[r].claim
    BY <1>8, FlagsOnly DEF Record
  <2>7. r \notin Buying(w)'
    BY <2>1, <2>2, <2>4, <2>6 DEF Buying, Buys
  <2>8. Cardinality(Buying(w)') + 1 <= Cardinality(Buying(w))
    BY <1>1, <1>2, <2>5, <2>7, OneLess
  <2>9. QED
    BY <1>1, <1>5, <2>1, <2>8, Counts
<1>9. ASSUME FullScreens(w)' # FullScreens(w), NEW q \in late, Late(q), LateRow(q)
      PROVE  Rebought(w)'
  <2>1. rows' = rows \cup {q.row} /\ q.op = "row" /\ late' = late \ {q}
    BY <1>9 DEF Late, LateRow
  <2>2. /\ q.row.work = w /\ IsFiniteSet(FullScreens(w)')
        /\ Cardinality(FullScreens(w)') <= Cardinality(FullScreens(w)) + 1
    BY <1>7, <1>9, <2>1
  <2>3. q \in LateRows(w) /\ LateRows(w)' \subseteq LateRows(w) \ {q}
    BY <2>1, <2>2 DEF LateRows
  <2>4. Cardinality(LateRows(w)') + 1 <= Cardinality(LateRows(w))
    BY <1>1, <2>3, OneLess
  <2>5. QED
    BY <1>1, <1>3, <1>5, <2>2, <2>4, Counts
<1>10. QED
  BY <1>6, <1>8, <1>9, RowsAre

\* A run that reads what is decided finds no complete screen of the work: the
\* votes on their way are as many as the faults at most, the buyers as many as
\* the runners.
LEMMA ReadsNone ==
    ASSUME Inv, Truthful, RebuyInv, [Next]_vars, NEW w \in Works,
           FullScreens(w) = {}, NEW r \in Runners, ReadDecided(r)
    PROVE  Rebought(w)'
<1>1. rows' = rows /\ late' = late /\ faults' = faults
  BY DEF ReadDecided, Working, Quiet
<1>2. FullScreens(w)' = {} /\ LateRows(w)' = LateRows(w) /\ Buying(w)' \subseteq Runners
  BY <1>1, FullSame DEF LateRows, Buying
<1>3. /\ Rebought(w) /\ faults \in Nat
      /\ Cardinality(LateRows(w)) \in Nat /\ Cardinality(Runners) \in Nat
  BY CountsAre DEF RebuyInv
<1>4. /\ Cardinality(FullScreens(w)') = 0 /\ IsFiniteSet(FullScreens(w)')
      /\ Cardinality(Buying(w)') \in Nat /\ Cardinality(Buying(w)') <= Cardinality(Runners)
  BY <1>2, FS_EmptySet, RunnersAssumption, FS_Subset, FS_CardinalityType
<1>5. Cardinality(LateRows(w)) <= faults /\ IsFiniteSet(LateRows(w))
  BY <1>3 DEF Rebought
<1>6. Cardinality(FullScreens(w)') + Cardinality(LateRows(w)') + Cardinality(Buying(w)')
          <= Cardinality(Runners) + faults'
  BY <1>1, <1>2, <1>3, <1>4, <1>5
<1>7. QED
  BY <1>1, <1>2, <1>4, <1>5, <1>6 DEF Rebought

LEMMA RebuyStep ==
    ASSUME Inv, Truthful, RebuyInv, [Next]_vars
    PROVE  RebuyInv'
<1>1. faults' \in Nat
  BY FaultsStep DEF RebuyInv
<1>2. ASSUME NEW w \in Works
      PROVE  Rebought(w)'
  BY RecordsNothing, RecordsVote, ReadsNone, BuyersAfter
<1>3. QED
  BY <1>1, <1>2 DEF RebuyInv

\* A decided work is never bought over and over: however the runners' reads and
\* claims interleave, a work gets at most one complete screen per runner and one
\* more per fault (_batch reads the decisions before it claims).
THEOREM BuysBounded == Spec => []BoundedRebuy
<1>1. Init => RebuyInv
  <2>1. ASSUME Init, NEW w \in Works
        PROVE  Rebought(w)
    <3>2. FullScreens(w) = {} /\ LateRows(w) = {}
      BY <2>1 DEF Init, FullScreens, LateRows, Voters
    <3>3. Cardinality(Buying(w)) <= Cardinality(Runners)
          /\ Cardinality(Buying(w)) \in Nat /\ Cardinality(Runners) \in Nat
      BY BuyingFinite
    <3>4. faults = 0
      BY <2>1 DEF Init
    <3>5. QED
      BY <3>2, <3>3, <3>4, FS_EmptySet DEF Rebought
  <2>2. QED
    BY <2>1 DEF Init, RebuyInv
<1>2. Inv /\ (Owned /\ Truthful) /\ RebuyInv /\ [Next]_vars => RebuyInv'
  BY RebuyStep
<1>3. RebuyInv => BoundedRebuy
  <2> SUFFICES ASSUME RebuyInv, NEW w \in Works
               PROVE  Cardinality(FullScreens(w)) <= Cardinality(Runners) + faults
    BY DEF BoundedRebuy
  <2>1. PICK cf \in Nat, cl \in Nat, cb \in Nat, cr \in Nat, n \in Nat :
            /\ cf = Cardinality(FullScreens(w)) /\ cl = Cardinality(LateRows(w))
            /\ cb = Cardinality(Buying(w)) /\ cr = Cardinality(Runners) /\ n = faults
    BY CountsAre DEF RebuyInv
  <2>2. cf + cl + cb <= cr + n
    BY <2>1 DEF RebuyInv, Rebought
  <2>3. cf <= cr + n
    BY <2>2
  <2>4. QED
    BY <2>1, <2>3
<1>4. QED
  BY <1>1, <1>2, <1>3, Invariance, TruthfulAlways, PTL DEF Spec

-----------------------------------------------------------------------------
\* A minted claim holds a work for good.
LEMMA HoldsSomeStep ==
    ASSUME Inv, HoldsSome, [Next]_vars
    PROVE  HoldsSome'
<1> SUFFICES ASSUME NEW id \in ClaimIds, claims'[id].status # "absent"
             PROVE  claims'[id].items # {}
  BY DEF HoldsSome
<1>1. CASE claims[id].status # "absent"
  BY <1>1, RowsStay DEF HoldsSome
<1>2. CASE claims[id].status = "absent"
  <2>1. ~Ending /\ ~Keeping
    BY <1>2 DEF Ending, Endable, EndClaim, Keeping, Inv, Shapes, LedgerTypeOK
  <2>2. PICK jd \in ClaimIds, q \in Request : q.op = "claim" /\ Grant(jd, q)
    BY <2>1, LedgerStep DEF Granting
  <2>3. jd = id
    BY <1>2, <2>2, Granted
  <2>4. q.items # {}
    BY <2>2 DEF Grant, Grantable, Claimable
  <2>5. QED
    BY <2>2, <2>3, <2>4, Granted
<1>3. QED
  BY <1>1, <1>2

LEMMA StepImplements ==
    ASSUME Inv, HoldsSome, [Next]_vars
    PROVE  [Leased!Next]_<<holders, retired>>
<1>1. LedgerTypeOK
  BY DEF Inv, Shapes
<1>2. CASE Granting
  <2>1. PICK id \in ClaimIds, q \in Request : q.op = "claim" /\ Grant(id, q)
    BY <1>2 DEF Granting
  <2>2. q.items \in SUBSET Works /\ q.until \in Nat
    BY <2>1 DEF Request
  <2>3. claims[id].status = "absent" /\ now' = now
    BY <2>1, Granted
  <2>4. /\ Claimable(q.release, Tier, q.items, q.until, now)
        /\ InsertClaim(id, q.release, Tier, q.items, q.until)
    BY <2>1 DEF Grant, Grantable
  <2>5. QED
    BY <1>1, <2>2, <2>3, <2>4, Takes
<1>3. CASE Ending \/ Keeping
  <2>1. ASSUME NEW id \in ClaimIds, claims[id].status = "absent"
        PROVE  claims'[id] = claims[id]
    BY <1>1, <1>3, <2>1 DEF Ending, Endable, EndClaim, Keeping, LedgerTypeOK
  <2>2. ASSUME NEW id \in ClaimIds
        PROVE  /\ claims'[id].tier = claims[id].tier /\ claims'[id].items = claims[id].items
               /\ (claims'[id].status = "absent") <=> (claims[id].status = "absent")
               /\ Live(id, now)' => Live(id, now)
    BY <2>1, RowsStay DEF Live
  <2>3. QED
    BY <1>1, <2>2, GivesUp
<1>4. QED
  BY <1>2, <1>3, LedgerStep

\* The calls of the runs, the lost and the late ones included, are exclusive
\* leases: a work is taken once at a time, whole batches at once, and a claim that
\* ended or ran out never comes back (run_tier, release-claim).
THEOREM RunsLease == Spec => ImplementsWorkLease
<1>1. Init => Leased!Init /\ HoldsSome
  BY NothingHeld DEF Init, LedgerInit
<1>2. Inv /\ HoldsSome /\ [Next]_vars => HoldsSome' /\ [Leased!Next]_<<holders, retired>>
  BY HoldsSomeStep, StepImplements
<1>3. QED
  BY <1>1, <1>2, Invariance, PTL DEF Spec, ImplementsWorkLease, Leased!Spec

\* Over a whole tier no two live claims hold one work, and a run whose lease
\* ended or ran out never has it back, whatever arrives late (run_tier).
THEOREM RunsStayApart == Spec => []Apart /\ NeverAgain
  BY RunsLease, LeaseKeeps, PTL
=============================================================================
