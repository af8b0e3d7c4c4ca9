--------------------------- MODULE ExtractRun_proofs ---------------------------
(***************************************************************************)
(* Theorems about ExtractRun, for every set of works, processes, modes and *)
(* claim ids, every batch size and limit, whatever --redo and a correction *)
(* name, and any number of faults.                                         *)
(***************************************************************************)
EXTENDS ExtractRun, ClaimLedger_proofs, FiniteSetTheorems, WellFoundedInduction

\* A superseded row points at a later result.
PointsOn(w) ==
    \A i \in 1 .. Len(rows[w]) :
        rows[w][i].by # 0 =>
            i < rows[w][i].by /\ rows[w][i].by <= Len(rows[w]) /\ IsResult(w, rows[w][i].by)
RowsOK == rows \in [Works -> Seq(Row)] /\ \A w \in Works : PointsOn(w)

\* The rows a process has in mind are results, and what replaces a row is newer.
ResultOf(s, i) == i \in 1 .. Len(s) /\ s[i].kind # "evidence"
History(c, table) ==
    \A w \in Works :
        /\ c.old[w] # 0 => ResultOf(table[w], c.old[w])
        /\ c.new[w] # 0 => /\ c.old[w] # 0 /\ c.old[w] < c.new[w]
                           /\ ResultOf(table[w], c.new[w])

\* What a process knows at each point.
CommandOK(c) ==
    /\ c.claim # None <=> c.phase \in {"running", "correcting"}
    /\ c.busy \subseteq c.batch /\ c.queue \subseteq c.batch
    /\ c.phase # "running" => c.busy = {}
    /\ c.phase \notin {"superseding", "correcting"} => c.new = NoRows
    /\ c.todo \cap c.attempted = {} /\ c.batch \cap c.attempted = {}
    /\ c.phase = "running" => c.todo = {} /\ Cardinality(c.batch) <= c.left
    /\ c.phase \in {"patching", "correcting"} => {w \in Works : c.old[w] # 0} \subseteq c.batch

\* A process works on what its claim holds.
Owns(c, table) ==
    c.claim # None =>
        /\ table[c.claim].status # "absent" /\ table[c.claim].tier = Tier
        /\ table[c.claim].items = c.batch

\* The lease a running batch has left, with the renewals that failed since and the
\* one that is due, is a whole lease.
Due(c) == IF c.due THEN 1 ELSE 0
LeaseLeft(c, table) ==
    (c.phase = "running" /\ ~ c.lost /\ table[c.claim].status = "active") =>
        table[c.claim].expires + c.missed + Due(c) >= TTL

\* The live claims of the tier hold different works.
Exclusive ==
    \A i, j \in ClaimIds :
        (i # j /\ Live(i, now) /\ Live(j, now) /\ claims[i].tier = Tier /\ claims[j].tier = Tier)
            => claims[i].items \cap claims[j].items = {}

Distinct ==
    \A r, q \in Runs : (r # q /\ runs[r].claim # None) => runs[r].claim # runs[q].claim

LedgerOK == LedgerTypeOK /\ now = 0 /\ Exclusive

Inv ==
    /\ LedgerOK /\ RowsOK /\ Distinct
    /\ runs \in [Runs -> Commands] /\ faults \in 0 .. MaxFaults
    /\ \A r \in Runs : /\ CommandOK(runs[r]) /\ History(runs[r], rows)
                        /\ Owns(runs[r], claims) /\ LeaseLeft(runs[r], claims)

-----------------------------------------------------------------------------
\* The newest of some rows.

\* A nonempty set of bounded numbers has a greatest: shrinking "what lies above"
\* comes to an end.
LEMMA Greatest ==
    ASSUME NEW S, NEW n \in Nat, S \subseteq 0 .. n, S # {}
    PROVE  \E i \in S : \A j \in S : j <= i
<1> DEFINE Above(i) == {j \in S : i < j}
           T == {Above(i) : i \in S}
           R == StrictSubsetOrdering(S)
<1>1. IsFiniteSet(S)
  <2>1. IsFiniteSet(0 .. n) BY FS_Interval
  <2>2. QED BY <2>1, FS_Subset
<1>2. IsWellFoundedOn(R, FiniteSubsetsOf(S)) BY FS_StrictSubsetOrderingWellFounded
<1>3. T \subseteq FiniteSubsetsOf(S) /\ T # {}
  <2>1. ASSUME NEW i \in S PROVE Above(i) \in FiniteSubsetsOf(S)
    <3>1. Above(i) \subseteq S OBVIOUS
    <3>2. IsFiniteSet(Above(i)) BY <3>1, <1>1, FS_Subset
    <3>3. QED BY <3>1, <3>2 DEF FiniteSubsetsOf
  <2>2. QED BY <2>1
<1>4. PICK k \in T : \A l \in T : ~ (<<l, k>> \in R)
  <2> HIDE DEF R, T
  <2>1. QED BY <1>2, <1>3, WFMin
<1>5. PICK i \in S : k = Above(i) OBVIOUS
<1>6. ASSUME NEW j \in S, ~ (j <= i) PROVE FALSE
  <2>1. i \in Int /\ j \in Int /\ S \subseteq Int /\ i < j BY <1>6
  <2>2. Above(j) \subseteq Above(i) /\ j \in Above(i) /\ j \notin Above(j)
    <3>1. ASSUME NEW l \in S, j < l PROVE i < l BY <2>1, <3>1
    <3>2. ~ (j < j) BY <2>1
    <3>3. QED BY <2>1, <3>1, <3>2
  <2>3. Above(j) \subseteq S /\ Above(i) \subseteq S OBVIOUS
  <2>4. <<Above(j), Above(i)>> \in R
    <3> HIDE DEF Above
    <3>1. QED BY <2>2, <2>3 DEF StrictSubsetOrdering
  <2>5. QED BY <2>4, <1>4, <1>5
<1>7. QED BY <1>6

LEMMA NewestIs ==
    ASSUME NEW S, NEW n \in Nat, S \subseteq 1 .. n
    PROVE  /\ Newest(S) \in Nat
           /\ Newest(S) = 0 <=> S = {}
           /\ S # {} => Newest(S) \in S
           /\ \A j \in S : j <= Newest(S)
<1>1. CASE S = {} BY <1>1 DEF Newest
<1>2. CASE S # {}
  <2>1. S \subseteq 0 .. n OBVIOUS
  <2>2. \E i \in S : \A j \in S : j <= i BY <1>2, <2>1, Greatest
  <2>3. Newest(S) = CHOOSE i \in S : \A j \in S : j <= i BY <1>2 DEF Newest
  <2>4. Newest(S) \in S /\ \A j \in S : j <= Newest(S) BY <2>2, <2>3
  <2>5. Newest(S) \in 1 .. n BY <2>4
  <2>6. Newest(S) \in Nat /\ Newest(S) # 0 BY <2>5
  <2>7. QED BY <1>2, <2>4, <2>6
<1>3. QED BY <1>1, <1>2

LEMMA RowFields ==
    ASSUME RowsOK, NEW w \in Works
    PROVE  /\ rows[w] \in Seq(Row) /\ Len(rows[w]) \in Nat
           /\ DOMAIN rows[w] = 1 .. Len(rows[w])
           /\ \A i \in 1 .. Len(rows[w]) :
                  /\ rows[w][i] \in Row /\ rows[w][i].mode \in Modes
                  /\ rows[w][i].kind \in Kinds /\ rows[w][i].by \in Nat
<1>1. rows[w] \in Seq(Row) BY DEF RowsOK
<1>2. \A i \in 1 .. Len(rows[w]) : rows[w][i] \in Row BY <1>1
<1>3. QED BY <1>1, <1>2 DEF Row

\* What a reader takes for the answer is a result.
LEMMA DecisionIs ==
    ASSUME RowsOK, NEW w \in Works, NEW modes
    PROVE  /\ Decision(w, modes) \in Nat
           /\ Decision(w, modes) # 0 =>
                Decision(w, modes) \in 1 .. Len(rows[w]) /\ IsResult(w, Decision(w, modes))
<1>1. Readable(w, modes) \subseteq 1 .. Len(rows[w]) /\ Len(rows[w]) \in Nat
  BY RowFields DEF Readable
<1>2. /\ Newest(Readable(w, modes)) \in Nat
      /\ Newest(Readable(w, modes)) # 0 => Newest(Readable(w, modes)) \in Readable(w, modes)
  BY <1>1, NewestIs
<1>3. QED BY <1>1, <1>2 DEF Decision

LEMMA LatestResultIs ==
    ASSUME RowsOK, NEW w \in Works, NEW mode
    PROVE  /\ LatestResult(w, mode) \in Nat
           /\ LatestResult(w, mode) # 0 =>
                LatestResult(w, mode) \in 1 .. Len(rows[w]) /\ IsResult(w, LatestResult(w, mode))
<1> DEFINE S == {i \in Readable(w, {mode}) : IsResult(w, i)}
<1>1. S \subseteq 1 .. Len(rows[w]) /\ Len(rows[w]) \in Nat
  BY RowFields DEF Readable
<1>2. \A i \in S : IsResult(w, i) OBVIOUS
<1>3. LatestResult(w, mode) = Newest(S) BY DEF LatestResult
<1> HIDE DEF S
<1>4. Newest(S) \in Nat /\ (Newest(S) # 0 => Newest(S) \in S) BY <1>1, NewestIs
<1>5. QED BY <1>1, <1>2, <1>3, <1>4

LEMMA LatestIsRead ==
    ASSUME RowsOK, NEW w \in Works, NEW mode, LatestResult(w, mode) # 0
    PROVE  /\ LatestResult(w, mode) \in 1 .. Len(rows[w])
           /\ rows[w][LatestResult(w, mode)].mode = mode
           /\ rows[w][LatestResult(w, mode)].kind # "evidence"
<1> DEFINE S == {i \in Readable(w, {mode}) : IsResult(w, i)}
<1>1. S \subseteq 1 .. Len(rows[w]) /\ Len(rows[w]) \in Nat
  BY RowFields DEF Readable
<1>2. \A i \in S : rows[w][i].mode = mode /\ rows[w][i].kind # "evidence"
  BY DEF Readable, IsResult
<1>3. LatestResult(w, mode) = Newest(S) BY DEF LatestResult
<1> HIDE DEF S
<1>4. Newest(S) # 0 => Newest(S) \in S BY <1>1, NewestIs
<1>5. QED BY <1>1, <1>2, <1>3, <1>4

\* The last row is never superseded, so that in all modes together it is the newest.
LEMMA DecisionIsLast ==
    ASSUME RowsOK, NEW w \in Works, Decision(w, Modes) # 0
    PROVE  Decision(w, Modes) = Len(rows[w])
<1> DEFINE n == Len(rows[w])
           S == Readable(w, Modes)
<1>1. n \in Nat /\ S \subseteq 1 .. n BY RowFields DEF Readable
<1>2. Newest(S) # 0 /\ Decision(w, Modes) = Newest(S) BY DEF Decision
<1>3. Newest(S) \in S /\ \A j \in S : j <= Newest(S)
  <2> HIDE DEF S, n
  <2>1. QED BY <1>1, <1>2, NewestIs
<1>4. n \in 1 .. n BY <1>1, <1>3
<1>5. rows[w][n].by = 0
  <2>1. rows[w][n].by \in Nat BY <1>4, RowFields
  <2>2. rows[w][n].by # 0 => n < rows[w][n].by /\ rows[w][n].by <= n
    BY <1>4 DEF RowsOK, PointsOn
  <2>3. QED BY <1>1, <2>1, <2>2
<1>6. n \in S BY <1>4, <1>5, RowFields DEF Readable
<1>7. QED BY <1>1, <1>2, <1>3, <1>6

\* With no older row in the way of a newer one, the newest result can be read.
LEMMA NewestReadable ==
    ASSUME RowsOK, NEW w \in Works, NEW mode \in Modes, OwnMode(w, mode)
    PROVE  LatestResult(w, mode) =
               Newest({i \in DOMAIN rows[w] : rows[w][i].mode = mode /\ IsResult(w, i)})
<1> DEFINE All == {i \in DOMAIN rows[w] : rows[w][i].mode = mode /\ IsResult(w, i)}
           Read == {i \in Readable(w, {mode}) : IsResult(w, i)}
<1>1. Len(rows[w]) \in Nat /\ All \subseteq 1 .. Len(rows[w]) /\ Read \subseteq All
  BY RowFields DEF Readable
<1>2. \A i \in All : rows[w][i].by = 0 => i \in Read BY DEF Readable
<1>3. \A i \in All : rows[w][i].by # 0 => rows[w][i].by \in All /\ i < rows[w][i].by
  <2> SUFFICES ASSUME NEW i \in All, rows[w][i].by # 0
               PROVE  rows[w][i].by \in All /\ i < rows[w][i].by
    OBVIOUS
  <2>1. i \in 1 .. Len(rows[w]) /\ rows[w][i].by \in Nat BY RowFields
  <2>2. i < rows[w][i].by /\ rows[w][i].by <= Len(rows[w]) /\ IsResult(w, rows[w][i].by)
    BY <2>1 DEF RowsOK, PointsOn
  <2>3. rows[w][i].by \in DOMAIN rows[w] BY <1>1, <2>1, <2>2, RowFields
  <2>4. rows[w][rows[w][i].by].mode = mode BY DEF OwnMode
  <2>5. QED BY <2>2, <2>3, <2>4
<1>4. LatestResult(w, mode) = Newest(Read) BY DEF LatestResult
<1>5. \A i \in All : i \in Nat BY <1>1
<1> HIDE DEF All, Read
<1>6. CASE All = {}
  <2>1. Read = {} BY <1>1, <1>6
  <2>2. QED BY <1>4, <1>6, <2>1 DEF All
<1>7. CASE All # {}
  <2>1. Newest(All) \in All /\ \A j \in All : j <= Newest(All) BY <1>1, <1>7, NewestIs
  <2>2. rows[w][Newest(All)].by = 0
    <3>1. rows[w][Newest(All)].by \in Nat BY <1>1, <2>1, RowFields
    <3>2. Newest(All) \in Nat BY <1>5, <2>1
    <3>3. QED BY <1>3, <2>1, <3>1, <3>2
  <2>3. Newest(All) \in Read BY <1>2, <2>1, <2>2
  <2>4. Read \subseteq 1 .. Len(rows[w]) BY <1>1
  <2>5. Newest(Read) \in Read /\ \A j \in Read : j <= Newest(Read)
    BY <1>1, <2>3, <2>4, NewestIs
  <2>6. Newest(Read) <= Newest(All) /\ Newest(All) <= Newest(Read)
    BY <1>1, <2>1, <2>3, <2>5
  <2>7. Newest(Read) \in Nat /\ Newest(All) \in Nat BY <1>1, <1>5, <2>1, <2>5
  <2>8. Newest(Read) = Newest(All) BY <2>6, <2>7
  <2>9. QED BY <1>4, <2>8 DEF All
<1>8. QED BY <1>6, <1>7

\* What is newer than the newest result is evidence, which nothing supersedes: the
\* checkpoint meets it first.
LEMMA NewestDecides ==
    ASSUME RowsOK, NEW w \in Works, NEW mode \in Modes, OwnMode(w, mode)
    PROVE  Decision(w, {mode}) =
               IF \E i \in RowsOf(w, mode) : LatestResult(w, mode) < i
               THEN 0 ELSE LatestResult(w, mode)
<1> DEFINE latest == LatestResult(w, mode)
           Results == {i \in DOMAIN rows[w] : rows[w][i].mode = mode /\ IsResult(w, i)}
           All == RowsOf(w, mode)
           Read == Readable(w, {mode})
           newest == Newest(Read)
<1>1. /\ Len(rows[w]) \in Nat /\ All \subseteq 1 .. Len(rows[w]) /\ Read \subseteq All
      /\ Results \subseteq 1 .. Len(rows[w])
  BY RowFields DEF Readable, RowsOf
<1>2. latest = Newest(Results) /\ latest \in Nat BY NewestReadable, LatestResultIs
<1>3. Decision(w, {mode}) = IF newest # 0 /\ IsResult(w, newest) THEN newest ELSE 0
  BY DEF Decision
<1>4. \A i \in All : IsResult(w, i) => i \in Results BY DEF RowsOf
<1>5. ASSUME NEW i \in All, latest < i PROVE i \in Read /\ ~IsResult(w, i)
  <2>1. i \in 1 .. Len(rows[w]) /\ rows[w][i].by \in Nat /\ i \in Nat
    BY <1>1, <1>5, RowFields
  <2>2. \A j \in Results : j <= latest
    <3> HIDE DEF Results, latest
    <3>1. QED BY <1>1, <1>2, NewestIs
  <2>3. \A j \in Results : ~ (i <= j) /\ ~ (i < j)
    <3>1. \A j \in Results : j \in Nat BY <1>1
    <3> HIDE DEF Results, latest
    <3>2. QED BY <1>2, <1>5, <2>1, <2>2, <3>1
  <2>4. ~IsResult(w, i)
    <3>1. i \notin Results
      <4> HIDE DEF Results, latest
      <4>1. i <= i BY <2>1
      <4>2. QED BY <2>3, <4>1
    <3>2. QED BY <1>4, <1>5, <3>1
  <2>5. rows[w][i].by = 0
    <3>1. SUFFICES ASSUME rows[w][i].by # 0 PROVE FALSE OBVIOUS
    <3>2. /\ i < rows[w][i].by /\ rows[w][i].by <= Len(rows[w])
          /\ IsResult(w, rows[w][i].by)
      BY <2>1, <3>1 DEF RowsOK, PointsOn
    <3>3. rows[w][i].by \in DOMAIN rows[w] BY <1>1, <2>1, <3>2, RowFields
    <3>4. rows[w][rows[w][i].by].mode = mode BY <3>1 DEF OwnMode, RowsOf
    <3>5. rows[w][i].by \in Results BY <3>2, <3>3, <3>4
    <3>6. QED BY <2>3, <3>2, <3>5
  <2>6. QED BY <2>4, <2>5 DEF Readable, RowsOf
<1>6. latest # 0 => latest \in Read /\ IsResult(w, latest)
  <2>1. latest = Newest({i \in Read : IsResult(w, i)}) BY DEF LatestResult
  <2>2. {i \in Read : IsResult(w, i)} \subseteq 1 .. Len(rows[w]) BY <1>1
  <2>3. latest # 0 => latest \in {i \in Read : IsResult(w, i)}
    <3> HIDE DEF latest, Read
    <3>1. QED BY <1>1, <2>1, <2>2, NewestIs
  <2>4. QED BY <2>3
<1>7. /\ newest \in Nat /\ \A j \in Read : j <= newest
      /\ newest # 0 => newest \in Read
  <2>1. Read \subseteq 1 .. Len(rows[w]) BY <1>1
  <2> HIDE DEF Read
  <2>2. QED BY <1>1, <2>1, NewestIs
<1> HIDE DEF latest, Results, All, Read, newest
<1>8. CASE \E i \in All : latest < i
  <2>1. PICK i \in All : latest < i BY <1>8
  <2>2. i \in Read /\ i <= newest /\ i \in Nat BY <1>1, <1>5, <1>7, <2>1
  <2>3. latest < newest /\ newest # 0 BY <1>2, <1>7, <2>1, <2>2
  <2>4. newest \in All /\ ~IsResult(w, newest) BY <1>1, <1>5, <1>7, <2>3
  <2>5. QED BY <1>3, <1>8, <2>4 DEF latest, All
<1>9. CASE ~ \E i \in All : latest < i
  <2>1. CASE latest = 0
    <3>1. Read = {}
      <4>1. ASSUME NEW i \in Read PROVE FALSE
        <5>1. i \in All /\ i \in 1 .. Len(rows[w]) BY <1>1
        <5>2. 0 < i BY <5>1
        <5>3. QED BY <1>9, <2>1, <5>1, <5>2
      <4>2. QED BY <4>1
    <3>2. newest = 0 BY <1>7, <3>1
    <3>3. QED BY <1>3, <1>9, <2>1, <3>2 DEF latest, All
  <2>2. CASE latest # 0
    <3>1. latest <= newest BY <1>6, <1>7, <2>2
    <3>2. newest # 0 BY <1>2, <1>7, <2>2, <3>1
    <3>3. newest \in All BY <1>1, <1>7, <3>2
    <3>4. newest = latest BY <1>2, <1>7, <1>9, <3>1, <3>3
    <3>5. QED BY <1>3, <1>6, <1>9, <2>2, <3>4 DEF latest, All
  <2>3. QED BY <2>1, <2>2
<1>10. QED BY <1>8, <1>9

LEMMA AllSpeak == RowsOK => NewestSpeaks
<1> SUFFICES ASSUME RowsOK, NEW w \in Works, NEW mode \in Modes, OwnMode(w, mode)
             PROVE  LET newest == Newest({i \in RowsOf(w, mode) : IsResult(w, i)})
                    IN  /\ LatestResult(w, mode) = newest
                        /\ Decision(w, {mode}) =
                              IF \E i \in RowsOf(w, mode) : newest < i THEN 0 ELSE newest
  BY DEF NewestSpeaks
<1>1. {i \in RowsOf(w, mode) : IsResult(w, i)} =
        {i \in DOMAIN rows[w] : rows[w][i].mode = mode /\ IsResult(w, i)}
  BY DEF RowsOf
<1>2. Newest({i \in RowsOf(w, mode) : IsResult(w, i)}) = LatestResult(w, mode)
  BY <1>1, NewestReadable
<1>3. QED BY <1>2, NewestDecides

-----------------------------------------------------------------------------
\* What a step may do to the rows: write new ones, and point old ones on.
Grows ==
    /\ RowsOK'
    /\ \A w \in Works :
        /\ Len(rows[w]) <= Len(rows'[w])
        /\ \A i \in 1 .. Len(rows[w]) : rows'[w][i].kind = rows[w][i].kind

LEMMA RowsStay == ASSUME RowsOK, rows' = rows PROVE Grows
<1>1. RowsOK' BY DEF RowsOK, PointsOn, IsResult
<1>2. \A w \in Works : Len(rows[w]) \in Nat BY RowFields
<1>3. QED BY <1>1, <1>2 DEF Grows

LEMMA RowsAppended ==
    ASSUME RowsOK, NEW w \in Works, NEW row \in Row, row.by = 0,
           rows' = [rows EXCEPT ![w] = Append(@, row)]
    PROVE  /\ Grows
           /\ ResultOf(rows'[w], Len(rows[w]) + 1) <=> row.kind # "evidence"
<1> DEFINE n == Len(rows[w])
<1>1. rows[w] \in Seq(Row) /\ n \in Nat BY RowFields
<1>2. rows'[w] = Append(rows[w], row) /\ \A v \in Works : v # w => rows'[v] = rows[v]
  BY DEF RowsOK
<1>3. /\ rows'[w] \in Seq(Row) /\ Len(rows'[w]) = n + 1 /\ rows'[w][n + 1] = row
      /\ \A i \in 1 .. n : rows'[w][i] = rows[w][i]
  BY <1>1, <1>2
<1>4. rows' \in [Works -> Seq(Row)] BY <1>1, <1>2, <1>3 DEF RowsOK
<1>5. ASSUME NEW v \in Works PROVE PointsOn(v)'
  <2>1. CASE v = w
    <3> SUFFICES ASSUME NEW i \in 1 .. Len(rows'[w]), rows'[w][i].by # 0
                 PROVE  /\ i < rows'[w][i].by /\ rows'[w][i].by <= Len(rows'[w])
                        /\ rows'[w][rows'[w][i].by].kind # "evidence"
      BY <2>1 DEF PointsOn, IsResult
    <3>1. i \in 1 .. n /\ rows'[w][i] = rows[w][i]
      <4>1. i # n + 1 BY <1>3
      <4>2. i \in 1 .. n + 1 BY <1>3
      <4>3. i \in 1 .. n BY <1>1, <4>1, <4>2
      <4>4. QED BY <1>3, <4>3
    <3>2. PICK b \in Nat : b = rows[w][i].by BY <3>1, RowFields
    <3>3. i < b /\ b <= n /\ rows[w][b].kind # "evidence"
      BY <3>1, <3>2 DEF RowsOK, PointsOn, IsResult
    <3>4. b \in 1 .. n BY <1>1, <3>1, <3>2, <3>3
    <3>5. rows'[w][b] = rows[w][b] /\ b <= n + 1 BY <1>1, <1>3, <3>4
    <3>6. QED BY <1>3, <3>1, <3>2, <3>3, <3>5
  <2>2. CASE v # w BY <1>2, <2>2 DEF RowsOK, PointsOn, IsResult
  <2>3. QED BY <2>1, <2>2
<1>6. RowsOK' BY <1>4, <1>5 DEF RowsOK
<1>7. \A v \in Works : /\ Len(rows[v]) <= Len(rows'[v])
                       /\ \A i \in 1 .. Len(rows[v]) : rows'[v][i].kind = rows[v][i].kind
  <2> SUFFICES ASSUME NEW v \in Works
               PROVE  /\ Len(rows[v]) <= Len(rows'[v])
                      /\ \A i \in 1 .. Len(rows[v]) : rows'[v][i].kind = rows[v][i].kind
    OBVIOUS
  <2>1. CASE v = w BY <1>1, <1>3, <2>1
  <2>2. Len(rows[v]) \in Nat BY RowFields
  <2>3. CASE v # w BY <1>2, <2>2, <2>3
  <2>4. QED BY <2>1, <2>3
<1>8. ResultOf(rows'[w], n + 1) <=> row.kind # "evidence"
  <2>1. n + 1 \in 1 .. Len(rows'[w]) BY <1>1, <1>3
  <2>2. QED BY <1>3, <2>1 DEF ResultOf
<1>9. QED BY <1>6, <1>7, <1>8 DEF Grows

LEMMA SeqReplaced ==
    ASSUME NEW S, NEW s \in Seq(S), NEW i \in 1 .. Len(s), NEW e \in S,
           NEW y, y = [s EXCEPT ![i] = e]
    PROVE  /\ y \in Seq(S) /\ Len(y) = Len(s)
           /\ \A k \in 1 .. Len(s) : y[k] = IF k = i THEN e ELSE s[k]
  OBVIOUS

LEMMA PointerUpdate ==
    ASSUME NEW old \in Row, NEW j \in Nat, NEW new, new = [old EXCEPT !.by = j]
    PROVE  new \in Row /\ new.kind = old.kind /\ new.by = j
<1>1. /\ old = [mode |-> old.mode, kind |-> old.kind, by |-> old.by]
      /\ old.mode \in Modes /\ old.kind \in Kinds
  BY DEF Row
<1>2. new = [mode |-> old.mode, kind |-> old.kind, by |-> j]
  BY <1>1
<1>3. QED BY <1>1, <1>2 DEF Row

LEMMA RowsPointed ==
    ASSUME RowsOK, NEW w \in Works, NEW i, NEW j, ResultOf(rows[w], i), ResultOf(rows[w], j),
           i < j, rows' = [rows EXCEPT ![w][i].by = j]
    PROVE  Grows
<1> DEFINE n == Len(rows[w])
           row == [rows[w][i] EXCEPT !.by = j]
<1>1. rows[w] \in Seq(Row) /\ n \in Nat /\ i \in 1 .. n /\ j \in 1 .. n /\ rows[w][i] \in Row
  BY RowFields DEF ResultOf
<1>2. row \in Row /\ row.kind = rows[w][i].kind /\ row.by = j
  <2>1. PICK old \in Row : old = rows[w][i] BY <1>1
  <2>2. row = [old EXCEPT !.by = j] BY <2>1
  <2>3. j \in Nat BY <1>1
  <2>4. QED BY <2>1, <2>2, <2>3, PointerUpdate
<1>3. /\ rows'[w] = [rows[w] EXCEPT ![i] = row]
      /\ \A v \in Works : v # w => rows'[v] = rows[v]
  BY DEF RowsOK
<1> HIDE DEF row
<1>4. /\ rows'[w] \in Seq(Row) /\ Len(rows'[w]) = n /\ rows'[w][i] = row
      /\ \A k \in 1 .. n : k # i => rows'[w][k] = rows[w][k]
  <2>1. PICK seq \in Seq(Row) : seq = rows[w] BY <1>1
  <2>2. i \in 1 .. Len(seq) /\ rows'[w] = [seq EXCEPT ![i] = row] /\ n = Len(seq)
    BY <1>1, <1>3, <2>1
  <2>3. PICK y : y = [seq EXCEPT ![i] = row] OBVIOUS
  <2>4. row \in Row BY <1>2
  <2>5. /\ y \in Seq(Row) /\ Len(y) = Len(seq)
        /\ \A k \in 1 .. Len(seq) : y[k] = IF k = i THEN row ELSE seq[k]
    BY <2>2, <2>3, <2>4, SeqReplaced
  <2>6. QED BY <1>1, <2>1, <2>2, <2>3, <2>5
<1>5. \A k \in 1 .. n : rows'[w][k].kind = rows[w][k].kind BY <1>2, <1>4
<1>6. rows' \in [Works -> Seq(Row)] BY <1>3, <1>4 DEF RowsOK
<1>7. ASSUME NEW v \in Works PROVE PointsOn(v)'
  <2>1. CASE v = w
    <3> SUFFICES ASSUME NEW k \in 1 .. n, rows'[w][k].by # 0
                 PROVE  /\ k < rows'[w][k].by /\ rows'[w][k].by <= n
                        /\ rows'[w][rows'[w][k].by].kind # "evidence"
      BY <1>4, <2>1 DEF PointsOn, IsResult
    <3>1. CASE k = i BY <1>1, <1>2, <1>4, <1>5, <3>1 DEF ResultOf
    <3>2. CASE k # i
      <4>1. rows'[w][k] = rows[w][k] BY <1>4, <3>2
      <4>2. PICK b \in Nat : b = rows[w][k].by BY RowFields
      <4>3. k < b /\ b <= n /\ rows[w][b].kind # "evidence"
        BY <4>1, <4>2 DEF RowsOK, PointsOn, IsResult
      <4>4. b \in 1 .. n BY <1>1, <4>2, <4>3
      <4>5. QED BY <1>5, <4>1, <4>2, <4>3, <4>4
    <3>3. QED BY <3>1, <3>2
  <2>2. CASE v # w BY <1>3, <2>2 DEF RowsOK, PointsOn, IsResult
  <2>3. QED BY <2>1, <2>2
<1>8. RowsOK' BY <1>6, <1>7 DEF RowsOK
<1>9. \A v \in Works : /\ Len(rows[v]) <= Len(rows'[v])
                       /\ \A k \in 1 .. Len(rows[v]) : rows'[v][k].kind = rows[v][k].kind
  <2> SUFFICES ASSUME NEW v \in Works
               PROVE  /\ Len(rows[v]) <= Len(rows'[v])
                      /\ \A k \in 1 .. Len(rows[v]) : rows'[v][k].kind = rows[v][k].kind
    OBVIOUS
  <2>1. CASE v = w BY <1>1, <1>4, <1>5, <2>1
  <2>2. Len(rows[v]) \in Nat BY RowFields
  <2>3. CASE v # w BY <1>3, <2>2, <2>3
  <2>4. QED BY <2>1, <2>3
<1>10. QED BY <1>8, <1>9 DEF Grows

LEMMA HistoryKept ==
    ASSUME RowsOK, Grows, NEW c, History(c, rows)
    PROVE  History(c, rows')
<1>1. ASSUME NEW w \in Works, NEW i, ResultOf(rows[w], i) PROVE ResultOf(rows'[w], i)
  <2>1. Len(rows[w]) \in Nat /\ Len(rows'[w]) \in Nat
    <3>1. Len(rows[w]) \in Nat BY RowFields
    <3>2. rows'[w] \in Seq(Row) BY DEF Grows, RowsOK
    <3>3. QED BY <3>1, <3>2
  <2>2. i \in 1 .. Len(rows[w]) /\ rows[w][i].kind # "evidence" BY <1>1 DEF ResultOf
  <2>3. i \in 1 .. Len(rows'[w]) BY <2>1, <2>2 DEF Grows
  <2>4. QED BY <2>2, <2>3 DEF Grows, ResultOf
<1>2. QED BY <1>1 DEF History

-----------------------------------------------------------------------------
\* What a step of a process, or an operator, may do to the claims.
LedgerStep ==
    /\ LedgerOK'
    /\ \A id \in ClaimIds :
        claims[id].status # "absent" =>
            /\ claims'[id].status # "absent" /\ claims'[id].tier = claims[id].tier
            /\ claims'[id].items = claims[id].items
            /\ claims'[id].expires >= claims[id].expires
            /\ claims'[id].status = "active" => claims[id].status = "active"

LEMMA ClaimFields ==
    ASSUME LedgerTypeOK, NEW id \in ClaimIds
    PROVE  claims[id] \in ClaimRow /\ claims[id].expires \in Nat
  BY DEF LedgerTypeOK, ClaimRow

LEMMA LedgerStays == ASSUME LedgerOK, UNCHANGED ledger PROVE LedgerStep
<1>1. releases' = releases /\ claims' = claims /\ now' = now BY DEF ledger
<1>2. LedgerOK' BY <1>1 DEF LedgerOK, LedgerTypeOK, Exclusive, Live
<1>3. \A id \in ClaimIds : claims[id].expires \in Nat BY ClaimFields DEF LedgerOK
<1>4. QED BY <1>1, <1>2, <1>3 DEF LedgerStep

LEMMA LedgerGrants ==
    ASSUME LedgerOK, NEW id \in ClaimIds, NEW B, B \subseteq Works, Grant(id, B)
    PROVE  /\ LedgerStep /\ claims[id].status = "absent"
           /\ claims'[id].status = "active" /\ claims'[id].tier = Tier
           /\ claims'[id].items = B /\ claims'[id].expires = TTL
<1> DEFINE row == [status |-> "active", release |-> Release, tier |-> Tier, items |-> B,
                   expires |-> TTL]
<1>1. now = 0 /\ claims \in [ClaimIds -> ClaimRow] BY DEF LedgerOK, LedgerTypeOK
<1>2. TTL \in Nat /\ TTL = 3 /\ now + TTL = TTL BY <1>1 DEF TTL
<1>3. row \in ClaimRow /\ Tier # Measurement
  BY <1>2, TierAssumption, MeasurementAssumption DEF ClaimRow, Tiers
<1>4. /\ claims' = [claims EXCEPT ![id] = row] /\ UNCHANGED <<releases, now>>
      /\ claims[id].status = "absent"
  BY <1>2 DEF Grant, InsertClaim, Fresh
<1>5. claims'[id] = row /\ \A i \in ClaimIds : i # id => claims'[i] = claims[i] BY <1>1, <1>4
<1>6. row.status = "active" /\ row.tier = Tier /\ row.items = B /\ row.expires = TTL OBVIOUS
<1>7. \A i \in ClaimIds : (Live(i, now) /\ claims[i].tier = Tier) => claims[i].items \cap B = {}
  BY <1>3 DEF Grant, Claimable, Conflicts
<1> HIDE DEF row
<1>8. LedgerTypeOK' BY <1>1, <1>3, <1>4 DEF LedgerOK, LedgerTypeOK
<1>9. Exclusive'
  <2> SUFFICES ASSUME NEW i \in ClaimIds, NEW j \in ClaimIds, i # j, Live(i, now)', Live(j, now)',
                      claims'[i].tier = Tier, claims'[j].tier = Tier
               PROVE  claims'[i].items \cap claims'[j].items = {}
    BY DEF Exclusive
  <2>1. \A k \in ClaimIds : (k # id /\ Live(k, now)') => Live(k, now)
    BY <1>4, <1>5 DEF Live
  <2>2. CASE i = id BY <1>5, <1>6, <1>7, <2>1, <2>2
  <2>3. CASE j = id BY <1>5, <1>6, <1>7, <2>1, <2>3
  <2>4. CASE i # id /\ j # id BY <1>5, <2>1, <2>4 DEF LedgerOK, Exclusive
  <2>5. QED BY <2>2, <2>3, <2>4
<1>10. LedgerOK' BY <1>1, <1>4, <1>8, <1>9 DEF LedgerOK
<1>11. \A i \in ClaimIds : claims[i].expires \in Nat BY ClaimFields DEF LedgerOK
<1>12. LedgerStep BY <1>4, <1>5, <1>10, <1>11 DEF LedgerStep
<1>13. QED BY <1>4, <1>5, <1>6, <1>12

LEMMA LedgerEnds ==
    ASSUME LedgerOK, NEW id \in ClaimIds, NEW s \in EndStatuses, Endable(id), EndClaim(id, s),
           UNCHANGED <<releases, now>>
    PROVE  LedgerStep
<1>1. claims \in [ClaimIds -> ClaimRow] /\ now = 0 BY DEF LedgerOK, LedgerTypeOK
<1>2. /\ s \in {"absent", "active"} \cup EndStatuses /\ s \notin {"absent", "active"}
  BY DEF EndStatuses
<1>3. /\ claims'[id] = [claims[id] EXCEPT !.status = s]
      /\ \A i \in ClaimIds : i # id => claims'[i] = claims[i]
  BY <1>1 DEF EndClaim
<1>4. /\ claims'[id] \in ClaimRow /\ claims'[id].status = s
      /\ claims'[id].items = claims[id].items /\ claims'[id].tier = claims[id].tier
      /\ claims'[id].expires = claims[id].expires
  <2>1. PICK c \in ClaimRow : c = claims[id] BY <1>1
  <2>2. claims'[id] = [c EXCEPT !.status = s] BY <1>3, <2>1
  <2>3. QED BY <1>2, <2>1, <2>2 DEF ClaimRow
<1>5. LedgerTypeOK'
  <2>1. claims' \in [ClaimIds -> ClaimRow] BY <1>1, <1>3, <1>4 DEF EndClaim
  <2>2. QED BY <2>1 DEF LedgerOK, LedgerTypeOK
<1>6. \A i \in ClaimIds : Live(i, now)' => i # id /\ Live(i, now)
  BY <1>2, <1>3, <1>4 DEF Live
<1>7. Exclusive' BY <1>3, <1>6 DEF LedgerOK, Exclusive
<1>8. LedgerOK' BY <1>1, <1>5, <1>7 DEF LedgerOK
<1>9. \A i \in ClaimIds : claims[i].expires \in Nat BY ClaimFields DEF LedgerOK
<1>10. claims[id].status = "active" BY DEF Endable
<1>11. ASSUME NEW i \in ClaimIds, claims[i].status # "absent"
       PROVE  /\ claims'[i].status # "absent" /\ claims'[i].tier = claims[i].tier
              /\ claims'[i].items = claims[i].items
              /\ claims'[i].expires >= claims[i].expires
              /\ claims'[i].status = "active" => claims[i].status = "active"
  <2>1. CASE i = id
    <3>1. claims[i].expires >= claims[i].expires BY <1>9
    <3>2. QED BY <1>2, <1>4, <1>10, <2>1, <3>1
  <2>2. CASE i # id
    <3>1. claims'[i] = claims[i] BY <1>3, <2>2
    <3>2. QED BY <1>9, <1>11, <3>1
  <2>3. QED BY <2>1, <2>2
<1>12. QED BY <1>8, <1>11 DEF LedgerStep

LEMMA LedgerRenews ==
    ASSUME LedgerOK, NEW id \in ClaimIds, Renewable(id, now), ExtendLease(id, now + TTL),
           UNCHANGED <<releases, now>>
    PROVE  LedgerStep /\ claims'[id].expires >= TTL
<1>1. claims \in [ClaimIds -> ClaimRow] /\ now = 0 BY DEF LedgerOK, LedgerTypeOK
<1>2. claims[id].expires \in Nat /\ now + TTL = 3 /\ TTL = 3 BY <1>1, ClaimFields DEF LedgerOK, TTL
<1>3. PICK e : e = IF now + TTL > claims[id].expires THEN now + TTL ELSE claims[id].expires
  OBVIOUS
<1>4. e \in Nat /\ e >= TTL /\ e >= claims[id].expires BY <1>2, <1>3
<1>5. /\ claims'[id] = [claims[id] EXCEPT !.expires = e]
      /\ \A i \in ClaimIds : i # id => claims'[i] = claims[i]
  BY <1>1, <1>3 DEF ExtendLease, ClaimRow
<1>6. /\ claims'[id] \in ClaimRow /\ claims'[id].status = claims[id].status
      /\ claims'[id].items = claims[id].items /\ claims'[id].tier = claims[id].tier
      /\ claims'[id].expires = e
  BY <1>1, <1>4, <1>5 DEF ClaimRow
<1>7. LedgerTypeOK'
  <2>1. claims' \in [ClaimIds -> ClaimRow] BY <1>1, <1>5, <1>6 DEF ExtendLease
  <2>2. QED BY <2>1 DEF LedgerOK, LedgerTypeOK
<1>8. \A i \in ClaimIds : Live(i, now)' => Live(i, now)
  BY <1>5, <1>6 DEF Live, Renewable
<1>9. \A i \in ClaimIds : claims'[i].items = claims[i].items /\ claims'[i].tier = claims[i].tier
  BY <1>5, <1>6
<1>10. Exclusive' BY <1>8, <1>9 DEF LedgerOK, Exclusive
<1>11. LedgerOK' BY <1>1, <1>7, <1>10 DEF LedgerOK
<1>12. \A i \in ClaimIds : claims[i].expires \in Nat BY ClaimFields DEF LedgerOK
<1>13. ASSUME NEW i \in ClaimIds, claims[i].status # "absent"
       PROVE  /\ claims'[i].status # "absent" /\ claims'[i].tier = claims[i].tier
              /\ claims'[i].items = claims[i].items
              /\ claims'[i].expires >= claims[i].expires
              /\ claims'[i].status = "active" => claims[i].status = "active"
  <2>1. CASE i = id BY <1>4, <1>6, <1>13, <2>1
  <2>2. CASE i # id
    <3>1. claims'[i] = claims[i] BY <1>5, <2>2
    <3>2. QED BY <1>12, <1>13, <3>1
  <2>3. QED BY <2>1, <2>2
<1>14. LedgerStep BY <1>11, <1>13 DEF LedgerStep
<1>15. QED BY <1>4, <1>6, <1>14

-----------------------------------------------------------------------------
\* A step of one process.
LEMMA CommandFields ==
    ASSUME NEW c \in Commands
    PROVE  /\ c.phase \in Phases /\ c.mode \in Modes /\ c.reopened \subseteq Works
           /\ c.left \in Nat /\ c.todo \subseteq Works /\ c.attempted \subseteq Works
           /\ c.old \in [Works -> Nat] /\ c.new \in [Works -> Nat]
           /\ c.batch \subseteq Works /\ c.queue \subseteq Works /\ c.busy \subseteq Works
           /\ c.claim \in ClaimIds \cup {None}
           /\ c.due \in BOOLEAN /\ c.missed \in 0 .. TTL /\ c.lost \in BOOLEAN
  BY DEF Commands

LEMMA IdleFields ==
    /\ Idle \in Commands /\ Idle.phase = "idle" /\ Idle.claim = None
    /\ Idle.todo = {} /\ Idle.attempted = {} /\ Idle.old = NoRows /\ Idle.new = NoRows
    /\ Idle.batch = {} /\ Idle.queue = {} /\ Idle.busy = {}
<1>1. (CHOOSE m \in Modes : TRUE) \in Modes BY ModesAssumption
<1>2. NoRows \in [Works -> Nat] BY DEF NoRows
<1>3. 0 \in 0 .. TTL /\ "idle" \in Phases BY DEF TTL, Phases
<1>4. QED BY <1>1, <1>2, <1>3 DEF Idle, Commands

\* Without a claim a process has nothing to answer for but its memory.
LEMMA Unclaimed ==
    ASSUME NEW x, x.claim = None, x.phase \notin {"running", "patching", "correcting"},
           x.phase # "superseding" => x.new = NoRows,
           x.busy = {}, x.queue \subseteq x.batch,
           x.todo \cap x.attempted = {}, x.batch \cap x.attempted = {}
    PROVE  CommandOK(x) /\ (\A C : Owns(x, C)) /\ (\A C : LeaseLeft(x, C))
  BY DEF CommandOK, Owns, LeaseLeft

LEMMA NoHistory ==
    ASSUME NEW x, x.old = NoRows, x.new = NoRows
    PROVE  \A R : History(x, R)
  BY DEF History, NoRows

LEMMA RunStep ==
    ASSUME Inv, NEW r \in Runs, NEW x \in Commands, Becomes(r, x), LedgerStep, Grows,
           faults' \in 0 .. MaxFaults,
           CommandOK(x), History(x, rows'), Owns(x, claims'), LeaseLeft(x, claims'),
           x.claim \in {None, runs[r].claim} \/ claims[x.claim].status = "absent"
    PROVE  Inv'
<1>1. /\ runs' = [runs EXCEPT ![r] = x] /\ runs \in [Runs -> Commands] BY DEF Becomes, Inv
<1>2. runs'[r] = x /\ \A q \in Runs : q # r => runs'[q] = runs[q] BY <1>1
<1>3. runs' \in [Runs -> Commands] BY <1>1
<1>4. \A q \in Runs : runs[q].claim # None =>
          runs[q].claim \in ClaimIds /\ claims[runs[q].claim].status # "absent"
  <2> SUFFICES ASSUME NEW q \in Runs, runs[q].claim # None
               PROVE runs[q].claim \in ClaimIds /\ claims[runs[q].claim].status # "absent"
    OBVIOUS
  <2>1. runs[q] \in Commands BY <1>1
  <2>2. runs[q].claim \in ClaimIds \cup {None} BY <2>1, CommandFields
  <2>3. Owns(runs[q], claims) BY DEF Inv
  <2>4. QED BY <2>2, <2>3 DEF Owns
<1>5. ASSUME NEW q \in Runs
      PROVE  /\ CommandOK(runs'[q]) /\ History(runs'[q], rows')
             /\ Owns(runs'[q], claims') /\ LeaseLeft(runs'[q], claims')
  <2>1. CASE q = r BY <1>2, <2>1
  <2>2. CASE q # r
    <3> DEFINE c == runs[q]
    <3>1. /\ runs'[q] = c /\ c \in Commands
          /\ CommandOK(c) /\ History(c, rows) /\ Owns(c, claims) /\ LeaseLeft(c, claims)
      BY <1>1, <1>2, <2>2 DEF Inv
    <3>2. c.claim # None => c.claim \in ClaimIds /\ claims[c.claim].status # "absent" BY <1>4
    <3> HIDE DEF c
    <3>3. History(c, rows') BY <3>1, HistoryKept DEF Inv
    <3>4. Owns(c, claims') BY <3>1, <3>2 DEF Owns, LedgerStep
    <3>5. LeaseLeft(c, claims')
      <4> SUFFICES ASSUME c.phase = "running", ~ c.lost, claims'[c.claim].status = "active"
                   PROVE  claims'[c.claim].expires + c.missed + Due(c) >= TTL
        BY DEF LeaseLeft
      <4>1. c.claim # None BY <3>1 DEF CommandOK
      <4>2. /\ claims[c.claim].status = "active"
            /\ claims'[c.claim].expires >= claims[c.claim].expires
        BY <3>2, <4>1 DEF LedgerStep
      <4>3. claims[c.claim].expires + c.missed + Due(c) >= TTL BY <3>1, <4>2 DEF LeaseLeft
      <4>4. claims[c.claim].expires \in Nat /\ claims'[c.claim].expires \in Nat
        <5>1. c.claim \in ClaimIds BY <3>2, <4>1
        <5>2. claims \in [ClaimIds -> ClaimRow] /\ claims' \in [ClaimIds -> ClaimRow]
          BY DEF Inv, LedgerOK, LedgerTypeOK, LedgerStep
        <5>3. QED BY <5>1, <5>2 DEF ClaimRow
      <4>5. c.missed \in Nat /\ Due(c) \in Nat /\ TTL \in Nat
        BY <3>1, CommandFields DEF Due, TTL
      <4>6. QED BY <4>2, <4>3, <4>4, <4>5
    <3>6. QED BY <3>1, <3>3, <3>4, <3>5
  <2>3. QED BY <2>1, <2>2
<1>6. Distinct'
  <2> SUFFICES ASSUME NEW p \in Runs, NEW q \in Runs, p # q, runs'[p].claim # None
               PROVE  runs'[p].claim # runs'[q].claim
    BY DEF Distinct
  <2>1. CASE p # r /\ q # r BY <1>2, <2>1 DEF Inv, Distinct
  <2>2. CASE p = r
    <3>1. runs'[p].claim = x.claim /\ runs'[q].claim = runs[q].claim BY <1>2, <2>2
    <3>2. CASE x.claim = runs[r].claim BY <2>2, <3>1, <3>2 DEF Inv, Distinct
    <3>3. CASE claims[x.claim].status = "absent"
      <4>1. CASE runs[q].claim = None BY <3>1, <4>1
      <4>2. CASE runs[q].claim # None BY <1>4, <3>1, <3>3, <4>2
      <4>3. QED BY <4>1, <4>2
    <3>4. QED BY <3>1, <3>2, <3>3
  <2>3. CASE q = r
    <3>1. runs'[q].claim = x.claim /\ runs'[p].claim = runs[p].claim BY <1>2, <2>3
    <3>2. CASE x.claim = runs[r].claim BY <2>3, <3>1, <3>2 DEF Inv, Distinct
    <3>3. CASE claims[x.claim].status = "absent" BY <1>4, <3>1, <3>3
    <3>4. QED BY <3>1, <3>2, <3>3
  <2>4. QED BY <2>1, <2>2, <2>3
<1>7. QED BY <1>3, <1>5, <1>6 DEF Inv, LedgerStep, Grows

LEMMA ToIdle ==
    ASSUME Inv, NEW r \in Runs, Becomes(r, Idle), LedgerStep, Grows, faults' \in 0 .. MaxFaults
    PROVE  Inv'
<1>1. CommandOK(Idle) /\ (\A C : Owns(Idle, C)) /\ (\A C : LeaseLeft(Idle, C))
  BY IdleFields, Unclaimed
<1>2. \A R : History(Idle, R) BY IdleFields, NoHistory
<1>3. History(Idle, rows') /\ Owns(Idle, claims') /\ LeaseLeft(Idle, claims') BY <1>1, <1>2
<1>4. Idle \in Commands /\ Idle.claim = None BY IdleFields
<1>5. QED BY <1>1, <1>3, <1>4, RunStep

\* What is known of a process.
LEMMA Known ==
    ASSUME Inv, NEW r \in Runs
    PROVE  /\ runs[r] \in Commands /\ CommandOK(runs[r]) /\ History(runs[r], rows)
           /\ Owns(runs[r], claims) /\ LeaseLeft(runs[r], claims)
           /\ RowsOK /\ LedgerOK /\ faults \in 0 .. MaxFaults
           /\ runs[r].claim # None => runs[r].claim \in ClaimIds
<1>1. runs[r] \in Commands BY DEF Inv
<1>2. runs[r].claim \in ClaimIds \cup {None} BY <1>1, CommandFields
<1>3. QED BY <1>1, <1>2 DEF Inv

\* A step that leaves the claims and the rows alone.
LEMMA QuietStep ==
    ASSUME Inv, NEW r \in Runs, NEW x \in Commands, Becomes(r, x), UNCHANGED ledger,
           rows' = rows, faults' \in 0 .. MaxFaults,
           CommandOK(x), History(x, rows), Owns(x, claims), LeaseLeft(x, claims),
           x.claim \in {None, runs[r].claim}
    PROVE  Inv'
<1>1. LedgerStep /\ Grows BY LedgerStays, RowsStay DEF Inv
<1>2. claims' = claims BY DEF ledger
<1>3. QED BY <1>1, <1>2, RunStep

LEMMA FaultCounts ==
    ASSUME Inv, Fault \/ UNCHANGED faults PROVE faults' \in 0 .. MaxFaults
  BY BoundsAssumption DEF Inv, Fault

-----------------------------------------------------------------------------
\* One lemma for each action.
LEMMA StepPlan ==
    ASSUME Inv, NEW r \in Runs, NEW mode \in Modes, NEW redo \in Named, NEW limit \in Limits,
           Plan(r, mode, redo, limit)
    PROVE  Inv'
<1>1. PICK todo : todo = Offered(mode, redo, {}) OBVIOUS
<1>2. PICK ph \in {"planned", "reopening"} : ph = IF redo = {} THEN "planned" ELSE "reopening"
  OBVIOUS
<1>3. todo \subseteq Works /\ redo \subseteq Works /\ limit \in Nat /\ ph \in Phases
  BY <1>1, NamesAssumption, BoundsAssumption DEF Offered, Phases
<1>4. PICK c \in Commands : c = Idle BY IdleFields
<1>5. PICK x : x = [c EXCEPT !.phase = ph, !.mode = mode, !.reopened = redo, !.left = limit,
                             !.todo = todo]
  OBVIOUS
<1>6. /\ x \in Commands /\ x.phase = ph /\ x.todo = todo /\ x.claim = c.claim
      /\ x.attempted = c.attempted /\ x.batch = c.batch /\ x.queue = c.queue
      /\ x.busy = c.busy /\ x.old = c.old /\ x.new = c.new
  BY <1>3, <1>5 DEF Commands
<1>7. Becomes(r, x) /\ UNCHANGED ledger /\ rows' = rows /\ UNCHANGED faults
  BY <1>1, <1>2, <1>4, <1>5 DEF Plan
<1>8. CommandOK(x) /\ (\A C : Owns(x, C)) /\ (\A C : LeaseLeft(x, C))
  BY <1>4, <1>6, IdleFields, Unclaimed
<1>9. \A R : History(x, R) BY <1>4, <1>6, IdleFields, NoHistory
<1>10. History(x, rows) /\ Owns(x, claims) /\ LeaseLeft(x, claims) /\ x.claim = None
  BY <1>4, <1>6, <1>8, <1>9, IdleFields
<1>11. QED BY <1>6, <1>7, <1>8, <1>10, FaultCounts, QuietStep

LEMMA StepReadOld ==
    ASSUME Inv, NEW r \in Runs, ReadOld(r)
    PROVE  Inv'
<1>1. PICK c \in Commands : c = runs[r] BY Known
<1>2. PICK old : old = [w \in Works |-> IF w \in runs[r].reopened
                                        THEN Decision(w, {runs[r].mode}) ELSE 0]
  OBVIOUS
<1>3. RowsOK /\ CommandOK(c) /\ History(c, rows) BY <1>1, Known
<1>4. \A w \in Works : old[w] \in Nat /\ (old[w] # 0 => ResultOf(rows[w], old[w]))
  <2> SUFFICES ASSUME NEW w \in Works
               PROVE old[w] \in Nat /\ (old[w] # 0 => ResultOf(rows[w], old[w]))
    OBVIOUS
  <2>1. old[w] = Decision(w, {runs[r].mode}) \/ old[w] = 0 BY <1>2
  <2>2. QED BY <1>3, <2>1, DecisionIs DEF ResultOf, IsResult
<1>5. old \in [Works -> Nat] BY <1>2, <1>4
<1>6. PICK x : x = [c EXCEPT !.phase = "planned", !.old = old] OBVIOUS
<1>7. /\ x \in Commands /\ x.phase = "planned" /\ x.todo = c.todo /\ x.claim = c.claim
      /\ x.attempted = c.attempted /\ x.batch = c.batch /\ x.queue = c.queue
      /\ x.busy = c.busy /\ x.old = old /\ x.new = c.new
  BY <1>5, <1>6 DEF Commands, Phases
<1>8. /\ Becomes(r, x) /\ UNCHANGED ledger /\ rows' = rows /\ UNCHANGED faults
      /\ c.phase = "reopening"
  BY <1>1, <1>2, <1>6 DEF ReadOld
<1>9. c.new = NoRows BY <1>3, <1>8 DEF CommandOK
<1>10. CommandOK(x) /\ (\A C : Owns(x, C)) /\ (\A C : LeaseLeft(x, C)) /\ x.claim = None
  <2>1. c.claim = None /\ c.busy = {} BY <1>3, <1>8 DEF CommandOK
  <2>2. c.queue \subseteq c.batch /\ c.todo \cap c.attempted = {}
        /\ c.batch \cap c.attempted = {}
    BY <1>3 DEF CommandOK
  <2>3. QED BY <1>7, <1>9, <2>1, <2>2, Unclaimed
<1>11. History(x, rows) BY <1>4, <1>7, <1>9 DEF History, NoRows
<1>12. Owns(x, claims) /\ LeaseLeft(x, claims) BY <1>10
<1>13. QED BY <1>7, <1>8, <1>10, <1>11, <1>12, FaultCounts, QuietStep

LEMMA StepClaimBatch ==
    ASSUME Inv, NEW r \in Runs, NEW id \in ClaimIds, NEW B \in SUBSET Works,
           ClaimBatch(r, id, B)
    PROVE  Inv'
<1>1. PICK c \in Commands : c = runs[r] BY Known
<1>2. CommandOK(c) /\ History(c, rows) /\ RowsOK /\ LedgerOK BY <1>1, Known
<1>3. /\ c.phase = "planned" /\ B \subseteq c.todo /\ Cardinality(B) <= c.left
      /\ Grant(id, B) /\ UNCHANGED <<rows, faults>>
  BY <1>1 DEF ClaimBatch, Batch
<1>4. /\ LedgerStep /\ claims[id].status = "absent"
      /\ claims'[id].status = "active" /\ claims'[id].tier = Tier
      /\ claims'[id].items = B /\ claims'[id].expires = TTL
  BY <1>2, <1>3, LedgerGrants
<1>5. PICK x : x = [c EXCEPT !.phase = "running", !.batch = B, !.queue = B, !.todo = {},
                             !.claim = id, !.missed = 0]
  OBVIOUS
<1>6. /\ x \in Commands /\ x.phase = "running" /\ x.batch = B /\ x.queue = B /\ x.todo = {}
      /\ x.claim = id /\ x.missed = 0 /\ x.busy = c.busy /\ x.attempted = c.attempted
      /\ x.old = c.old /\ x.new = c.new /\ x.left = c.left
  <2>1. "running" \in Phases /\ 0 \in 0 .. TTL BY DEF Phases, TTL
  <2>2. QED BY <1>5, <2>1 DEF Commands
<1>7. Becomes(r, x) BY <1>1, <1>5 DEF ClaimBatch
<1>8. id # None BY NoneAssumption
<1>9. CommandOK(x) BY <1>2, <1>3, <1>6, <1>8 DEF CommandOK
<1>10. Grows BY <1>2, <1>3, RowsStay
<1>11. History(x, rows') BY <1>2, <1>3, <1>6 DEF History
<1>12. Owns(x, claims') BY <1>4, <1>6 DEF Owns
<1>13. LeaseLeft(x, claims')
  <2>1. TTL \in Nat /\ Due(x) \in Nat BY DEF TTL, Due
  <2>2. QED BY <1>4, <1>6, <2>1 DEF LeaseLeft
<1>14. faults' \in 0 .. MaxFaults BY <1>3, FaultCounts
<1>15. QED BY <1>4, <1>6, <1>7, <1>9, <1>10, <1>11, <1>12, <1>13, <1>14, RunStep

LEMMA StepClaimRefused ==
    ASSUME Inv, NEW r \in Runs, NEW B \in SUBSET Works, ClaimRefused(r, B)
    PROVE  Inv'
<1>1. Becomes(r, Idle) /\ UNCHANGED ledger /\ rows' = rows /\ UNCHANGED faults
  BY DEF ClaimRefused
<1>2. LedgerStep /\ Grows BY <1>1, LedgerStays, RowsStay DEF Inv
<1>3. QED BY <1>1, <1>2, FaultCounts, ToIdle

\* What a running batch keeps as its works are judged.
LEMMA StepInBatch ==
    ASSUME Inv, NEW r \in Runs, NEW x \in Commands, Becomes(r, x), runs[r].phase = "running",
           x.phase = "running", x.claim = runs[r].claim, x.batch = runs[r].batch,
           x.todo = runs[r].todo, x.attempted = runs[r].attempted, x.left = runs[r].left,
           x.old = runs[r].old, x.new = runs[r].new,
           x.due = runs[r].due, x.missed = runs[r].missed, x.lost = runs[r].lost,
           x.queue \subseteq x.batch, x.busy \subseteq x.batch,
           UNCHANGED ledger, Grows, faults' \in 0 .. MaxFaults
    PROVE  Inv'
<1>1. PICK c \in Commands : c = runs[r] BY Known
<1>2. /\ CommandOK(c) /\ History(c, rows) /\ Owns(c, claims) /\ LeaseLeft(c, claims)
      /\ RowsOK /\ LedgerOK
  BY <1>1, Known
<1>3. LedgerStep BY <1>2, LedgerStays
<1>4. claims' = claims BY DEF ledger
<1>5. CommandOK(x) BY <1>1, <1>2 DEF CommandOK
<1>6. History(c, rows') BY <1>2, HistoryKept
<1>7. History(x, rows') BY <1>1, <1>6 DEF History
<1>8. Owns(x, claims') BY <1>1, <1>2, <1>4 DEF Owns
<1>9. LeaseLeft(x, claims') BY <1>1, <1>2, <1>4 DEF LeaseLeft, Due
<1>10. QED BY <1>3, <1>5, <1>7, <1>8, <1>9, RunStep

LEMMA StepAsk ==
    ASSUME Inv, NEW r \in Runs, NEW w \in Works, Ask(r, w)
    PROVE  Inv'
<1>1. PICK c \in Commands : c = runs[r] BY Known
<1>2. CommandOK(c) /\ RowsOK BY <1>1, Known
<1>3. PICK x : x = [c EXCEPT !.queue = c.queue \ {w}, !.busy = c.busy \cup {w}] OBVIOUS
<1>4. /\ x \in Commands /\ x.queue = c.queue \ {w} /\ x.busy = c.busy \cup {w}
      /\ x.phase = c.phase /\ x.claim = c.claim /\ x.batch = c.batch /\ x.todo = c.todo
      /\ x.attempted = c.attempted /\ x.left = c.left /\ x.old = c.old /\ x.new = c.new
      /\ x.due = c.due /\ x.missed = c.missed /\ x.lost = c.lost
  <2>1. c.queue \ {w} \subseteq Works /\ c.busy \cup {w} \subseteq Works BY CommandFields
  <2>2. QED BY <1>3, <2>1 DEF Commands
<1>5. /\ Becomes(r, x) /\ c.phase = "running" /\ w \in c.queue
      /\ UNCHANGED ledger /\ rows' = rows /\ UNCHANGED faults
  BY <1>1, <1>3 DEF Ask
<1>6. x.queue \subseteq x.batch /\ x.busy \subseteq x.batch BY <1>2, <1>4, <1>5 DEF CommandOK
<1>7. Grows BY <1>2, <1>5, RowsStay
<1>8. QED BY <1>1, <1>4, <1>5, <1>6, <1>7, FaultCounts, StepInBatch

LEMMA Appended ==
    ASSUME Inv, NEW r \in Runs, NEW w \in Works, NEW kind \in Kinds, Append1(r, w, kind)
    PROVE  /\ Grows
           /\ kind # "evidence" => ResultOf(rows'[w], Len(rows[w]) + 1)
<1>1. PICK row : row = [mode |-> runs[r].mode, kind |-> kind, by |-> 0] OBVIOUS
<1>2. runs[r].mode \in Modes BY Known, CommandFields
<1>3. row \in Row /\ row.by = 0 /\ row.kind = kind BY <1>1, <1>2 DEF Row
<1>4. rows' = [rows EXCEPT ![w] = Append(@, row)] BY <1>1 DEF Append1
<1>5. RowsOK BY DEF Inv
<1>6. QED BY <1>3, <1>4, <1>5, RowsAppended

LEMMA StepResult ==
    ASSUME Inv, NEW r \in Runs, NEW w \in Works, NEW kind \in {"settled", "api_error"},
           Result(r, w, kind)
    PROVE  Inv'
<1>1. PICK c \in Commands : c = runs[r] BY Known
<1>2. CommandOK(c) /\ RowsOK BY <1>1, Known
<1>3. PICK x : x = [c EXCEPT !.busy = c.busy \ {w}] OBVIOUS
<1>4. /\ x \in Commands /\ x.queue = c.queue /\ x.busy = c.busy \ {w}
      /\ x.phase = c.phase /\ x.claim = c.claim /\ x.batch = c.batch /\ x.todo = c.todo
      /\ x.attempted = c.attempted /\ x.left = c.left /\ x.old = c.old /\ x.new = c.new
      /\ x.due = c.due /\ x.missed = c.missed /\ x.lost = c.lost
  <2>1. c.busy \ {w} \subseteq Works BY CommandFields
  <2>2. QED BY <1>3, <2>1 DEF Commands
<1>5. /\ Becomes(r, x) /\ c.phase = "running" /\ Append1(r, w, kind)
      /\ UNCHANGED ledger /\ UNCHANGED faults
  BY <1>1, <1>3 DEF Result
<1>6. x.queue \subseteq x.batch /\ x.busy \subseteq x.batch BY <1>2, <1>4 DEF CommandOK
<1>7. Grows
  <2>1. kind \in Kinds BY DEF Kinds
  <2>2. QED BY <1>5, <2>1, Appended
<1>8. QED BY <1>1, <1>4, <1>5, <1>6, <1>7, FaultCounts, StepInBatch

LEMMA StepWorkRaises ==
    ASSUME Inv, NEW r \in Runs, NEW w \in Works, WorkRaises(r, w)
    PROVE  Inv'
<1>1. PICK c \in Commands : c = runs[r] BY Known
<1>2. CommandOK(c) /\ RowsOK BY <1>1, Known
<1>3. PICK x : x = [c EXCEPT !.busy = c.busy \ {w}, !.failed = TRUE] OBVIOUS
<1>4. /\ x \in Commands /\ x.queue = c.queue /\ x.busy = c.busy \ {w}
      /\ x.phase = c.phase /\ x.claim = c.claim /\ x.batch = c.batch /\ x.todo = c.todo
      /\ x.attempted = c.attempted /\ x.left = c.left /\ x.old = c.old /\ x.new = c.new
      /\ x.due = c.due /\ x.missed = c.missed /\ x.lost = c.lost
  <2>1. c.busy \ {w} \subseteq Works BY CommandFields
  <2>2. QED BY <1>3, <2>1 DEF Commands
<1>5. /\ Becomes(r, x) /\ c.phase = "running" /\ Fault /\ UNCHANGED ledger
  BY <1>1, <1>3 DEF WorkRaises
<1>6. x.queue \subseteq x.batch /\ x.busy \subseteq x.batch BY <1>2, <1>4 DEF CommandOK
<1>7. Grows
  <2>1. CASE UNCHANGED rows BY <1>2, <2>1, RowsStay
  <2>2. CASE \E kind \in Kinds : Append1(r, w, kind) BY <2>2, Appended
  <2>3. QED BY <2>1, <2>2 DEF WorkRaises
<1>8. faults' \in 0 .. MaxFaults BY <1>5, FaultCounts
<1>9. QED BY <1>1, <1>4, <1>5, <1>6, <1>7, <1>8, StepInBatch

LEMMA StepEndBatch ==
    ASSUME Inv, NEW r \in Runs, EndBatch(r)
    PROVE  Inv'
<1>1. PICK c \in Commands : c = runs[r] BY Known
<1>2. /\ CommandOK(c) /\ History(c, rows) /\ RowsOK /\ LedgerOK
      /\ c.claim # None => c.claim \in ClaimIds
  BY <1>1, Known
<1>3. c.phase = "running" /\ c.busy = {} /\ UNCHANGED <<rows, faults>>
  BY <1>1 DEF EndBatch, BatchOver
<1>4. c.claim \in ClaimIds /\ c.todo = {} /\ Cardinality(c.batch) <= c.left
  BY <1>2, <1>3 DEF CommandOK
<1>5. LedgerStep
  <2>1. CASE Endable(c.claim)
    <3>1. PICK s \in EndStatuses : s = IF runs[r].failed THEN "failed" ELSE "complete"
      BY DEF EndStatuses
    <3>2. EndClaim(c.claim, s) /\ UNCHANGED <<releases, now>>
      BY <1>1, <2>1, <3>1 DEF EndBatch
    <3>3. QED BY <1>2, <1>4, <2>1, <3>2, LedgerEnds
  <2>2. CASE ~ Endable(c.claim)
    <3>1. UNCHANGED ledger BY <1>1, <2>2 DEF EndBatch
    <3>2. QED BY <1>2, <3>1, LedgerStays
  <2>3. QED BY <2>1, <2>2
<1>6. Grows BY <1>2, <1>3, RowsStay
<1>7. faults' \in 0 .. MaxFaults BY <1>3, FaultCounts
<1>8. CASE Becomes(r, Idle) BY <1>5, <1>6, <1>7, <1>8, ToIdle
<1>9. CASE Becomes(r, AfterBatch(r))
  <2> DEFINE n == Cardinality(c.batch)
  <2>1. n \in Nat /\ c.left - n \in Nat
    <3>1. IsFiniteSet(c.batch) BY WorksAssumption, CommandFields, FS_Subset
    <3>2. n \in Nat BY <3>1, FS_CardinalityType
    <3>3. c.left \in Nat BY CommandFields
    <3>4. QED BY <1>4, <3>2, <3>3
  <2>2. PICK left \in Nat : left = c.left - n BY <2>1
  <2>3. PICK ph \in {"reading", "rebuilding"} :
            ph = IF c.lost \/ c.left = n THEN "reading" ELSE "rebuilding"
    OBVIOUS
  <2>4. PICK judged : judged = c.attempted \cup c.batch OBVIOUS
  <2>5. PICK reopened : reopened = c.reopened \ c.batch OBVIOUS
  <2>6. judged \subseteq Works /\ reopened \subseteq Works /\ ph \in Phases /\ 0 \in 0 .. TTL
    BY <2>4, <2>5, CommandFields DEF Phases, TTL
  <2>7. PICK x : x = [c EXCEPT !.attempted = judged, !.reopened = reopened, !.left = left,
                               !.phase = ph, !.batch = {}, !.queue = {}, !.claim = None,
                               !.missed = 0, !.due = FALSE]
    OBVIOUS
  <2>8. /\ x \in Commands /\ x.phase = ph /\ x.attempted = judged /\ x.batch = {}
        /\ x.queue = {} /\ x.claim = None /\ x.todo = c.todo /\ x.busy = c.busy
        /\ x.old = c.old /\ x.new = c.new
    BY <2>6, <2>7 DEF Commands
  <2>9. Becomes(r, x) BY <1>1, <1>9, <2>2, <2>3, <2>4, <2>5, <2>7 DEF AfterBatch
  <2>10. c.new = NoRows BY <1>2, <1>3 DEF CommandOK
  <2>11. CommandOK(x) /\ (\A C : Owns(x, C)) /\ (\A C : LeaseLeft(x, C))
    BY <1>3, <1>4, <2>8, <2>10, Unclaimed
  <2>12. History(x, rows') BY <1>2, <1>3, <2>8 DEF History
  <2>13. Owns(x, claims') /\ LeaseLeft(x, claims') BY <2>11
  <2>14. QED BY <1>5, <1>6, <1>7, <2>8, <2>9, <2>11, <2>12, <2>13, RunStep
<1>10. QED BY <1>8, <1>9 DEF EndBatch

LEMMA StepRebuild ==
    ASSUME Inv, NEW r \in Runs, Rebuild(r)
    PROVE  Inv'
<1>1. PICK c \in Commands : c = runs[r] BY Known
<1>2. CommandOK(c) /\ History(c, rows) BY <1>1, Known
<1>3. PICK todo : todo = Offered(c.mode, c.reopened, c.attempted) OBVIOUS
<1>4. todo \subseteq Works /\ todo \cap c.attempted = {} BY <1>3 DEF Offered
<1>5. PICK ph \in {"reading", "planned"} : ph = IF todo = {} THEN "reading" ELSE "planned"
  OBVIOUS
<1>6. PICK x : x = [c EXCEPT !.todo = todo, !.phase = ph] OBVIOUS
<1>7. /\ x \in Commands /\ x.phase = ph /\ x.todo = todo /\ x.claim = c.claim
      /\ x.attempted = c.attempted /\ x.batch = c.batch /\ x.queue = c.queue
      /\ x.busy = c.busy /\ x.old = c.old /\ x.new = c.new
  <2>1. ph \in Phases BY DEF Phases
  <2>2. QED BY <1>4, <1>6, <2>1 DEF Commands
<1>8. /\ Becomes(r, x) /\ UNCHANGED ledger /\ rows' = rows /\ UNCHANGED faults
      /\ c.phase = "rebuilding"
  BY <1>1, <1>3, <1>5, <1>6 DEF Rebuild
<1>9. /\ c.claim = None /\ c.busy = {} /\ c.new = NoRows
      /\ c.queue \subseteq c.batch /\ c.batch \cap c.attempted = {}
  BY <1>2, <1>8 DEF CommandOK
<1>10. CommandOK(x) /\ (\A C : Owns(x, C)) /\ (\A C : LeaseLeft(x, C))
  BY <1>4, <1>7, <1>9, Unclaimed
<1>11. History(x, rows) BY <1>2, <1>7 DEF History
<1>12. Owns(x, claims) /\ LeaseLeft(x, claims) BY <1>10
<1>13. QED BY <1>7, <1>8, <1>9, <1>10, <1>11, <1>12, FaultCounts, QuietStep

\* The row that decides now is the work's last, and later than the one read before.
LEMMA StepReadCurrent ==
    ASSUME Inv, NEW r \in Runs, ReadCurrent(r)
    PROVE  Inv'
<1> DEFINE replaced == {w \in Works : runs[r].old[w] # 0
                                      /\ Decision(w, Modes) \notin {0, runs[r].old[w]}}
<1>1. PICK c \in Commands : c = runs[r] BY Known
<1>2. CommandOK(c) /\ History(c, rows) /\ RowsOK BY <1>1, Known
<1>3. UNCHANGED ledger /\ rows' = rows /\ UNCHANGED faults BY DEF ReadCurrent
<1>4. CASE Becomes(r, Idle)
  <2>1. LedgerStep /\ Grows BY <1>3, LedgerStays, RowsStay DEF Inv
  <2>2. QED BY <1>3, <1>4, <2>1, FaultCounts, ToIdle
<1>5. CASE ~ Becomes(r, Idle)
  <2>1. PICK old : old = [w \in Works |-> IF w \in replaced THEN c.old[w] ELSE 0] OBVIOUS
  <2>2. PICK new : new = [w \in Works |-> IF w \in replaced THEN Decision(w, Modes) ELSE 0]
    OBVIOUS
  <2>3. ASSUME NEW w \in Works
        PROVE  /\ old[w] \in Nat /\ new[w] \in Nat
               /\ old[w] # 0 => ResultOf(rows[w], old[w])
               /\ new[w] # 0 => old[w] # 0 /\ old[w] < new[w] /\ ResultOf(rows[w], new[w])
    <3>1. CASE w \in replaced
      <4> DEFINE d == Decision(w, Modes)
      <4>1. old[w] = c.old[w] /\ new[w] = d /\ c.old[w] # 0 /\ d # 0 /\ d # c.old[w]
        BY <1>1, <2>1, <2>2, <3>1
      <4>2. ResultOf(rows[w], c.old[w]) BY <1>2, <4>1 DEF History
      <4>3. ResultOf(rows[w], d) /\ d \in Nat
        BY <1>2, <4>1, DecisionIs DEF ResultOf, IsResult
      <4>4. d = Len(rows[w]) /\ Len(rows[w]) \in Nat BY <1>2, <4>1, DecisionIsLast, RowFields
      <4> HIDE DEF d
      <4>5. c.old[w] \in 1 .. d BY <4>2, <4>4 DEF ResultOf
      <4>6. c.old[w] \in Nat /\ c.old[w] < d BY <4>1, <4>3, <4>5
      <4>7. QED BY <4>1, <4>2, <4>3, <4>6
    <3>2. CASE w \notin replaced
      <4>1. old[w] = 0 /\ new[w] = 0 BY <2>1, <2>2, <3>2
      <4>2. QED BY <4>1
    <3>3. QED BY <3>1, <3>2
  <2>4. old \in [Works -> Nat] /\ new \in [Works -> Nat] BY <2>1, <2>2, <2>3
  <2>5. PICK i \in Commands : i = Idle BY IdleFields
  <2>6. PICK x : x = [i EXCEPT !.phase = "superseding", !.mode = c.mode, !.old = old,
                               !.new = new]
    OBVIOUS
  <2>7. /\ x \in Commands /\ x.phase = "superseding" /\ x.todo = i.todo /\ x.claim = i.claim
        /\ x.attempted = i.attempted /\ x.batch = i.batch /\ x.queue = i.queue
        /\ x.busy = i.busy /\ x.old = old /\ x.new = new
    <3>1. c.mode \in Modes /\ "superseding" \in Phases BY CommandFields DEF Phases
    <3>2. QED BY <2>4, <2>6, <3>1 DEF Commands
  <2>8. Becomes(r, x) BY <1>1, <1>5, <2>1, <2>2, <2>5, <2>6 DEF ReadCurrent
  <2>9. CommandOK(x) /\ (\A C : Owns(x, C)) /\ (\A C : LeaseLeft(x, C)) /\ x.claim = None
    BY <2>5, <2>7, IdleFields, Unclaimed
  <2>10. History(x, rows) BY <2>3, <2>7 DEF History
  <2>11. Owns(x, claims) /\ LeaseLeft(x, claims) BY <2>9
  <2>12. QED BY <1>3, <2>7, <2>8, <2>9, <2>10, <2>11, FaultCounts, QuietStep
<1>6. QED BY <1>4, <1>5

LEMMA StepSupersede ==
    ASSUME Inv, NEW r \in Runs, NEW w \in Works, Supersede(r, w)
    PROVE  Inv'
<1>1. PICK c \in Commands : c = runs[r] BY Known
<1>2. /\ CommandOK(c) /\ History(c, rows) /\ Owns(c, claims) /\ RowsOK /\ LedgerOK
  BY <1>1, Known
<1>3. /\ c.phase \in {"superseding", "correcting"} /\ c.new[w] # 0
      /\ rows' = [rows EXCEPT ![w][c.old[w]].by = c.new[w]]
      /\ UNCHANGED ledger /\ UNCHANGED faults
  BY <1>1 DEF Supersede
<1>4. /\ ResultOf(rows[w], c.old[w]) /\ ResultOf(rows[w], c.new[w]) /\ c.old[w] < c.new[w]
  BY <1>2, <1>3 DEF History
<1>5. Grows
  <2>1. PICK i : i = c.old[w] OBVIOUS
  <2>2. PICK j : j = c.new[w] OBVIOUS
  <2>3. rows' = [rows EXCEPT ![w][i].by = j] /\ ResultOf(rows[w], i) /\ ResultOf(rows[w], j)
        /\ i < j
    BY <1>3, <1>4, <2>1, <2>2
  <2>4. QED BY <1>2, <2>3, RowsPointed
<1>6. LedgerStep /\ claims' = claims BY <1>2, <1>3, LedgerStays DEF ledger
<1>7. faults' \in 0 .. MaxFaults BY <1>3, FaultCounts
<1>8. CASE Becomes(r, Idle) BY <1>5, <1>6, <1>7, <1>8, ToIdle
<1>9. CASE ~ Becomes(r, Idle)
  <2>1. PICK old : old = [c.old EXCEPT ![w] = 0] OBVIOUS
  <2>2. PICK new : new = [c.new EXCEPT ![w] = 0] OBVIOUS
  <2>3. /\ old \in [Works -> Nat] /\ new \in [Works -> Nat] /\ old[w] = 0 /\ new[w] = 0
        /\ \A v \in Works : v # w => old[v] = c.old[v] /\ new[v] = c.new[v]
    <3>1. c.old \in [Works -> Nat] /\ c.new \in [Works -> Nat] BY CommandFields
    <3>2. QED BY <2>1, <2>2, <3>1
  <2>4. PICK x : x = [c EXCEPT !.old = old, !.new = new] OBVIOUS
  <2>5. /\ x \in Commands /\ x.phase = c.phase /\ x.todo = c.todo /\ x.claim = c.claim
        /\ x.attempted = c.attempted /\ x.batch = c.batch /\ x.queue = c.queue
        /\ x.busy = c.busy /\ x.old = old /\ x.new = new
    BY <2>3, <2>4 DEF Commands
  <2>6. Becomes(r, x)
    <3>1. x = [runs[r] EXCEPT !.old = [@ EXCEPT ![w] = 0], !.new = [@ EXCEPT ![w] = 0]]
      BY <1>1, <2>1, <2>2, <2>4 DEF Commands
    <3>2. QED BY <1>9, <3>1 DEF Supersede
  <2>7. \A v \in Works : old[v] # 0 => c.old[v] # 0 BY <2>3
  <2>8. CommandOK(x) BY <1>2, <1>3, <2>5, <2>7 DEF CommandOK
  <2>9. History(c, rows') BY <1>2, <1>5, HistoryKept
  <2>10. History(x, rows') BY <2>3, <2>5, <2>9 DEF History
  <2>11. Owns(x, claims') BY <1>2, <1>6, <2>5 DEF Owns
  <2>12. LeaseLeft(x, claims') BY <1>3, <2>5 DEF LeaseLeft
  <2>13. x.claim = runs[r].claim BY <1>1, <2>5
  <2>14. QED BY <1>5, <1>6, <1>7, <2>5, <2>6, <2>8, <2>10, <2>11, <2>12, <2>13, RunStep
<1>10. QED BY <1>8, <1>9

LEMMA StepPlanCorrection ==
    ASSUME Inv, NEW r \in Runs, NEW mode \in Modes, NEW patched \in Patched,
           PlanCorrection(r, mode, patched)
    PROVE  Inv'
<1>1. PICK located : located = {w \in patched : LatestResult(w, mode) # 0} OBVIOUS
<1>2. PICK old : old = [w \in Works |-> IF w \in located THEN LatestResult(w, mode) ELSE 0]
  OBVIOUS
<1>3. located \subseteq Works BY <1>1, NamesAssumption
<1>4. RowsOK BY DEF Inv
<1>5. ASSUME NEW w \in Works
      PROVE  /\ old[w] \in Nat /\ (old[w] # 0 => ResultOf(rows[w], old[w]))
             /\ old[w] # 0 => w \in located
  <2>1. old[w] = LatestResult(w, mode) \/ old[w] = 0 BY <1>2
  <2>2. old[w] \in Nat /\ (old[w] # 0 => ResultOf(rows[w], old[w]))
    BY <1>4, <2>1, LatestResultIs DEF ResultOf, IsResult
  <2>3. old[w] # 0 => w \in located BY <1>2
  <2>4. QED BY <2>2, <2>3
<1>6. old \in [Works -> Nat] BY <1>2, <1>5
<1>7. PICK i \in Commands : i = Idle BY IdleFields
<1>8. PICK x : x = [i EXCEPT !.phase = "patching", !.mode = mode, !.batch = located,
                             !.old = old]
  OBVIOUS
<1>9. /\ x \in Commands /\ x.phase = "patching" /\ x.todo = i.todo /\ x.claim = i.claim
      /\ x.attempted = i.attempted /\ x.batch = located /\ x.queue = i.queue
      /\ x.busy = i.busy /\ x.old = old /\ x.new = i.new
  BY <1>3, <1>6, <1>8 DEF Commands, Phases
<1>10. Becomes(r, x) /\ UNCHANGED ledger /\ rows' = rows /\ UNCHANGED faults
  BY <1>1, <1>2, <1>7, <1>8 DEF PlanCorrection
<1>11. CommandOK(x) BY <1>5, <1>7, <1>9, IdleFields DEF CommandOK
<1>12. History(x, rows) BY <1>5, <1>7, <1>9, IdleFields DEF History, NoRows
<1>13. x.claim = None BY <1>7, <1>9, IdleFields
<1>14. Owns(x, claims) /\ LeaseLeft(x, claims) BY <1>9, <1>13 DEF Owns, LeaseLeft
<1>15. QED BY <1>9, <1>10, <1>11, <1>12, <1>13, <1>14, FaultCounts, QuietStep

LEMMA StepClaimCorrection ==
    ASSUME Inv, NEW r \in Runs, NEW id \in ClaimIds, ClaimCorrection(r, id)
    PROVE  Inv'
<1>1. PICK c \in Commands : c = runs[r] BY Known
<1>2. CommandOK(c) /\ History(c, rows) /\ RowsOK /\ LedgerOK BY <1>1, Known
<1>3. c.phase = "patching" /\ Grant(id, c.batch) /\ UNCHANGED <<rows, faults>>
  BY <1>1 DEF ClaimCorrection
<1>4. c.batch \subseteq Works BY CommandFields
<1>5. /\ LedgerStep /\ claims[id].status = "absent"
      /\ claims'[id].status = "active" /\ claims'[id].tier = Tier
      /\ claims'[id].items = c.batch
  BY <1>2, <1>3, <1>4, LedgerGrants
<1>6. PICK x : x = [c EXCEPT !.phase = "correcting", !.claim = id] OBVIOUS
<1>7. /\ x \in Commands /\ x.phase = "correcting" /\ x.todo = c.todo /\ x.claim = id
      /\ x.attempted = c.attempted /\ x.batch = c.batch /\ x.queue = c.queue
      /\ x.busy = c.busy /\ x.old = c.old /\ x.new = c.new
  BY <1>6 DEF Commands, Phases
<1>8. Becomes(r, x) BY <1>1, <1>6 DEF ClaimCorrection
<1>9. id # None BY NoneAssumption
<1>10. CommandOK(x) BY <1>2, <1>3, <1>7, <1>9 DEF CommandOK
<1>11. Grows BY <1>2, <1>3, RowsStay
<1>12. History(x, rows') BY <1>2, <1>3, <1>7 DEF History
<1>13. Owns(x, claims') /\ LeaseLeft(x, claims') BY <1>5, <1>7 DEF Owns, LeaseLeft
<1>14. faults' \in 0 .. MaxFaults BY <1>3, FaultCounts
<1>15. QED BY <1>5, <1>7, <1>8, <1>10, <1>11, <1>12, <1>13, <1>14, RunStep

\* The copy is later than what it copies, and a result as that is.
LEMMA StepCopyRow ==
    ASSUME Inv, NEW r \in Runs, NEW w \in Works, CopyRow(r, w)
    PROVE  Inv'
<1>1. PICK c \in Commands : c = runs[r] BY Known
<1>2. /\ CommandOK(c) /\ History(c, rows) /\ Owns(c, claims) /\ RowsOK /\ LedgerOK
  BY <1>1, Known
<1>3. /\ c.phase = "correcting" /\ c.old[w] # 0 /\ c.new = NoRows
      /\ Append1(r, w, rows[w][c.old[w]].kind) /\ UNCHANGED ledger /\ UNCHANGED faults
  BY <1>1 DEF CopyRow
<1>4. PICK n : n = Len(rows[w]) + 1 OBVIOUS
<1>5. Len(rows[w]) \in Nat /\ n \in Nat BY <1>2, <1>4, RowFields
<1>6. ResultOf(rows[w], c.old[w]) BY <1>2, <1>3 DEF History
<1>7. c.old[w] \in Nat /\ c.old[w] < n
  <2>1. c.old[w] \in 1 .. Len(rows[w]) BY <1>6 DEF ResultOf
  <2>2. QED BY <1>4, <1>5, <2>1
<1>8. Grows /\ ResultOf(rows'[w], n)
  <2>1. PICK kind : kind = rows[w][c.old[w]].kind OBVIOUS
  <2>2. kind # "evidence" /\ c.old[w] \in 1 .. Len(rows[w]) BY <1>6, <2>1 DEF ResultOf
  <2>3. kind \in Kinds BY <1>2, <2>1, <2>2, RowFields
  <2>4. Append1(r, w, kind) BY <1>3, <2>1
  <2>5. QED BY <1>4, <2>2, <2>3, <2>4, Appended
<1>9. PICK new : new = [c.new EXCEPT ![w] = n] OBVIOUS
<1>10. /\ new \in [Works -> Nat] /\ new[w] = n
       /\ \A v \in Works : v # w => new[v] = 0
  <2>1. c.new \in [Works -> Nat] BY CommandFields
  <2>2. \A v \in Works : c.new[v] = 0 BY <1>3 DEF NoRows
  <2>3. QED BY <1>5, <1>9, <2>1, <2>2
<1>11. PICK x : x = [c EXCEPT !.new = new] OBVIOUS
<1>12. /\ x \in Commands /\ x.phase = c.phase /\ x.todo = c.todo /\ x.claim = c.claim
       /\ x.attempted = c.attempted /\ x.batch = c.batch /\ x.queue = c.queue
       /\ x.busy = c.busy /\ x.old = c.old /\ x.new = new
  BY <1>10, <1>11 DEF Commands
<1>13. Becomes(r, x)
  <2>1. x = [runs[r] EXCEPT !.new = [@ EXCEPT ![w] = n]] BY <1>1, <1>9, <1>11 DEF Commands
  <2>2. QED BY <1>4, <2>1 DEF CopyRow
<1>14. LedgerStep /\ claims' = claims BY <1>2, <1>3, LedgerStays DEF ledger
<1>15. CommandOK(x) BY <1>2, <1>3, <1>12 DEF CommandOK
<1>16. History(c, rows') BY <1>2, <1>8, HistoryKept
<1>17. History(x, rows') BY <1>3, <1>7, <1>8, <1>10, <1>12, <1>16 DEF History
<1>18. Owns(x, claims') BY <1>2, <1>12, <1>14 DEF Owns
<1>19. LeaseLeft(x, claims') BY <1>3, <1>12 DEF LeaseLeft
<1>20. faults' \in 0 .. MaxFaults /\ x.claim = runs[r].claim BY <1>1, <1>3, <1>12, FaultCounts
<1>21. QED BY <1>8, <1>12, <1>13, <1>14, <1>15, <1>17, <1>18, <1>19, <1>20, RunStep

LEMMA StepEndCorrection ==
    ASSUME Inv, NEW r \in Runs, EndCorrection(r)
    PROVE  Inv'
<1>1. PICK c \in Commands : c = runs[r] BY Known
<1>2. CommandOK(c) /\ RowsOK /\ LedgerOK /\ (c.claim # None => c.claim \in ClaimIds)
  BY <1>1, Known
<1>3. c.phase = "correcting" /\ Becomes(r, Idle) /\ rows' = rows
  BY <1>1 DEF EndCorrection
<1>4. faults' \in 0 .. MaxFaults
  <2>1. Fault \/ UNCHANGED faults BY DEF EndCorrection
  <2>2. QED BY <2>1, FaultCounts
<1>5. c.claim \in ClaimIds BY <1>2, <1>3 DEF CommandOK
<1>6. LedgerStep
  <2>1. CASE Endable(c.claim)
    <3>1. EndClaim(c.claim, "complete") /\ UNCHANGED <<releases, now>>
      BY <1>1, <2>1 DEF EndCorrection
    <3>2. "complete" \in EndStatuses BY DEF EndStatuses
    <3>3. QED BY <1>2, <1>5, <2>1, <3>1, <3>2, LedgerEnds
  <2>2. CASE ~ Endable(c.claim)
    <3>1. UNCHANGED ledger BY <1>1, <2>2 DEF EndCorrection
    <3>2. QED BY <1>2, <3>1, LedgerStays
  <2>3. QED BY <2>1, <2>2
<1>7. Grows BY <1>2, <1>3, RowsStay
<1>8. QED BY <1>3, <1>4, <1>6, <1>7, ToIdle

\* The heartbeat writes three fields and leaves the others alone.
Beaten(c, missed, lost) == [c EXCEPT !.due = FALSE, !.missed = missed, !.lost = lost]

Beats(c, x, missed, lost) ==
    /\ x \in Commands /\ x.phase = c.phase /\ x.todo = c.todo /\ x.claim = c.claim
    /\ x.attempted = c.attempted /\ x.batch = c.batch /\ x.queue = c.queue
    /\ x.busy = c.busy /\ x.old = c.old /\ x.new = c.new /\ x.left = c.left
    /\ x.due = FALSE /\ x.missed = missed /\ x.lost = lost

LEMMA BeatenKeeps ==
    ASSUME NEW c \in Commands, NEW missed \in 0 .. TTL, NEW lost \in BOOLEAN
    PROVE  Beats(c, Beaten(c, missed, lost), missed, lost)
<1>1. PICK u : u = [c EXCEPT !.due = FALSE] OBVIOUS
<1>2. PICK v : v = [u EXCEPT !.missed = missed] OBVIOUS
<1>3. PICK y : y = [v EXCEPT !.lost = lost] OBVIOUS
<1>4. u \in Commands BY <1>1 DEF Commands
<1>5. v \in Commands BY <1>2, <1>4 DEF Commands
<1>6. y \in Commands BY <1>3, <1>5 DEF Commands
<1>7. Beaten(c, missed, lost) = y BY <1>1, <1>2, <1>3 DEF Beaten
<1>8. /\ y.phase = c.phase /\ y.todo = c.todo /\ y.claim = c.claim
      /\ y.attempted = c.attempted /\ y.batch = c.batch
  BY <1>1, <1>2, <1>3 DEF Commands
<1>9. /\ y.queue = c.queue /\ y.busy = c.busy /\ y.old = c.old /\ y.new = c.new
      /\ y.left = c.left
  BY <1>1, <1>2, <1>3 DEF Commands
<1>10. y.lost = lost BY <1>3, <1>5 DEF Commands
<1>11. y.missed = missed /\ y.due = FALSE BY <1>1, <1>2, <1>3 DEF Commands
<1>12. Beats(c, y, missed, lost) BY <1>6, <1>8, <1>9, <1>10, <1>11 DEF Beats
<1>13. QED BY <1>7, <1>12

\* The heartbeat's steps.
LEMMA StepBeat ==
    ASSUME Inv, NEW r \in Runs, NEW missed \in 0 .. TTL, NEW lost \in BOOLEAN, NEW x,
           x = Beaten(runs[r], missed, lost),
           Beating(r), Becomes(r, x), LedgerStep, rows' = rows, faults' \in 0 .. MaxFaults,
           lost \/ claims'[runs[r].claim].status # "active"
                \/ claims'[runs[r].claim].expires + missed >= TTL
    PROVE  Inv'
<1>1. PICK c \in Commands : c = runs[r] BY Known
<1>2. /\ CommandOK(c) /\ History(c, rows) /\ Owns(c, claims) /\ RowsOK
      /\ c.claim # None => c.claim \in ClaimIds
  BY <1>1, Known
<1>3. x = Beaten(c, missed, lost) BY <1>1
<1>4. /\ x \in Commands /\ x.phase = c.phase /\ x.todo = c.todo /\ x.claim = c.claim
      /\ x.attempted = c.attempted /\ x.batch = c.batch /\ x.queue = c.queue
      /\ x.busy = c.busy /\ x.old = c.old /\ x.new = c.new /\ x.left = c.left
      /\ x.due = FALSE /\ x.missed = missed /\ x.lost = lost
  <2>1. Beats(c, Beaten(c, missed, lost), missed, lost) BY BeatenKeeps, Zenon
  <2>2. Beats(c, x, missed, lost) BY <1>3, <2>1, Zenon
  <2>3. QED BY <2>2, Zenon DEF Beats
<1>5. c.phase = "running" BY <1>1 DEF Beating
<1>6. c.claim # None /\ c.claim \in ClaimIds BY <1>2, <1>5 DEF CommandOK
<1>7. CommandOK(x) BY <1>2, <1>4 DEF CommandOK
<1>8. Grows BY <1>2, RowsStay
<1>9. History(x, rows') BY <1>2, <1>4 DEF History
<1>10. Owns(x, claims') BY <1>2, <1>4, <1>6 DEF Owns, LedgerStep
<1>11. LeaseLeft(x, claims')
  <2> SUFFICES ASSUME ~ x.lost, claims'[x.claim].status = "active"
               PROVE  claims'[x.claim].expires + x.missed + Due(x) >= TTL
    BY DEF LeaseLeft
  <2>1. claims'[c.claim].expires + missed >= TTL BY <1>1, <1>4
  <2>2. Due(x) = 0 BY <1>4 DEF Due
  <2>3. claims'[c.claim].expires \in Nat
    <3>1. claims' \in [ClaimIds -> ClaimRow] BY DEF LedgerStep, LedgerOK, LedgerTypeOK
    <3>2. QED BY <1>6, <3>1 DEF ClaimRow
  <2>4. PICK e \in Nat : e = claims'[c.claim].expires BY <2>3
  <2>5. QED BY <1>4, <2>1, <2>2, <2>4 DEF TTL
<1>12. x.claim = runs[r].claim BY <1>1, <1>4
<1>13. QED BY <1>4, <1>7, <1>8, <1>9, <1>10, <1>11, <1>12, RunStep

LEMMA StepHeartbeat ==
    ASSUME Inv, NEW r \in Runs, Renew(r) \/ RenewFails(r) \/ RenewLost(r)
    PROVE  Inv'
<1>1. PICK c \in Commands : c = runs[r] BY Known
<1>2. /\ CommandOK(c) /\ LeaseLeft(c, claims) /\ LedgerOK /\ Beating(r)
      /\ c.claim # None => c.claim \in ClaimIds
  BY <1>1, Known DEF Renew, RenewFails, RenewLost
<1>3. c.phase = "running" /\ c.due BY <1>1, <1>2 DEF Beating
<1>4. c.claim \in ClaimIds BY <1>2, <1>3 DEF CommandOK
<1>5. c.missed \in 0 .. TTL /\ c.lost \in BOOLEAN /\ 0 \in 0 .. TTL /\ TTL \in Nat
  BY CommandFields DEF TTL
<1>6. claims[c.claim].expires \in Nat BY <1>2, <1>4, ClaimFields DEF LedgerOK
<1>7. CASE Renew(r)
  <2>1. LedgerStep /\ claims'[c.claim].expires >= TTL
    BY <1>1, <1>2, <1>4, <1>7, LedgerRenews DEF Renew
  <2>2. PICK x : x = Beaten(c, 0, c.lost) OBVIOUS
  <2>3. Becomes(r, x) /\ rows' = rows /\ UNCHANGED faults
    <3>1. x = [c EXCEPT !.due = FALSE, !.missed = 0] BY <2>2 DEF Beaten, Commands
    <3>2. QED BY <1>1, <1>7, <3>1 DEF Renew
  <2>4. claims'[c.claim].expires + 0 >= TTL
    <3>1. claims' \in [ClaimIds -> ClaimRow] BY <2>1 DEF LedgerStep, LedgerOK, LedgerTypeOK
    <3>2. PICK e \in Nat : e = claims'[c.claim].expires BY <1>4, <3>1 DEF ClaimRow
    <3>3. QED BY <1>5, <2>1, <3>2
  <2>5. QED BY <1>1, <1>2, <1>5, <2>1, <2>2, <2>3, <2>4, FaultCounts, StepBeat
<1>8. CASE RenewFails(r)
  <2>1. PICK m : m = IF c.missed < TTL THEN c.missed + 1 ELSE TTL OBVIOUS
  <2>2. m \in 0 .. TTL /\ (m = c.missed + 1 \/ m = TTL) BY <1>5, <2>1
  <2>3. PICK x : x = Beaten(c, m, c.lost) OBVIOUS
  <2>4. Becomes(r, x) /\ rows' = rows /\ UNCHANGED ledger
    <3>1. x = [c EXCEPT !.due = FALSE, !.missed = IF @ < TTL THEN @ + 1 ELSE TTL]
      BY <2>1, <2>3 DEF Beaten, Commands
    <3>2. QED BY <1>1, <1>8, <3>1 DEF RenewFails
  <2>5. LedgerStep /\ claims' = claims BY <1>2, <2>4, LedgerStays DEF ledger
  <2>6. c.lost \/ claims'[c.claim].status # "active" \/ claims'[c.claim].expires + m >= TTL
    <3> SUFFICES ASSUME ~ c.lost, claims[c.claim].status = "active"
                 PROVE  claims[c.claim].expires + m >= TTL
      BY <2>5
    <3>1. claims[c.claim].expires + c.missed + 1 >= TTL
      <4>1. Due(c) = 1 BY <1>3 DEF Due
      <4>2. QED BY <1>2, <1>3, <4>1 DEF LeaseLeft
    <3>2. PICK e \in Nat : e = claims[c.claim].expires BY <1>6
    <3>3. QED BY <1>5, <2>2, <3>1, <3>2
  <2>7. faults' \in 0 .. MaxFaults
    <3>1. Fault \/ UNCHANGED faults BY <1>8 DEF RenewFails
    <3>2. QED BY <3>1, FaultCounts
  <2>8. QED BY <1>1, <1>2, <1>5, <2>2, <2>3, <2>4, <2>5, <2>6, <2>7, StepBeat
<1>9. CASE RenewLost(r)
  <2>1. PICK x : x = Beaten(c, c.missed, TRUE) OBVIOUS
  <2>2. Becomes(r, x) /\ rows' = rows /\ UNCHANGED ledger /\ UNCHANGED faults
    <3>1. x = [c EXCEPT !.due = FALSE, !.lost = TRUE] BY <2>1 DEF Beaten, Commands
    <3>2. QED BY <1>1, <1>9, <3>1 DEF RenewLost
  <2>3. LedgerStep BY <1>2, <2>2, LedgerStays
  <2>4. QED BY <1>1, <1>2, <1>5, <2>1, <2>2, <2>3, FaultCounts, StepBeat
<1>10. QED BY <1>7, <1>8, <1>9

\* A tick brings every lease nearer its end, and every heartbeat its turn.
LEMMA StepTick ==
    ASSUME Inv, Tick
    PROVE  Inv'
<1>1. /\ claims' = [id \in ClaimIds |->
                      [claims[id] EXCEPT !.expires = IF @ > 0 THEN @ - 1 ELSE 0]]
      /\ UNCHANGED <<releases, now, rows, faults>>
      /\ \A r \in Runs : ~ Beating(r)
  BY DEF Tick
<1>2. runs' = [r \in Runs |->
                 [runs[r] EXCEPT !.due = runs[r].phase = "running" /\ ~runs[r].lost]]
  BY DEF Tick
<1>3. ASSUME NEW id \in ClaimIds
      PROVE  /\ claims'[id] \in ClaimRow /\ claims'[id].status = claims[id].status
             /\ claims'[id].items = claims[id].items /\ claims'[id].tier = claims[id].tier
             /\ claims[id].expires \in Nat /\ claims'[id].expires \in Nat
             /\ claims'[id].expires <= claims[id].expires
             /\ claims[id].expires <= claims'[id].expires + 1
  <2>1. PICK k \in ClaimRow : k = claims[id] BY ClaimFields DEF Inv, LedgerOK
  <2>2. PICK e : e = IF k.expires > 0 THEN k.expires - 1 ELSE 0 OBVIOUS
  <2>3. k.expires \in Nat BY DEF ClaimRow
  <2>4. e \in Nat /\ e <= k.expires /\ k.expires <= e + 1 BY <2>2, <2>3
  <2>5. claims'[id] = [k EXCEPT !.expires = e] BY <1>1, <2>1, <2>2 DEF ClaimRow
  <2>6. QED BY <2>1, <2>3, <2>4, <2>5 DEF ClaimRow
<1>4. LedgerOK'
  <2>1. claims' \in [ClaimIds -> ClaimRow] BY <1>1, <1>3
  <2>2. LedgerTypeOK' /\ now' = 0 BY <1>1, <2>1 DEF Inv, LedgerOK, LedgerTypeOK
  <2>3. \A id \in ClaimIds : Live(id, now)' => Live(id, now)
    <3> SUFFICES ASSUME NEW id \in ClaimIds, Live(id, now)' PROVE Live(id, now) OBVIOUS
    <3>1. now = 0 /\ now' = 0 BY <1>1, <2>2
    <3>2. claims'[id].status = "active" /\ claims'[id].expires > 0 BY <3>1 DEF Live
    <3>3. claims[id].expires > 0 BY <1>3, <3>2
    <3>4. QED BY <1>3, <3>1, <3>2, <3>3 DEF Live
  <2>4. Exclusive' BY <1>3, <2>3 DEF Inv, LedgerOK, Exclusive
  <2>5. QED BY <2>2, <2>4 DEF LedgerOK
<1>5. RowsOK' BY <1>1 DEF Inv, RowsOK, PointsOn, IsResult
<1>6. ASSUME NEW r \in Runs
      PROVE  /\ runs'[r] \in Commands /\ runs'[r].claim = runs[r].claim
             /\ CommandOK(runs'[r]) /\ History(runs'[r], rows')
             /\ Owns(runs'[r], claims') /\ LeaseLeft(runs'[r], claims')
  <2>1. PICK c \in Commands : c = runs[r] BY Known
  <2>2. /\ CommandOK(c) /\ History(c, rows) /\ Owns(c, claims) /\ LeaseLeft(c, claims)
        /\ c.claim # None => c.claim \in ClaimIds
    BY <2>1, Known
  <2>3. PICK due \in BOOLEAN : due = (c.phase = "running" /\ ~ c.lost) OBVIOUS
  <2>4. PICK x : x = [c EXCEPT !.due = due] OBVIOUS
  <2>5. runs'[r] = x
    <3>1. runs'[r] = [runs[r] EXCEPT !.due = (runs[r].phase = "running" /\ ~ runs[r].lost)]
      BY <1>2, Zenon
    <3>2. QED BY <2>1, <2>3, <2>4, <3>1, Zenon
  <2>6. /\ x \in Commands /\ x.phase = c.phase /\ x.todo = c.todo /\ x.claim = c.claim
        /\ x.attempted = c.attempted /\ x.batch = c.batch /\ x.queue = c.queue
        /\ x.busy = c.busy /\ x.old = c.old /\ x.new = c.new /\ x.left = c.left
        /\ x.missed = c.missed /\ x.lost = c.lost /\ x.due = due
    BY <2>4 DEF Commands
  <2>7. CommandOK(x) BY <2>2, <2>6 DEF CommandOK
  <2>8. History(x, rows') BY <1>1, <2>2, <2>6 DEF History
  <2>9. Owns(x, claims') BY <1>3, <2>2, <2>6 DEF Owns
  <2>10. LeaseLeft(x, claims')
    <3> SUFFICES ASSUME x.phase = "running", ~ x.lost, claims'[x.claim].status = "active"
                 PROVE  claims'[x.claim].expires + x.missed + Due(x) >= TTL
      BY DEF LeaseLeft
    <3>1. c.claim \in ClaimIds BY <2>2, <2>6 DEF CommandOK
    <3>2. due BY <2>3, <2>6
    <3>3. Due(x) = 1 BY <2>6, <3>2 DEF Due
    <3>4. Due(c) = 0
      <4>1. ~ c.due BY <1>1, <2>1, <2>6 DEF Beating
      <4>2. QED BY <4>1 DEF Due
    <3>5. claims[c.claim].expires + c.missed + 0 >= TTL
      BY <1>3, <2>2, <2>6, <3>1, <3>4 DEF LeaseLeft
    <3>6. PICK e \in Nat : e = claims[c.claim].expires BY <1>3, <3>1
    <3>7. PICK f \in Nat : f = claims'[c.claim].expires BY <1>3, <3>1
    <3>8. e <= f + 1 BY <1>3, <3>1, <3>6, <3>7
    <3>9. c.missed \in Nat BY CommandFields DEF TTL
    <3>10. QED BY <2>6, <3>3, <3>5, <3>6, <3>7, <3>8, <3>9 DEF TTL
  <2>11. QED BY <2>1, <2>5, <2>6, <2>7, <2>8, <2>9, <2>10
<1>7. runs' \in [Runs -> Commands] BY <1>2, <1>6
<1>8. Distinct' BY <1>6 DEF Inv, Distinct
<1>9. faults' \in 0 .. MaxFaults BY <1>1 DEF Inv
<1>10. QED BY <1>4, <1>5, <1>6, <1>7, <1>8, <1>9 DEF Inv

LEMMA StepKill ==
    ASSUME Inv, NEW r \in Runs, Kill(r)
    PROVE  Inv'
<1>1. Becomes(r, Idle) /\ UNCHANGED ledger /\ rows' = rows /\ Fault BY DEF Kill
<1>2. LedgerStep /\ Grows BY <1>1, LedgerStays, RowsStay DEF Inv
<1>3. QED BY <1>1, <1>2, FaultCounts, ToIdle

LEMMA StepOperatorEnds ==
    ASSUME Inv, NEW id \in ClaimIds, OperatorEnds(id)
    PROVE  Inv'
<1>1. EndClaim(id, "failed") /\ Live(id, now) /\ Fault /\ UNCHANGED <<releases, now, rows, runs>>
  BY DEF OperatorEnds
<1>2. LedgerStep
  <2>1. "failed" \in EndStatuses /\ Endable(id) BY <1>1 DEF EndStatuses, Endable, Live
  <2>2. QED BY <1>1, <2>1, LedgerEnds DEF Inv
<1>3. ASSUME NEW r \in Runs
      PROVE  Owns(runs[r], claims') /\ LeaseLeft(runs[r], claims')
  <2>1. PICK c \in Commands : c = runs[r] BY Known
  <2>2. /\ CommandOK(c) /\ Owns(c, claims) /\ LeaseLeft(c, claims)
        /\ c.claim # None => c.claim \in ClaimIds
    BY <2>1, Known
  <2>3. Owns(c, claims') BY <1>2, <2>2 DEF Owns, LedgerStep
  <2>4. LeaseLeft(c, claims')
    <3> SUFFICES ASSUME c.phase = "running", ~ c.lost, claims'[c.claim].status = "active"
                 PROVE  claims'[c.claim].expires + c.missed + Due(c) >= TTL
      BY DEF LeaseLeft
    <3>1. c.claim \in ClaimIds BY <2>2 DEF CommandOK
    <3>2. claims \in [ClaimIds -> ClaimRow] BY DEF Inv, LedgerOK, LedgerTypeOK
    <3>3. c.claim # id
      <4>1. claims'[id].status = "failed" BY <1>1, <3>2 DEF EndClaim, ClaimRow
      <4>2. QED BY <4>1
    <3>4. claims'[c.claim] = claims[c.claim] BY <1>1, <3>1, <3>2, <3>3 DEF EndClaim
    <3>5. QED BY <2>2, <3>4 DEF LeaseLeft
  <2>5. QED BY <2>1, <2>3, <2>4
<1>4. RowsOK' BY <1>1 DEF Inv, RowsOK, PointsOn, IsResult
<1>5. faults' \in 0 .. MaxFaults BY <1>1, FaultCounts
<1>6. /\ Distinct' /\ runs' \in [Runs -> Commands]
      /\ \A r \in Runs : CommandOK(runs'[r]) /\ History(runs'[r], rows')
  BY <1>1 DEF Inv, Distinct
<1>7. \A r \in Runs : Owns(runs'[r], claims') /\ LeaseLeft(runs'[r], claims') BY <1>1, <1>3
<1>8. QED BY <1>2, <1>4, <1>5, <1>6, <1>7 DEF Inv, LedgerStep

-----------------------------------------------------------------------------
LEMMA InvInit == Init => Inv
<1> SUFFICES ASSUME Init PROVE Inv OBVIOUS
<1>1. /\ releases = Releases /\ now = 0 /\ claims = [id \in ClaimIds |-> NoClaim]
      /\ rows = [w \in Works |-> <<>>] /\ runs = [r \in Runs |-> Idle] /\ faults = 0
  BY DEF Init
<1>2. NoClaim \in ClaimRow /\ NoClaim.status = "absent" BY DEF NoClaim, ClaimRow
<1>3. LedgerTypeOK BY <1>1, <1>2 DEF LedgerTypeOK
<1>4. Exclusive BY <1>1, <1>2 DEF Exclusive, Live
<1>5. RowsOK
  <2>1. rows \in [Works -> Seq(Row)] /\ \A w \in Works : Len(rows[w]) = 0 BY <1>1
  <2>2. \A w \in Works : PointsOn(w) BY <2>1 DEF PointsOn
  <2>3. QED BY <2>1, <2>2 DEF RowsOK
<1>6. \A r \in Runs : runs[r] = Idle BY <1>1
<1>7. Distinct BY <1>6, IdleFields DEF Distinct
<1>8. runs \in [Runs -> Commands] BY <1>1, IdleFields
<1>9. faults \in 0 .. MaxFaults BY <1>1, BoundsAssumption
<1>10. CommandOK(Idle) /\ (\A C : Owns(Idle, C)) /\ (\A C : LeaseLeft(Idle, C))
  BY IdleFields, Unclaimed
<1>11. \A R : History(Idle, R) BY IdleFields, NoHistory
<1>12. QED BY <1>1, <1>3, <1>4, <1>5, <1>6, <1>7, <1>8, <1>9, <1>10, <1>11 DEF Inv, LedgerOK

LEMMA InvNext == Inv /\ [Next]_vars => Inv'
<1> SUFFICES ASSUME Inv, [Next]_vars PROVE Inv' OBVIOUS
<1>1. CASE UNCHANGED vars
  <2>1. UNCHANGED <<releases, claims, now, rows, runs, faults>> BY <1>1 DEF vars
  <2>2. RowsOK' BY <2>1 DEF Inv, RowsOK, PointsOn, IsResult
  <2>3. LedgerOK' BY <2>1 DEF Inv, LedgerOK, LedgerTypeOK, Exclusive, Live
  <2>4. QED BY <2>1, <2>2, <2>3 DEF Inv, Distinct
<1>2. CASE Tick BY <1>2, StepTick
<1>3. ASSUME NEW id \in ClaimIds, OperatorEnds(id) PROVE Inv' BY <1>3, StepOperatorEnds
<1>4. ASSUME NEW r \in Runs, NEW mode \in Modes, NEW redo \in Named, NEW limit \in Limits,
             Plan(r, mode, redo, limit)
      PROVE Inv'
  BY <1>4, StepPlan
<1>5. ASSUME NEW r \in Runs, NEW mode \in Modes, NEW patched \in Patched,
             PlanCorrection(r, mode, patched)
      PROVE Inv'
  BY <1>5, StepPlanCorrection
<1>6. ASSUME NEW r \in Runs,
             ReadOld(r) \/ EndBatch(r) \/ Rebuild(r) \/ ReadCurrent(r) \/ EndCorrection(r)
      PROVE Inv'
  BY <1>6, StepReadOld, StepEndBatch, StepRebuild, StepReadCurrent, StepEndCorrection
<1>7. ASSUME NEW r \in Runs, NEW B \in SUBSET Works, NEW id \in ClaimIds, ClaimBatch(r, id, B)
      PROVE Inv'
  BY <1>7, StepClaimBatch
<1>8. ASSUME NEW r \in Runs, NEW B \in SUBSET Works, ClaimRefused(r, B) PROVE Inv'
  BY <1>8, StepClaimRefused
<1>9. ASSUME NEW r \in Runs, NEW id \in ClaimIds, ClaimCorrection(r, id) PROVE Inv'
  BY <1>9, StepClaimCorrection
<1>10. ASSUME NEW r \in Runs, NEW w \in Works,
              Ask(r, w) \/ WorkRaises(r, w) \/ Supersede(r, w) \/ CopyRow(r, w)
       PROVE Inv'
  BY <1>10, StepAsk, StepWorkRaises, StepSupersede, StepCopyRow
<1>11. ASSUME NEW r \in Runs, NEW w \in Works, NEW kind \in {"settled", "api_error"},
              Result(r, w, kind)
       PROVE Inv'
  BY <1>11, StepResult
<1>12. ASSUME NEW r \in Runs, Renew(r) \/ RenewFails(r) \/ RenewLost(r) PROVE Inv'
  BY <1>12, StepHeartbeat
<1>13. ASSUME NEW r \in Runs, Kill(r) PROVE Inv' BY <1>13, StepKill
<1>14. QED
  BY <1>1, <1>2, <1>3, <1>4, <1>5, <1>6, <1>7, <1>8, <1>9, <1>10, <1>11, <1>12, <1>13
     DEF Next

LEMMA InvAlways == Spec => []Inv
<1>1. Inv /\ [Next]_vars => Inv' BY InvNext
<1>2. QED BY InvInit, <1>1, PTL DEF Spec

\* Everything keeps its shape, rows point at rows, and a process holds a claim while
\* it works under one.
THEOREM TypeCorrect == Spec => []TypeOK
<1>1. Inv => TypeOK
  <2> SUFFICES ASSUME Inv PROVE TypeOK OBVIOUS
  <2>1. RowsOK BY DEF Inv
  <2>2. \A w \in Works : \A i \in DOMAIN rows[w] : rows[w][i].by <= Len(rows[w])
    <3> SUFFICES ASSUME NEW w \in Works, NEW i \in DOMAIN rows[w]
                 PROVE rows[w][i].by <= Len(rows[w])
      OBVIOUS
    <3>1. i \in 1 .. Len(rows[w]) /\ Len(rows[w]) \in Nat /\ rows[w][i].by \in Nat
      BY <2>1, RowFields
    <3>2. CASE rows[w][i].by = 0 BY <3>1, <3>2
    <3>3. CASE rows[w][i].by # 0 BY <2>1, <3>1, <3>3 DEF RowsOK, PointsOn
    <3>4. QED BY <3>2, <3>3
  <2>3. \A r \in Runs : (runs[r].claim # None) = (runs[r].phase \in {"running", "correcting"})
    <3> SUFFICES ASSUME NEW r \in Runs
                 PROVE (runs[r].claim # None) = (runs[r].phase \in {"running", "correcting"})
      OBVIOUS
    <3>1. runs[r].claim # None <=> runs[r].phase \in {"running", "correcting"}
      BY DEF Inv, CommandOK
    <3>2. QED BY <3>1
  <2>4. QED BY <2>1, <2>2, <2>3 DEF Inv, LedgerOK, RowsOK, TypeOK
<1>2. QED BY <1>1, InvAlways, PTL

\* A batch keeps its works while its heartbeat has failed at most once.
THEOREM LeaseIsKept == Spec => []LeaseKept
<1>1. Inv => LeaseKept
  <2> SUFFICES ASSUME Inv, NEW r \in Runs, runs[r].phase = "running", runs[r].missed < 2,
                      ~ runs[r].lost, claims[runs[r].claim].status = "active"
               PROVE  Live(runs[r].claim, now)
    BY DEF LeaseKept
  <2>1. PICK c \in Commands : c = runs[r] BY Known
  <2>2. /\ CommandOK(c) /\ LeaseLeft(c, claims) /\ LedgerOK
        /\ c.claim # None => c.claim \in ClaimIds
    BY <2>1, Known
  <2>3. c.claim \in ClaimIds BY <2>1, <2>2 DEF CommandOK
  <2>4. claims[c.claim].expires + c.missed + Due(c) >= TTL BY <2>1, <2>2 DEF LeaseLeft
  <2>5. PICK e \in Nat : e = claims[c.claim].expires BY <2>2, <2>3, ClaimFields DEF LedgerOK
  <2>6. c.missed \in 0 .. 1 BY <2>1, CommandFields DEF TTL
  <2>7. Due(c) \in 0 .. 1 BY DEF Due
  <2>8. e > 0 BY <2>4, <2>5, <2>6, <2>7 DEF TTL
  <2>9. QED BY <2>1, <2>2, <2>5, <2>8 DEF Live, LedgerOK
<1>2. QED BY <1>1, InvAlways, PTL

\* Two processes write about one work only after one of them lost its lease.
THEOREM NobodyWritesTwice == Spec => []WritesAlone
<1>1. Inv => WritesAlone
  <2> SUFFICES ASSUME Inv, NEW r \in Runs, NEW q \in Runs, r # q,
                      NEW w, w \in Touches(r), w \in Touches(q),
                      Live(runs[r].claim, now), Live(runs[q].claim, now)
               PROVE  FALSE
    BY DEF WritesAlone
  <2>1. ASSUME NEW p \in Runs, w \in Touches(p)
        PROVE  /\ runs[p].claim # None /\ runs[p].claim \in ClaimIds
               /\ claims[runs[p].claim].tier = Tier /\ w \in claims[runs[p].claim].items
    <3>1. PICK c \in Commands : c = runs[p] BY Known
    <3>2. /\ CommandOK(c) /\ Owns(c, claims) /\ (c.claim # None => c.claim \in ClaimIds)
      BY <3>1, Known
    <3>3. \/ c.phase = "running" /\ w \in c.busy
          \/ c.phase = "correcting" /\ w \in {v \in Works : c.old[v] # 0}
      BY <2>1, <3>1 DEF Touches
    <3>4. c.claim # None /\ w \in c.batch BY <3>2, <3>3 DEF CommandOK
    <3>5. QED BY <3>1, <3>2, <3>4 DEF Owns
  <2>2. runs[r].claim # runs[q].claim BY <2>1 DEF Inv, Distinct
  <2>3. QED BY <2>1, <2>2 DEF Inv, LedgerOK, Exclusive
<1>2. QED BY <1>1, InvAlways, PTL

\* No run judges a work a second time.
THEOREM NoWorkComesBack == Spec => []OncePerRun
<1>1. Inv => OncePerRun BY DEF Inv, CommandOK, OncePerRun
<1>2. QED BY <1>1, InvAlways, PTL

\* The export and the corrections get a work's newest result in their mode, whoever
\* superseded what, and the checkpoint gets that one or, behind later evidence, none.
THEOREM NewestIsRead == Spec => []NewestSpeaks
<1>1. Inv => NewestSpeaks BY AllSpeak DEF Inv
<1>2. QED BY <1>1, InvAlways, PTL

-----------------------------------------------------------------------------
\* What a step may write: one new row, or one pointer from a row of the table.
Writing ==
    \E w \in Works, row \in [mode : Modes, kind : Kinds, by : {0}] :
        rows' = [rows EXCEPT ![w] = Append(@, row)]
Pointing ==
    \E w \in Works, j \in Nat : \E i \in 1 .. Len(rows[w]) :
        rows' = [rows EXCEPT ![w][i].by = j]

LEMMA RowsStep ==
    ASSUME Inv, [Next]_vars
    PROVE  Writing \/ Pointing \/ rows' = rows
<1>1. ASSUME NEW r \in Runs, NEW w \in Works, NEW kind \in Kinds, Append1(r, w, kind)
      PROVE  Writing
  <2>1. PICK row : row = [mode |-> runs[r].mode, kind |-> kind, by |-> 0] OBVIOUS
  <2>2. row \in [mode : Modes, kind : Kinds, by : {0}]
    <3>1. PICK c \in Commands : c = runs[r] BY Known
    <3>2. c.mode \in Modes BY DEF Commands
    <3>3. QED BY <2>1, <3>1, <3>2
  <2>3. QED BY <1>1, <2>1, <2>2 DEF Append1, Writing
<1>2. ASSUME NEW r \in Runs, NEW w \in Works, NEW kind \in {"settled", "api_error"},
             Result(r, w, kind)
      PROVE  Writing
  BY <1>1, <1>2 DEF Result, Kinds
<1>3. ASSUME NEW r \in Runs, NEW w \in Works, WorkRaises(r, w)
      PROVE  Writing \/ rows' = rows
  BY <1>1, <1>3 DEF WorkRaises
<1>4. ASSUME NEW r \in Runs, NEW w \in Works, CopyRow(r, w)
      PROVE  Writing
  <2>1. ResultOf(rows[w], runs[r].old[w]) BY <1>4 DEF CopyRow, Inv, History
  <2>2. PICK kind : kind = rows[w][runs[r].old[w]].kind OBVIOUS
  <2>3. kind \in Kinds BY <2>1, <2>2, RowFields DEF Inv, ResultOf
  <2>4. QED BY <1>1, <1>4, <2>2, <2>3 DEF CopyRow
<1>5. ASSUME NEW r \in Runs, NEW w \in Works, Supersede(r, w)
      PROVE  Pointing
  <2>1. runs[r].old[w] \in 1 .. Len(rows[w])
    BY <1>5 DEF Supersede, Inv, History, ResultOf
  <2>2. rows' = [rows EXCEPT ![w][runs[r].old[w]].by = runs[r].new[w]] BY <1>5 DEF Supersede
  <2>3. runs[r].new[w] \in Nat
    <3>1. PICK c \in Commands : c = runs[r] BY Known
    <3>2. QED BY <3>1, CommandFields
  <2>4. QED BY <2>1, <2>2, <2>3 DEF Pointing
<1>6. ASSUME NEW r \in Runs,
             \/ \E mode \in Modes :
                  \/ \E redo \in Named, limit \in Limits : Plan(r, mode, redo, limit)
                  \/ \E patched \in Patched : PlanCorrection(r, mode, patched)
             \/ ReadOld(r) \/ EndBatch(r) \/ Rebuild(r) \/ ReadCurrent(r) \/ EndCorrection(r)
             \/ \E B \in SUBSET Works, id \in ClaimIds : ClaimBatch(r, id, B)
             \/ \E B \in SUBSET Works : ClaimRefused(r, B)
             \/ \E id \in ClaimIds : ClaimCorrection(r, id)
             \/ \E w \in Works : Ask(r, w)
      PROVE  rows' = rows
  BY <1>6 DEF Plan, PlanCorrection, ReadOld, EndBatch, Rebuild, ReadCurrent, EndCorrection,
     ClaimBatch, ClaimRefused, ClaimCorrection, Ask
<1>7. ASSUME NEW r \in Runs, Renew(r) \/ RenewFails(r) \/ RenewLost(r) \/ Kill(r)
      PROVE  rows' = rows
  BY <1>7 DEF Renew, RenewFails, RenewLost, Kill
<1>8. CASE Tick \/ (\E id \in ClaimIds : OperatorEnds(id)) \/ UNCHANGED vars
  BY <1>8 DEF Tick, OperatorEnds, vars
<1>9. QED BY <1>2, <1>3, <1>4, <1>5, <1>6, <1>7, <1>8 DEF Next

\* A row keeps its place, its mode and its kind: no step takes a row out, and
\* all it may change of one is what it points at.
LEMMA RowsLast ==
    ASSUME Inv, [Next]_vars, NEW w \in Works, NEW i \in 1 .. Len(rows[w])
    PROVE  /\ i \in 1 .. Len(rows'[w])
           /\ rows'[w][i].mode = rows[w][i].mode /\ rows'[w][i].kind = rows[w][i].kind
<1>1. /\ RowsOK /\ rows[w] \in Seq(Row) /\ Len(rows[w]) \in Nat
      /\ \A k \in 1 .. Len(rows[w]) : rows[w][k] \in Row
  BY RowFields DEF Inv
<1>2. CASE rows'[w] = rows[w]
  BY <1>2
<1>3. CASE Writing
  <2>1. PICK v \in Works, row \in [mode : Modes, kind : Kinds, by : {0}] :
            rows' = [rows EXCEPT ![v] = Append(@, row)]
    BY <1>3 DEF Writing
  <2>2. rows'[w] = IF w = v THEN Append(rows[w], row) ELSE rows[w] BY <1>1, <2>1 DEF RowsOK
  <2>3. row \in Row BY DEF Row
  <2>4. CASE w = v
    <3>1. rows'[w] = Append(rows[w], row) BY <2>2, <2>4
    <3>2. Len(rows'[w]) = Len(rows[w]) + 1 /\ rows'[w][i] = rows[w][i]
      BY <1>1, <2>3, <3>1
    <3>3. QED BY <1>1, <3>2
  <2>5. QED BY <1>2, <2>2, <2>4
<1>4. CASE Pointing
  <2>1. PICK v \in Works, j \in Nat :
            \E k \in 1 .. Len(rows[v]) : rows' = [rows EXCEPT ![v][k].by = j]
    BY <1>4 DEF Pointing
  <2>2. PICK k \in 1 .. Len(rows[v]) : rows' = [rows EXCEPT ![v][k].by = j] BY <2>1
  <2>3. CASE w # v BY <1>1, <1>2, <2>2, <2>3 DEF RowsOK
  <2>4. CASE w = v
    <3>1. PICK e : e = [rows[w][k] EXCEPT !.by = j] OBVIOUS
    <3>2. rows'[w] = [rows[w] EXCEPT ![k] = e] BY <1>1, <2>2, <2>4, <3>1 DEF RowsOK
    <3>3. e.mode = rows[w][k].mode /\ e.kind = rows[w][k].kind
      <4>1. PICK x \in Row : x = rows[w][k] BY <1>1, <2>4
      <4>2. e = [x EXCEPT !.by = j] BY <3>1, <4>1
      <4>3. QED BY <4>1, <4>2 DEF Row
    <3>4. DOMAIN rows[w] = 1 .. Len(rows[w]) BY <1>1
    <3>5. DOMAIN rows'[w] = DOMAIN rows[w] BY <3>2
    <3>6. rows'[w] \in Seq(Row) /\ Len(rows'[w]) \in Nat /\ DOMAIN rows'[w] = 1 .. Len(rows'[w])
      <4>1. RowsOK' BY InvNext DEF Inv
      <4>2. rows'[w] \in Seq(Row) BY <4>1 DEF RowsOK
      <4>3. QED BY <4>2
    <3>7. i \in 1 .. Len(rows'[w]) BY <3>4, <3>5, <3>6
    <3>8. rows'[w][i] = IF i = k THEN e ELSE rows[w][i] BY <3>2, <3>4
    <3>9. QED BY <3>3, <3>7, <3>8
  <2>5. QED BY <2>3, <2>4
<1>5. QED BY <1>2, <1>3, <1>4, RowsStep

\* What the export shows of a work in one mode goes to newer results only, and
\* never to nothing, unless a row of another mode takes a result's place.
NeverGoesBack ==
    [][\A w \in Works, mode \in Modes :
          OwnMode(w, mode)' => LatestResult(w, mode) <= LatestResult(w, mode)']_vars

\* Runs, --redo and corrections that overlap, however old what they read, never
\* put a work's answer back to an older one, or to none (_supersede,
\* supersede_targets, latest_results).
THEOREM AnswersMoveOn == Spec => NeverGoesBack
<1>1. ASSUME Inv, [Next]_vars, NEW w \in Works, NEW mode \in Modes, OwnMode(w, mode)'
      PROVE  LatestResult(w, mode) <= LatestResult(w, mode)'
  <2> DEFINE latest == LatestResult(w, mode)
             results == {i \in DOMAIN rows'[w] : /\ rows'[w][i].mode = mode
                                                 /\ rows'[w][i].kind # "evidence"}
  <2>1. RowsOK /\ RowsOK' BY <1>1, InvNext DEF Inv
  <2>2. LatestResult(w, mode)' = Newest(results)
    <3>1. NewestSpeaks' BY <2>1, AllSpeak, PTL
    <3>2. QED BY <1>1, <3>1 DEF NewestSpeaks, RowsOf, IsResult
  <2>3. Len(rows'[w]) \in Nat /\ DOMAIN rows'[w] = 1 .. Len(rows'[w])
    <3>1. rows'[w] \in Seq(Row) BY <2>1 DEF RowsOK
    <3>2. QED BY <3>1
  <2>4. results \subseteq 1 .. Len(rows'[w]) BY <2>3
  <2>5. latest \in Nat BY <2>1, LatestResultIs
  <2>6. latest # 0 => latest \in results
    <3>1. ASSUME latest # 0
          PROVE  /\ latest \in 1 .. Len(rows[w]) /\ rows[w][latest].mode = mode
                 /\ rows[w][latest].kind # "evidence"
      BY <2>1, <3>1, LatestIsRead
    <3>2. QED BY <1>1, <2>3, <3>1, RowsLast
  <2> HIDE DEF latest, results
  <2>7. Newest(results) \in Nat /\ \A i \in results : i <= Newest(results)
    BY <2>3, <2>4, NewestIs
  <2>8. latest <= Newest(results) BY <2>5, <2>6, <2>7
  <2>9. QED BY <2>2, <2>8 DEF latest
<1>2. Inv /\ [Next]_vars =>
        [\A w \in Works, mode \in Modes :
            OwnMode(w, mode)' => LatestResult(w, mode) <= LatestResult(w, mode)']_vars
  BY <1>1
<1>3. QED BY <1>2, InvAlways, PTL DEF Spec, NeverGoesBack

-----------------------------------------------------------------------------
\* What a step does to the claims.
Granting == \E id \in ClaimIds, B \in SUBSET Works : Grant(id, B)
Ending == \E id \in ClaimIds, s \in EndStatuses :
              Endable(id) /\ EndClaim(id, s) /\ now' = now
Renewing == \E id \in ClaimIds :
                Renewable(id, now) /\ ExtendLease(id, now + TTL) /\ now' = now
Keeping == claims' = claims /\ now' = now

LEMMA ClaimsStep ==
    ASSUME Inv, [Next]_vars
    PROVE  Granting \/ Ending \/ Renewing \/ Keeping \/ Tick
<1>1. ASSUME UNCHANGED ledger PROVE Keeping
  BY <1>1 DEF ledger, Keeping
<1>2. \A r \in Runs : runs[r].phase \in {"running", "correcting"} => runs[r].claim \in ClaimIds
  BY CommandFields DEF Inv, CommandOK
<1>3. ASSUME NEW r \in Runs, EndBatch(r) \/ EndCorrection(r) PROVE Ending \/ Keeping
  <2>1. runs[r].claim \in ClaimIds
    BY <1>2, <1>3 DEF EndBatch, BatchOver, EndCorrection
  <2>2. {"failed", "complete"} \subseteq EndStatuses
    BY DEF EndStatuses
  <2>3. QED
    BY <1>1, <1>3, <2>1, <2>2 DEF EndBatch, EndCorrection, Ending
<1>4. ASSUME NEW r \in Runs, Renew(r) PROVE Renewing
  BY <1>2, <1>4 DEF Renew, Beating, Renewing
<1>5. ASSUME NEW id \in ClaimIds, OperatorEnds(id) PROVE Ending
  BY <1>5 DEF OperatorEnds, Live, Endable, Ending, EndStatuses
<1>6. ASSUME NEW r \in Runs, NEW id \in ClaimIds,
             ClaimCorrection(r, id) \/ \E B \in SUBSET Works : ClaimBatch(r, id, B)
      PROVE  Granting
  <2>1. runs[r].batch \in SUBSET Works
    BY CommandFields DEF Inv
  <2>2. QED
    BY <1>6, <2>1 DEF ClaimCorrection, ClaimBatch, Granting
<1>7. ASSUME NEW r \in Runs,
             \/ \E mode \in Modes :
                  \/ \E redo \in Named, limit \in Limits : Plan(r, mode, redo, limit)
                  \/ \E patched \in Patched : PlanCorrection(r, mode, patched)
             \/ ReadOld(r) \/ Rebuild(r) \/ ReadCurrent(r) \/ RenewFails(r) \/ RenewLost(r)
             \/ Kill(r) \/ \E B \in SUBSET Works : ClaimRefused(r, B)
      PROVE  Keeping
  BY <1>1, <1>7 DEF Plan, PlanCorrection, ReadOld, Rebuild, ReadCurrent, RenewFails, RenewLost, Kill,
     ClaimRefused
<1>8. ASSUME NEW r \in Runs, NEW w \in Works,
             \/ Ask(r, w) \/ WorkRaises(r, w) \/ Supersede(r, w) \/ CopyRow(r, w)
             \/ \E kind \in {"settled", "api_error"} : Result(r, w, kind)
      PROVE  Keeping
  BY <1>1, <1>8 DEF Ask, WorkRaises, Supersede, CopyRow, Result
<1>9. CASE UNCHANGED vars
  BY <1>9 DEF vars, Keeping
<1>10. QED
  BY <1>3, <1>4, <1>5, <1>6, <1>7, <1>8, <1>9 DEF Next

\* Only a grant makes a claim live or writes one.
LEMMA Fading ==
    ASSUME Inv, Ending \/ Renewing \/ Keeping \/ Tick, NEW id \in ClaimIds
    PROVE  /\ claims'[id].tier = claims[id].tier /\ claims'[id].items = claims[id].items
           /\ (claims'[id].status = "absent") <=> (claims[id].status = "absent")
           /\ Live(id, now)' => Live(id, now)
<1>1. /\ claims \in [ClaimIds -> ClaimRow] /\ claims[id] \in ClaimRow
      /\ claims[id].expires \in Nat /\ now = 0
  BY ClaimFields DEF Inv, LedgerOK, LedgerTypeOK
<1>2. ASSUME NEW e, claims'[id] = [claims[id] EXCEPT !.expires = e]
      PROVE  /\ claims'[id].tier = claims[id].tier /\ claims'[id].items = claims[id].items
             /\ claims'[id].status = claims[id].status /\ claims'[id].expires = e
  BY <1>1, <1>2 DEF ClaimRow
<1>3. CASE claims'[id] = claims[id] /\ now' = now
  BY <1>3 DEF Live
<1>4. CASE Ending
  <2>1. PICK jd \in ClaimIds, s \in EndStatuses : Endable(jd) /\ EndClaim(jd, s) /\ now' = now
    BY <1>4 DEF Ending
  <2>2. CASE jd # id
    BY <1>1, <1>3, <2>1, <2>2 DEF EndClaim
  <2>3. CASE jd = id
    <3>1. claims'[id] = [claims[id] EXCEPT !.status = s] /\ claims[id].status = "active"
      BY <1>1, <2>1, <2>3 DEF EndClaim, Endable
    <3>2. /\ claims'[id].tier = claims[id].tier /\ claims'[id].items = claims[id].items
          /\ claims'[id].status = s
      BY <1>1, <3>1 DEF ClaimRow
    <3>3. s # "absent" /\ s # "active"
      BY DEF EndStatuses
    <3>4. QED
      BY <3>1, <3>2, <3>3 DEF Live
  <2>4. QED
    BY <2>2, <2>3
<1>5. CASE Renewing
  <2>1. PICK jd \in ClaimIds :
            Renewable(jd, now) /\ ExtendLease(jd, now + TTL) /\ now' = now
    BY <1>5 DEF Renewing
  <2>2. CASE jd # id
    BY <1>1, <1>3, <2>1, <2>2 DEF ExtendLease
  <2>3. CASE jd = id
    <3>1. PICK e : claims'[id] = [claims[id] EXCEPT !.expires = e]
      BY <1>1, <2>1, <2>3 DEF ExtendLease
    <3>2. QED
      BY <1>2, <2>1, <2>3, <3>1 DEF Renewable
  <2>4. QED
    BY <2>2, <2>3
<1>6. CASE Tick
  <2>1. PICK e : e = IF claims[id].expires > 0 THEN claims[id].expires - 1 ELSE 0
    OBVIOUS
  <2>2. claims'[id] = [claims[id] EXCEPT !.expires = e] /\ now' = now
    BY <1>1, <1>6, <2>1 DEF Tick
  <2>3. e > 0 => claims[id].expires > 0
    BY <1>1, <2>1
  <2>4. QED
    BY <1>1, <1>2, <2>2, <2>3 DEF Live
<1>7. QED
  BY <1>3, <1>4, <1>5, <1>6 DEF Keeping

LEMMA StepImplements ==
    ASSUME Inv, HoldsSome, [Next]_vars
    PROVE  [Leased!Next]_<<holders, retired>> /\ HoldsSome'
<1>1. LedgerTypeOK /\ now = 0 /\ TTL = 3
  BY DEF Inv, LedgerOK, TTL
<1>2. CASE Granting
  <2>1. PICK id \in ClaimIds, B \in SUBSET Works : Grant(id, B)
    BY <1>2 DEF Granting
  <2>2. /\ claims[id].status = "absent" /\ now' = now /\ now + TTL \in Nat
        /\ Claimable(Release, Tier, B, now + TTL, now)
        /\ InsertClaim(id, Release, Tier, B, now + TTL)
    BY <1>1, <2>1 DEF Grant, Fresh
  <2>3. [Leased!Next]_<<holders, retired>>
    BY <1>1, <2>2, Takes
  <2>4. B # {} /\ claims'[id].items = B /\ \A i \in ClaimIds : i # id => claims'[i] = claims[i]
    BY <1>1, <2>2 DEF Claimable, InsertClaim, LedgerTypeOK
  <2>5. QED
    BY <2>3, <2>4 DEF HoldsSome
<1>3. CASE Ending \/ Renewing \/ Keeping \/ Tick
  <2>1. [Leased!Next]_<<holders, retired>>
    BY <1>1, <1>3, Fading, GivesUp
  <2>2. HoldsSome'
    BY <1>3, Fading DEF HoldsSome
  <2>3. QED
    BY <2>1, <2>2
<1>4. QED
  BY <1>2, <1>3, ClaimsStep

\* Extract runs and corrections, with their heartbeats, are exclusive leases: what a
\* process lost it never has again, however late its renewal (_Heartbeat,
\* supersede_targets).
THEOREM ExtractsLease == Spec => ImplementsWorkLease
<1>1. Init => Leased!Init /\ HoldsSome
  BY NothingHeld DEF Init
<1>2. Inv /\ HoldsSome /\ [Next]_vars => HoldsSome' /\ [Leased!Next]_<<holders, retired>>
  BY StepImplements
<1>3. QED
  BY <1>1, <1>2, InvAlways, PTL DEF Spec, ImplementsWorkLease, Leased!Spec

\* No two live claims of extract runs or corrections hold one work, and a claim
\* its process lost is not revived by the heartbeat that comes after
\* (_Heartbeat, engine_renew_claim).
THEOREM ExtractsStayApart == Spec => []Apart /\ NeverAgain
  BY ExtractsLease, LeaseKeeps, PTL
=============================================================================
