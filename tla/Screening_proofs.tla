--------------------------- MODULE Screening_proofs ---------------------------
(***************************************************************************)
(* Theorems about Screening, for every set of processes, generations and   *)
(* texts, whatever generations are equivalent, whatever rows there are to  *)
(* begin with, and any number of events.                                   *)
(***************************************************************************)
EXTENDS Screening, FiniteSetTheorems, WellFoundedInduction, TLAPS

JobsType == jobs \in [Runs -> {Idle} \cup Planned \cup Writing]
OneWriter ==
    \A r, q \in Runs :
        r # q /\ jobs[r].pc = "writing" /\ jobs[q].pc = "writing" =>
            jobs[r].tier # jobs[q].tier \/ jobs[r].lapsed \/ jobs[q].lapsed

LEMMA JobKinds ==
    ASSUME JobsType, NEW r \in Runs
    PROVE  /\ jobs[r].pc = "planned" => jobs[r] \in Planned
           /\ jobs[r].pc = "writing" => jobs[r] \in Writing
BY DEF JobsType, Idle, Planned, Writing

LEMMA RowAppended ==
    ASSUME TypeOK, NEW r \in Runs, jobs[r].pc = "writing", NEW said \in {"no", "yes", "none"},
           Write(jobs[r], said)
    PROVE  rows' \in Seq(Row) /\ Len(rows') = Len(rows) + 1
<1>1. jobs[r] \in Writing BY JobKinds DEF TypeOK, JobsType
<1> DEFINE row == [tier |-> jobs[r].tier, mode |-> jobs[r].mode, gen |-> jobs[r].gen,
                   asked |-> jobs[r].asked, voter |-> jobs[r].voter, said |-> said]
<1>2. row \in Row BY <1>1 DEF Writing, Row, Gens
<1>3. rows' = Append(rows, row) BY DEF Write
<1>4. rows \in Seq(Row) BY DEF TypeOK
<1> HIDE DEF row
<1>5. QED BY <1>2, <1>3, <1>4

\* A step that replaces one process's job by a smaller or an equal hold.
LEMMA JobReplaced ==
    ASSUME TypeOK, NEW r \in Runs, NEW job \in {Idle} \cup Planned \cup Writing,
           jobs' = [jobs EXCEPT ![r] = job],
           job.pc = "writing" =>
               job.lapsed \/ \A q \in Runs :
                   q # r /\ jobs[q].pc = "writing" => jobs[q].tier # job.tier \/ jobs[q].lapsed
    PROVE  JobsType' /\ OneWriter'
<1>1. JobsType' BY DEF TypeOK, JobsType
<1>2. ASSUME NEW p \in Runs, NEW q \in Runs, p # q,
             jobs'[p].pc = "writing", jobs'[q].pc = "writing"
      PROVE  jobs'[p].tier # jobs'[q].tier \/ jobs'[p].lapsed \/ jobs'[q].lapsed
  <2>1. \A x \in Runs : x # r => jobs'[x] = jobs[x] BY DEF TypeOK
  <2>2. jobs'[r] = job BY DEF TypeOK
  <2>3. CASE p # r /\ q # r BY <2>1, <2>3, <1>2 DEF TypeOK
  <2>4. CASE p = r BY <2>1, <2>2, <2>4, <1>2
  <2>5. CASE q = r BY <2>1, <2>2, <2>5, <1>2
  <2>6. QED BY <2>3, <2>4, <2>5
<1>3. QED BY <1>1, <1>2 DEF OneWriter

\* The rest of the type invariant.
Rest ==
    /\ rows \in Seq(Row) /\ screen \in [Tiers -> Screens] /\ pile \in Tiers
    /\ text \in Texts /\ fetched \in 0 .. Len(rows) + 1 /\ events \in 0 .. MaxEvents
LEMMA TypeParts == TypeOK <=> Rest /\ JobsType /\ OneWriter
BY DEF TypeOK, Rest, JobsType, OneWriter

LEMMA TypePartsNext == TypeOK' <=> Rest' /\ JobsType' /\ OneWriter'
BY DEF TypeOK, Rest, JobsType, OneWriter

LEMMA EventStep == ASSUME Rest, Event PROVE events' \in 0 .. MaxEvents
BY BoundAssumption DEF Rest, Event

LEMMA Initial == Init => TypeOK
<1> SUFFICES ASSUME Init PROVE TypeOK OBVIOUS
<1>1. Rest
  <2>1. PICK start \in Starts :
            rows = start.rows /\ screen = [t \in Tiers |-> start.screen] BY DEF Init
  <2>2. rows \in Seq(Row) /\ screen \in [Tiers -> Screens] BY <2>1, StartsAssumption
  <2>3. text \in Texts BY ScreensAssumption DEF Init
  <2>4. fetched \in 0 .. Len(rows) + 1 /\ events \in 0 .. MaxEvents
      BY <2>2, BoundAssumption DEF Init
  <2>5. QED BY <2>2, <2>3, <2>4 DEF Rest, Init
<1>2. JobsType /\ OneWriter BY DEF Init, JobsType, OneWriter, Idle
<1>3. QED BY <1>1, <1>2, TypeParts

LEMMA Inductive == TypeOK /\ [Next]_vars => TypeOK'
<1> SUFFICES ASSUME TypeOK, [Next]_vars PROVE TypeOK' OBVIOUS
<1> USE TypeParts, TypePartsNext
<1>1. ASSUME NEW r \in Runs, NEW mode \in Modes, NEW limited \in BOOLEAN, Plan(r, mode, limited)
      PROVE  TypeOK'
  <2> DEFINE job == [pc |-> "planned", tier |-> pile, mode |-> mode, gen |-> screen[pile],
                     asked |-> text]
  <2>1. job \in Planned /\ job.pc # "writing" BY DEF Planned, Rest
  <2>2. jobs' = [jobs EXCEPT ![r] = job] BY <1>1 DEF Plan
  <2> HIDE DEF job
  <2>3. JobsType' /\ OneWriter' BY <2>1, <2>2, JobReplaced
  <2>4. events' \in 0 .. MaxEvents BY <1>1, EventStep DEF Plan, Rest
  <2>5. Rest' BY <1>1, <2>4 DEF Plan, Rest
  <2>6. QED BY <2>3, <2>5
<1>2. ASSUME NEW r \in Runs, ClaimRefused(r) PROVE TypeOK'
  <2>1. Idle.pc # "writing" BY DEF Idle
  <2>2. JobsType' /\ OneWriter' BY <1>2, <2>1, JobReplaced DEF ClaimRefused
  <2>3. Rest' BY <1>2 DEF ClaimRefused, Rest
  <2>4. QED BY <2>2, <2>3
<1>3. ASSUME NEW r \in Runs, Claim(r) PROVE TypeOK'
  <2> DEFINE j == jobs[r]
             job == [pc |-> "writing", tier |-> j.tier, mode |-> j.mode, gen |-> j.gen,
                     asked |-> j.asked, voter |-> 1, lapsed |-> FALSE]
  <2>1. j \in Planned BY <1>3, JobKinds DEF Claim
  <2>2. job \in Writing BY <2>1 DEF Planned, Writing, Voters
  <2>3. \A q \in Runs : q # r /\ jobs[q].pc = "writing" => jobs[q].tier # j.tier \/ jobs[q].lapsed
      BY <1>3 DEF Claim, Held
  <2>4. jobs' = [jobs EXCEPT ![r] = job] BY <1>3 DEF Claim
  <2>5. job.tier = j.tier OBVIOUS
  <2> HIDE DEF job, j
  <2>6. JobsType' /\ OneWriter' BY <2>2, <2>3, <2>4, <2>5, JobReplaced
  <2>7. Rest' BY <1>3 DEF Claim, Rest
  <2>8. QED BY <2>6, <2>7
<1>4. ASSUME NEW r \in Runs, NEW more \in BOOLEAN, jobs[r].pc = "writing", Advance(r, more)
      PROVE  JobsType' /\ OneWriter'
  <2>1. jobs[r] \in Writing BY <1>4, JobKinds
  <2> DEFINE job == IF more THEN [jobs[r] EXCEPT !.voter = 2] ELSE Idle
  <2>2. job \in {Idle} \cup Writing BY <2>1 DEF Writing, Voters
  <2>3. jobs' = [jobs EXCEPT ![r] = job] BY <1>4 DEF Advance
  <2>4. job.pc = "writing" => job.tier = jobs[r].tier /\ job.lapsed = jobs[r].lapsed
      BY <2>1 DEF Writing, Idle
  <2> HIDE DEF job
  <2>5. job.pc = "writing" =>
            job.lapsed \/ \A q \in Runs :
                q # r /\ jobs[q].pc = "writing" => jobs[q].tier # job.tier \/ jobs[q].lapsed
    <3>1. \A q \in Runs : q # r /\ jobs[q].pc = "writing" =>
              jobs[r].tier # jobs[q].tier \/ jobs[r].lapsed \/ jobs[q].lapsed
        BY <1>4 DEF OneWriter
    <3>2. QED BY <3>1, <2>4
  <2>6. QED BY <2>2, <2>3, <2>5, JobReplaced
<1>5. ASSUME NEW r \in Runs, NEW said \in {"no", "yes", "none"}, jobs[r].pc = "writing",
             Write(jobs[r], said), UNCHANGED <<screen, pile, text, fetched>>,
             events' \in 0 .. MaxEvents
      PROVE  Rest'
  <2>1. rows' \in Seq(Row) /\ Len(rows') = Len(rows) + 1 BY <1>5, RowAppended
  <2>2. Len(rows) \in Nat BY DEF Rest
  <2>3. fetched' \in 0 .. Len(rows') + 1 BY <1>5, <2>1, <2>2 DEF Rest
  <2>4. QED BY <1>5, <2>1, <2>3 DEF Rest
<1>6. ASSUME NEW r \in Runs, NEW said \in {"no", "yes"}, Record(r, said) PROVE TypeOK'
  <2>1. JobsType' /\ OneWriter' BY <1>6, <1>4 DEF Record
  <2>2. events' \in 0 .. MaxEvents BY <1>6 DEF Record, Rest
  <2>3. Rest' BY <1>6, <2>2, <1>5 DEF Record
  <2>4. QED BY <2>1, <2>3
<1>7. ASSUME NEW r \in Runs, VoteFails(r) PROVE TypeOK'
  <2>1. events' \in 0 .. MaxEvents BY <1>7, EventStep DEF VoteFails
  <2>2. \E more \in BOOLEAN : Advance(r, more) BY <1>7 DEF VoteFails
  <2>3. JobsType' /\ OneWriter' BY <1>7, <2>2, <1>4 DEF VoteFails
  <2>4. CASE Write(jobs[r], "none")
    <3>1. Rest' BY <1>7, <2>1, <2>4, <1>5 DEF VoteFails
    <3>2. QED BY <3>1, <2>3
  <2>5. CASE UNCHANGED rows
    <3>1. Rest' BY <1>7, <2>1, <2>5 DEF VoteFails, Rest
    <3>2. QED BY <3>1, <2>3
  <2>6. QED BY <1>7, <2>4, <2>5 DEF VoteFails
<1>8. ASSUME NEW r \in Runs, Kill(r) PROVE TypeOK'
  <2>1. Idle.pc # "writing" BY DEF Idle
  <2>2. JobsType' /\ OneWriter' BY <1>8, <2>1, JobReplaced DEF Kill
  <2>3. events' \in 0 .. MaxEvents BY <1>8, EventStep DEF Kill
  <2>4. Rest' BY <1>8, <2>3 DEF Kill, Rest
  <2>5. QED BY <2>2, <2>4
<1>9. ASSUME NEW r \in Runs, Lapse(r) PROVE TypeOK'
  <2>1. jobs[r] \in Writing BY <1>9, JobKinds DEF Lapse
  <2> DEFINE job == [jobs[r] EXCEPT !.lapsed = TRUE]
  <2>2. job \in Writing /\ job.lapsed BY <2>1 DEF Writing
  <2>3. jobs' = [jobs EXCEPT ![r] = job] BY <1>9 DEF Lapse, JobsType
  <2> HIDE DEF job
  <2>4. JobsType' /\ OneWriter' BY <2>2, <2>3, JobReplaced
  <2>5. events' \in 0 .. MaxEvents BY <1>9, EventStep DEF Lapse
  <2>6. Rest' BY <1>9, <2>5 DEF Lapse, Rest
  <2>7. QED BY <2>4, <2>6
<1>10. ASSUME NEW tier \in Tiers, NEW g \in Screens, Deploy(tier, g) PROVE TypeOK'
  <2>1. events' \in 0 .. MaxEvents BY <1>10, EventStep DEF Deploy
  <2>2. QED BY <1>10, <2>1 DEF Deploy, Rest, JobsType, OneWriter
<1>11. ASSUME NEW t \in Texts, NEW overlay \in BOOLEAN, NewText(t, overlay) PROVE TypeOK'
  <2>1. events' \in 0 .. MaxEvents BY <1>11, EventStep DEF NewText
  <2>2. Len(rows) \in Nat BY DEF Rest
  <2>3. Rest' BY <1>11, <2>1, <2>2 DEF NewText, Rest
  <2>4. QED BY <1>11, <2>3 DEF NewText, JobsType, OneWriter
<1>12. ASSUME NEW p \in Tiers, Route(p) PROVE TypeOK'
  <2>1. events' \in 0 .. MaxEvents BY <1>12, EventStep DEF Route
  <2>2. QED BY <1>12, <2>1 DEF Route, Rest, JobsType, OneWriter
<1>13. CASE UNCHANGED vars BY <1>13 DEF vars, Rest, JobsType, OneWriter
<1>14. "live" \in Modes /\ FALSE \in BOOLEAN BY DEF Modes
<1>15. ASSUME NEW r \in Runs, Goes(r) PROVE TypeOK'
    BY <1>15, <1>14, <1>1, <1>2, <1>3, <1>6 DEF Goes
<1>16. QED BY <1>1, <1>7, <1>8, <1>9, <1>10, <1>11, <1>12, <1>13, <1>15 DEF Next

\* Everything keeps its shape, and a live claim of a tier is one run's only.
THEOREM TypeCorrect == Spec => []TypeOK
<1>1. QED BY Initial, Inductive, PTL DEF Spec

-----------------------------------------------------------------------------
\* Reading the rows.

\* A nonempty set of bounded numbers has a greatest: shrinking "what lies above"
\* comes to an end.
LEMMA LastIs ==
    ASSUME NEW S, NEW n \in Nat, S \subseteq 1 .. n, S # {}
    PROVE  Last(S) \in S /\ \A j \in S : j <= Last(S)
<1> DEFINE Above(i) == {j \in S : i < j}
           T == {Above(i) : i \in S}
           R == StrictSubsetOrdering(S)
<1>1. IsFiniteSet(S)
  <2>1. IsFiniteSet(1 .. n) BY FS_Interval
  <2>2. QED BY <2>1, FS_Subset
<1>2. IsWellFoundedOn(R, FiniteSubsetsOf(S)) BY <1>1, FS_StrictSubsetOrderingWellFounded
<1>3. T \subseteq FiniteSubsetsOf(S) /\ T # {}
  <2>1. ASSUME NEW i \in S PROVE Above(i) \in FiniteSubsetsOf(S)
    <3>1. Above(i) \subseteq S OBVIOUS
    <3>2. IsFiniteSet(Above(i)) BY <3>1, <1>1, FS_Subset
    <3>3. QED BY <3>1, <3>2 DEF FiniteSubsetsOf
  <2>2. QED BY <2>1
<1>4. PICK k \in T : \A l \in T : ~ (<<l, k>> \in R)
  <2> HIDE DEF R, T
  <2>1. QED BY <1>2, <1>3, WFMin
<1>5. PICK i \in S : k = Above(i) OBVIOUS
<1>6. ASSUME NEW j \in S, ~ (j <= i) PROVE FALSE
  <2>1. i \in Int /\ j \in Int /\ S \subseteq Int /\ i < j BY <1>6
  <2>2. Above(j) \subseteq Above(i) /\ j \in Above(i) /\ j \notin Above(j)
    <3>1. ASSUME NEW l \in S, j < l PROVE i < l BY <2>1, <3>1
    <3>2. ~ (j < j) BY <2>1
    <3>3. QED BY <2>1, <3>1, <3>2
  <2>3. Above(j) \subseteq S /\ Above(i) \subseteq S OBVIOUS
  <2>4. <<Above(j), Above(i)>> \in R
    <3> HIDE DEF Above
    <3>1. QED BY <2>2, <2>3 DEF StrictSubsetOrdering
  <2>5. QED BY <2>4, <1>4, <1>5
<1>7. QED BY <1>6 DEF Last

\* Among numbers of which some are full and some are of now there is one that goes
\* before all others.
Ahead(m, j, full, current) ==
    IF (m \in full) # (j \in full) THEN m \in full
    ELSE IF (m \in current) # (j \in current) THEN m \in current
    ELSE m >= j
LEMMA Best ==
    ASSUME NEW S, NEW n \in Nat, S \subseteq 1 .. n, S # {},
           NEW full \in SUBSET S, NEW current \in SUBSET S
    PROVE  \E m \in S : \A j \in S : Ahead(m, j, full, current)
<1> DEFINE F == IF full # {} THEN full ELSE S
           C == IF F \cap current # {} THEN F \cap current ELSE F
<1>1. C # {} /\ C \subseteq F /\ F \subseteq S /\ C \subseteq 1 .. n OBVIOUS
<1>2. Last(C) \in C /\ \A j \in C : j <= Last(C) BY <1>1, LastIs
<1>3. PICK m \in C : \A j \in C : j <= m BY <1>2
<1>4. ASSUME NEW j \in S
      PROVE  Ahead(m, j, full, current)
  <2>1. CASE full # {}
    <3>1. m \in full BY <2>1, <1>1
    <3>2. CASE j \in full BY <2>1, <3>1, <3>2, <1>1, <1>3 DEF Ahead
    <3>3. CASE j \notin full BY <3>1, <3>3 DEF Ahead
    <3>4. QED BY <3>2, <3>3
  <2>2. CASE full = {} BY <2>2, <1>1, <1>3 DEF Ahead
  <2>3. QED BY <2>1, <2>2
<1>5. QED BY <1>1, <1>4

LEMMA GroupIs ==
    ASSUME rows \in Seq(Row), NEW S, S \subseteq DOMAIN rows, NEW i \in S
    PROVE  /\ i \in Group(i, S) /\ Group(i, S) \subseteq S
           /\ \A j \in Group(i, S) : Group(j, S) = Group(i, S)
           /\ Last(Group(i, S)) \in Group(i, S)
           /\ \A j \in Group(i, S) : j <= Last(Group(i, S)) /\ rows[j].gen = rows[i].gen
<1>1. i \in Group(i, S) /\ Group(i, S) \subseteq S BY DEF Group
<1>2. \A j \in Group(i, S) : Group(j, S) = Group(i, S) /\ rows[j].gen = rows[i].gen BY DEF Group
<1>3. Group(i, S) \subseteq 1 .. Len(rows) /\ Len(rows) \in Nat BY <1>1
<1>4. Last(Group(i, S)) \in Group(i, S) /\ \A j \in Group(i, S) : j <= Last(Group(i, S))
    BY <1>1, <1>3, LastIs
<1>5. QED BY <1>1, <1>2, <1>4

\* What is selected is a group of the rows that count, and goes before all others.
SelectedIs ==
    \A tier \in Tiers, mode \in Modes :
        LET S == Readable(tier, mode)
        IN  S # {} => \E m \in S :
                /\ Selected(tier, mode) = Group(m, S)
                /\ \A j \in S : Before(tier, Group(m, S), Group(j, S))
LEMMA Selecting == TypeOK => SelectedIs
<1> SUFFICES ASSUME TypeOK, NEW tier \in Tiers, NEW mode \in Modes, Readable(tier, mode) # {}
             PROVE  \E m \in Readable(tier, mode) :
                       /\ Selected(tier, mode) = Group(m, Readable(tier, mode))
                       /\ \A j \in Readable(tier, mode) :
                             Before(tier, Group(m, Readable(tier, mode)),
                                    Group(j, Readable(tier, mode)))
    BY DEF SelectedIs
<1> DEFINE S == Readable(tier, mode)
           G(i) == Group(i, S)
           groups == {G(i) : i \in S}
           full == {i \in S : Complete(tier, G(i))}
           current == {i \in S : rows[i].gen = screen[tier]}
<1>1. rows \in Seq(Row) /\ S \subseteq DOMAIN rows /\ S \subseteq 1 .. Len(rows) /\ Len(rows) \in Nat
    BY DEF TypeOK, Readable
<1>2. PICK m \in S : \A j \in S : Ahead(m, j, full, current)
  <2>1. full \in SUBSET S /\ current \in SUBSET S /\ S # {} OBVIOUS
  <2> HIDE DEF S, full, current
  <2>2. S \subseteq 1 .. Len(rows) /\ Len(rows) \in Nat BY <1>1
  <2>3. QED BY <2>1, <2>2, Best
<1>3. ASSUME NEW i \in S
      PROVE  /\ Last(G(i)) \in S /\ Last(G(i)) >= i
             /\ Last(G(i)) \in full <=> Complete(tier, G(i))
             /\ i \in full <=> Complete(tier, G(i))
             /\ Last(G(i)) \in current <=> Now(tier, G(i))
             /\ i \in current <=> Now(tier, G(i))
  <2> HIDE DEF S
  <2>1. /\ i \in G(i) /\ G(i) \subseteq S
        /\ \A j \in G(i) : G(j) = G(i)
        /\ Last(G(i)) \in G(i)
        /\ \A j \in G(i) : j <= Last(G(i)) /\ rows[j].gen = rows[i].gen
      BY <1>1, GroupIs
  <2>2. i \in Int /\ Last(G(i)) \in Int BY <1>1, <2>1
  <2> HIDE DEF G
  <2>3. Last(G(i)) \in S /\ Last(G(i)) >= i BY <2>1, <2>2
  <2>4. G(Last(G(i))) = G(i) BY <2>1
  <2>5. rows[Last(G(i))].gen = rows[i].gen BY <2>1
  <2>6. QED BY <2>3, <2>4, <2>5 DEF Now
<1> HIDE DEF S, G, full, current
<1>4. m \in Int /\ Last(G(m)) \in Int /\ Last(G(m)) = m
  <2>1. m \in Int /\ Last(G(m)) \in Int BY <1>1, <1>3
  <2>2. m >= Last(G(m)) BY <1>2, <1>3 DEF Ahead
  <2>3. Last(G(m)) >= m BY <1>3
  <2>4. QED BY <2>1, <2>2, <2>3
<1>5. ASSUME NEW j \in S PROVE Before(tier, G(m), G(j))
  <2>1. Last(G(j)) \in S BY <1>3
  <2>2. /\ m \in full <=> Complete(tier, G(m))
        /\ m \in current <=> Now(tier, G(m))
        /\ Last(G(j)) \in full <=> Complete(tier, G(j))
        /\ Last(G(j)) \in current <=> Now(tier, G(j)) BY <1>3
  <2>3. Ahead(m, Last(G(j)), full, current) BY <1>2, <2>1
  <2>4. /\ Complete(tier, G(m)) \in BOOLEAN /\ Complete(tier, G(j)) \in BOOLEAN
        /\ Now(tier, G(m)) \in BOOLEAN /\ Now(tier, G(j)) \in BOOLEAN BY DEF Complete, Now
  <2>5. QED BY <2>2, <2>3, <2>4, <1>4 DEF Before, Ahead
<1>6. \E A \in groups : \A B \in groups : Before(tier, A, B) BY <1>5
<1>7. Selected(tier, mode) = CHOOSE A \in groups : \A B \in groups : Before(tier, A, B)
    BY DEF Selected, S, G
<1>8. Selected(tier, mode) \in groups /\ \A B \in groups : Before(tier, Selected(tier, mode), B)
    BY <1>6, <1>7
<1>9. PICK k \in S : Selected(tier, mode) = G(k) BY <1>8
<1>10. QED BY <1>8, <1>9 DEF S, G

-----------------------------------------------------------------------------
\* What leaves the engine was decided by both voters.

\* What a group's votes say is what its voters said last.
LEMMA SaidIsLast ==
    ASSUME TypeOK, NEW tier \in Tiers, NEW m \in Readable(tier, "live"), NEW v \in Voters,
           NEW i \in Votes(Group(m, Readable(tier, "live"))), rows[i].voter = v
    PROVE  /\ LastSaid(tier, rows[m].gen, rows[m].asked, v) = rows[i].said
           /\ rows[i].said \in Said(Group(m, Readable(tier, "live"))) \ {"none"}
<1> DEFINE S == Readable(tier, "live")
           A == Group(m, S)
           T == {k \in DOMAIN rows : /\ rows[k].tier = tier /\ rows[k].mode = "live"
                                     /\ rows[k].gen = rows[m].gen
                                     /\ rows[k].asked = rows[m].asked
                                     /\ rows[k].voter = v /\ rows[k].said # "none"}
<1>1. T = {k \in Answers(A) : rows[k].voter = v}
    BY DEF Readable, Group, Answers
<1>2. i \in Answers(A) /\ \A j \in Answers(A) : rows[j].voter = v => j <= i BY DEF Votes
<1>3. T \subseteq 1 .. Len(rows) /\ Len(rows) \in Nat BY DEF TypeOK
<1>4. i \in T
  <2> HIDE DEF T, A
  <2>1. QED BY <1>1, <1>2
<1>5. Last(T) \in T /\ \A j \in T : j <= Last(T)
  <2> HIDE DEF T
  <2>1. QED BY <1>3, <1>4, LastIs
<1>6. Last(T) = i
  <2> HIDE DEF T, A
  <2>1. i \in Int /\ Last(T) \in Int
    <3>1. PICK n \in Nat : n = Len(rows) BY <1>3
    <3>2. i \in 1 .. n /\ Last(T) \in 1 .. n BY <1>3, <1>4, <1>5, <3>1
    <3>3. QED BY <3>2
  <2>2. i <= Last(T) BY <1>4, <1>5
  <2>3. Last(T) \in Answers(A) /\ rows[Last(T)].voter = v BY <1>1, <1>5
  <2>4. Last(T) <= i BY <1>2, <2>3
  <2>5. QED BY <2>1, <2>2, <2>4
<1>7. LastSaid(tier, rows[m].gen, rows[m].asked, v) = rows[i].said
  <2>1. LastSaid(tier, rows[m].gen, rows[m].asked, v)
            = IF T = {} THEN "none" ELSE rows[Last(T)].said BY DEF LastSaid
  <2> HIDE DEF T
  <2>2. QED BY <2>1, <1>4, <1>6
<1>8. QED BY <1>2, <1>7 DEF Said, Answers

\* Each voter who answered has a vote.
LEMMA HasVote ==
    ASSUME rows \in Seq(Row), NEW A, A \subseteq DOMAIN rows, NEW k \in Answers(A)
    PROVE  \E i \in Votes(A) : rows[i].voter = rows[k].voter
<1> DEFINE T == {j \in Answers(A) : rows[j].voter = rows[k].voter}
<1>1. T \subseteq 1 .. Len(rows) /\ Len(rows) \in Nat /\ k \in T BY DEF Answers
<1>2. Last(T) \in T /\ \A j \in T : j <= Last(T)
  <2> HIDE DEF T
  <2>1. QED BY <1>1, LastIs
<1>3. QED BY <1>2 DEF Votes

\* A decision comes from one generation that counts and one question.
LEMMA DecidedByBoth ==
    ASSUME TypeOK, NEW tier \in Tiers,
           \/ Decision(tier, "live") = "discard"
           \/ tier = "main" /\ Decision(tier, "live") = "proceed"
    PROVE  \E g \in Accepted(tier), q \in Texts \cup {Unrecorded} :
              /\ \A v \in Voters : LastSaid(tier, g, q, v) # "none"
              /\ Decision(tier, "live") = "discard" => \A v \in Voters : LastSaid(tier, g, q, v) = "no"
              /\ Decision(tier, "live") = "proceed" => \E v \in Voters : LastSaid(tier, g, q, v) = "yes"
<1> DEFINE S == Readable(tier, "live")
<1>1. "live" \in Modes BY DEF Modes
<1>2. rows \in Seq(Row) /\ S \subseteq DOMAIN rows BY DEF TypeOK, Readable
<1>3. Complete(tier, Selected(tier, "live")) BY DEF Decision, Outcome
<1>4. S # {}
  <2>1. Complete(tier, {}) => FALSE BY DEF Complete, Said, Votes, Answers, Voters
  <2>2. S = {} => Selected(tier, "live") = {} BY DEF Selected
  <2>3. QED BY <2>1, <2>2, <1>3
<1>5. PICK m \in S : Selected(tier, "live") = Group(m, S) BY <1>1, <1>4, Selecting DEF SelectedIs
<1> DEFINE A == Group(m, S)
<1>6. A \subseteq DOMAIN rows BY <1>2 DEF Group
<1>7. Voters \subseteq {rows[i].voter : i \in Answers(A)}
  <2>1. Decision(tier, "live") = "discard" => "yes" \notin Said(A) BY <1>5 DEF Decision, Outcome
  <2>2. tier = "main" => ~(tier = "cheap") OBVIOUS
  <2>3. QED BY <1>3, <1>5, <2>1, <2>2 DEF Complete
<1>8. ASSUME NEW v \in Voters
      PROVE  LastSaid(tier, rows[m].gen, rows[m].asked, v) \in Said(A) \ {"none"}
  <2>1. PICK k \in Answers(A) : rows[k].voter = v BY <1>7
  <2>2. PICK i \in Votes(A) : rows[i].voter = v BY <2>1, <1>2, <1>6, HasVote
  <2>3. QED BY <2>2, SaidIsLast
<1>9. rows[m] \in Row /\ rows[m].gen \in Accepted(tier) BY <1>2 DEF Readable
<1>10. rows[m].asked \in Texts \cup {Unrecorded} BY <1>9 DEF Row
<1>11. Said(A) \subseteq {"no", "yes", "none"}
  <2>1. \A i \in A : rows[i] \in Row BY <1>2, <1>6
  <2>2. QED BY <2>1 DEF Said, Votes, Answers, Row
<1>12. Decision(tier, "live") = "discard" =>
           \A v \in Voters : LastSaid(tier, rows[m].gen, rows[m].asked, v) = "no"
  <2>1. Decision(tier, "live") = "discard" => "yes" \notin Said(A) BY <1>5 DEF Decision, Outcome
  <2>2. QED BY <2>1, <1>8, <1>11
<1>13. Decision(tier, "live") = "proceed" =>
           \E v \in Voters : LastSaid(tier, rows[m].gen, rows[m].asked, v) = "yes"
  <2>1. SUFFICES ASSUME Decision(tier, "live") = "proceed"
                 PROVE  \E v \in Voters : LastSaid(tier, rows[m].gen, rows[m].asked, v) = "yes"
      OBVIOUS
  <2>2. "yes" \in Said(A) BY <2>1, <1>5 DEF Decision, Outcome
  <2>3. PICK i \in Votes(A) : rows[i].said = "yes" BY <2>2 DEF Said
  <2>4. rows[i] \in Row BY <1>2, <1>6 DEF Votes, Answers
  <2>5. rows[i].voter \in Voters BY <2>4 DEF Row
  <2>6. QED BY <2>3, <2>5, SaidIsLast
<1>14. QED BY <1>8, <1>9, <1>10, <1>12, <1>13

\* Whatever is dropped or let in was decided by both voters of one generation, asked
\* one question.
THEOREM ScreenedByOne == Spec => []OneScreen
<1>1. TypeOK => OneScreen
  <2> SUFFICES ASSUME TypeOK PROVE OneScreen OBVIOUS
  <2>1. "main" \in Tiers /\ "cheap" \in Tiers /\ "discard" # "proceed" BY DEF Tiers
  <2>2. ASSUME NEW tier \in Tiers, Decision(tier, "live") = "discard"
        PROVE  \E g \in Accepted(tier), q \in Texts \cup {Unrecorded} :
                  \A v \in Voters : LastSaid(tier, g, q, v) = "no"
      BY <2>2, DecidedByBoth
  <2>3. ASSUME Decision("main", "live") = "proceed"
        PROVE  \E g \in Accepted("main"), q \in Texts \cup {Unrecorded} :
                  /\ \A v \in Voters : LastSaid("main", g, q, v) # "none"
                  /\ \E v \in Voters : LastSaid("main", g, q, v) = "yes"
      BY <2>1, <2>3, DecidedByBoth
  <2>4. QED BY <2>1, <2>2, <2>3 DEF OneScreen, Dropped, Admitted
<1>2. QED BY <1>1, TypeCorrect, PTL

-----------------------------------------------------------------------------
\* What a step does to the rows: nothing, or it appends one while texts, routes and
\* generations rest.
Appended(row) ==
    /\ row \in Row /\ rows' = Append(rows, row)
    /\ UNCHANGED <<screen, text, fetched>>
LEMMA RowsStep ==
    ASSUME TypeOK, [Next]_vars
    PROVE  rows' = rows \/ \E row \in Row : Appended(row)
<1>1. ASSUME NEW r \in Runs, NEW said \in {"no", "yes", "none"}, jobs[r].pc = "writing",
             Write(jobs[r], said), UNCHANGED <<screen, text, fetched>>
      PROVE  \E row \in Row : Appended(row)
  <2>1. jobs[r] \in Writing BY <1>1, JobKinds DEF TypeOK, JobsType
  <2> DEFINE row == [tier |-> jobs[r].tier, mode |-> jobs[r].mode, gen |-> jobs[r].gen,
                     asked |-> jobs[r].asked, voter |-> jobs[r].voter, said |-> said]
  <2>2. row \in Row BY <2>1 DEF Writing, Row, Gens
  <2>3. rows' = Append(rows, row) BY <1>1 DEF Write
  <2> HIDE DEF row
  <2>4. QED BY <1>1, <2>2, <2>3 DEF Appended
<1>2. ASSUME NEW r \in Runs, VoteFails(r)
      PROVE  rows' = rows \/ \E row \in Row : Appended(row)
  <2>1. "none" \in {"no", "yes", "none"} OBVIOUS
  <2>2. QED BY <1>1, <1>2, <2>1 DEF VoteFails
<1>3. ASSUME NEW r \in Runs, Goes(r)
      PROVE  rows' = rows \/ \E row \in Row : Appended(row)
  <2>1. ASSUME NEW said \in {"no", "yes"}, Record(r, said)
        PROVE  \E row \in Row : Appended(row) BY <1>1, <2>1 DEF Record
  <2>2. QED BY <1>3, <2>1 DEF Goes, Plan, ClaimRefused, Claim
<1>4. QED BY <1>2, <1>3 DEF Next, vars, Plan, Kill, Lapse, Deploy, NewText, Route

LEMMA RowsStay ==
    ASSUME TypeOK, [Next]_vars
    PROVE  /\ rows \in Seq(Row) /\ rows' \in Seq(Row)
           /\ DOMAIN rows \subseteq DOMAIN rows'
           /\ \A i \in DOMAIN rows : rows'[i] = rows[i]
<1>1. rows \in Seq(Row) BY DEF TypeOK
<1>2. CASE rows' = rows BY <1>1, <1>2
<1>3. CASE \E row \in Row : Appended(row)
  <2>1. PICK row \in Row : rows' = Append(rows, row) BY <1>3 DEF Appended
  <2>2. QED BY <1>1, <2>1
<1>4. QED BY <1>2, <1>3, RowsStep

\* A complete screen of the main tier stays complete as its group grows.
LEMMA CompleteGrows ==
    ASSUME TypeOK, [Next]_vars, NEW A, NEW B, A \subseteq DOMAIN rows, A \subseteq B,
           Complete("main", A)
    PROVE  Complete("main", B)'
<1>1. \A i \in A : rows'[i] = rows[i] BY RowsStay
<1>2. \A i \in Answers(A) : i \in Answers(B)' /\ rows'[i].voter = rows[i].voter
    BY <1>1 DEF Answers
<1>3. Voters \subseteq {rows[i].voter : i \in Answers(A)} BY DEF Complete
<1>4. Voters \subseteq {rows'[i].voter : i \in Answers(B)'} BY <1>2, <1>3
<1>5. QED BY <1>4 DEF Complete

\* No attempt of the main screen takes a decision back.
THEOREM DecisionsStay == Spec => StaysDecided
<1>1. ASSUME TypeOK, TypeOK', SelectedIs, SelectedIs', [Next]_vars, NEW mode \in Modes,
             screen'["main"] = screen["main"], Complete("main", Selected("main", mode))
      PROVE  Complete("main", Selected("main", mode))'
  <2> DEFINE S == Readable("main", mode)
  <2>1. "main" \in Tiers BY DEF Tiers
  <2>2. S \subseteq DOMAIN rows BY DEF Readable
  <2>3. S \subseteq S' /\ \A i \in S : rows'[i] = rows[i]
    <3>1. Accepted("main")' = Accepted("main") BY <1>1 DEF Accepted
    <3>2. QED BY <1>1, <2>2, <3>1, RowsStay DEF Readable
  <2>4. S # {}
    <3>1. Complete("main", {}) => FALSE BY DEF Complete, Answers, Voters
    <3>2. S = {} => Selected("main", mode) = {} BY DEF Selected
    <3>3. QED BY <1>1, <3>1, <3>2
  <2>5. PICK m \in S : Selected("main", mode) = Group(m, S)
      BY <1>1, <2>1, <2>4 DEF SelectedIs
  <2>6. m \in S' /\ S' # {} BY <2>3, <2>5
  <2>7. PICK n \in S' : /\ Selected("main", mode)' = Group(n, S)'
                       /\ \A j \in S' : Before("main", Group(n, S), Group(j, S))'
      BY <1>1, <2>1, <2>6 DEF SelectedIs
  <2>8. Group(m, S) \subseteq Group(m, S)' BY <2>3, <2>5 DEF Group
  <2>9. Complete("main", Group(m, S))'
    <3>1. Group(m, S) \subseteq DOMAIN rows BY <2>2 DEF Group
    <3>2. QED BY <1>1, <2>5, <2>8, <3>1, CompleteGrows
  <2>10. Before("main", Group(n, S), Group(m, S))' BY <2>6, <2>7
  <2>11. Complete("main", Group(n, S))' BY <2>9, <2>10 DEF Before
  <2>12. QED BY <2>7, <2>11
<1>2. TypeOK /\ TypeOK' /\ SelectedIs /\ SelectedIs' /\ [Next]_vars =>
          [\A mode \in Modes :
              screen'["main"] = screen["main"] /\ Complete("main", Selected("main", mode)) =>
                  Complete("main", Selected("main", mode))']_vars
    BY <1>1
<1>3. QED BY <1>2, TypeCorrect, Selecting, PTL DEF Spec, StaysDecided

\* A row of the other mode is not among those read, and those read say what they said.
LEMMA Unread ==
    ASSUME TypeOK, NEW tier \in Tiers, NEW mode \in Modes, NEW row \in Row,
           Appended(row), row.mode # mode
    PROVE  /\ rows \in Seq(Row) /\ Readable(tier, mode) \subseteq DOMAIN rows
           /\ Readable(tier, mode)' = Readable(tier, mode)
           /\ \A i \in Readable(tier, mode) : rows'[i] = rows[i]
<1>1. rows \in Seq(Row) /\ rows' = Append(rows, row) /\ screen' = screen
    BY DEF TypeOK, Appended
<1>2. /\ DOMAIN rows' = DOMAIN rows \cup {Len(rows) + 1} /\ Len(rows) + 1 \notin DOMAIN rows
      /\ \A i \in DOMAIN rows : rows'[i] = rows[i]
      /\ rows'[Len(rows) + 1] = row
    BY <1>1
<1>3. Accepted(tier)' = Accepted(tier) BY <1>1 DEF Accepted
<1>4. Readable(tier, mode)' = Readable(tier, mode) BY <1>2, <1>3 DEF Readable
<1>5. QED BY <1>1, <1>2, <1>4 DEF Readable

LEMMA ReadAlike ==
    ASSUME NEW A, \A i \in A : rows'[i] = rows[i], screen' = screen, NEW tier \in Tiers
    PROVE  /\ Said(A)' = Said(A) /\ Complete(tier, A)' = Complete(tier, A)
           /\ Outcome(tier, A)' = Outcome(tier, A)
           /\ Last(A) \in A => Now(tier, A)' = Now(tier, A)
<1>1. Answers(A)' = Answers(A) BY DEF Answers
<1>2. \A i \in Answers(A) : rows'[i] = rows[i] BY DEF Answers
<1>3. Votes(A)' = Votes(A) BY <1>1, <1>2 DEF Votes
<1>4. \A i \in Votes(A) : rows'[i] = rows[i] BY <1>2 DEF Votes
<1>5. Said(A)' = Said(A) BY <1>3, <1>4 DEF Said
<1>6. {rows'[i].voter : i \in Answers(A)'} = {rows[i].voter : i \in Answers(A)} BY <1>1, <1>2
<1>7. Complete(tier, A)' = Complete(tier, A) BY <1>5, <1>6 DEF Complete
<1>8. Outcome(tier, A)' = Outcome(tier, A) BY <1>5, <1>7 DEF Outcome
<1>9. Last(A) \in A => Now(tier, A)' = Now(tier, A) BY DEF Now
<1>10. QED BY <1>5, <1>7, <1>8, <1>9

LEMMA SelectedAlike ==
    ASSUME TypeOK, TypeOK', SelectedIs, SelectedIs',
           NEW tier \in Tiers, NEW mode \in Modes, NEW row \in Row,
           Appended(row), row.mode # mode
    PROVE  Selected(tier, mode)' = Selected(tier, mode)
<1> DEFINE S == Readable(tier, mode)
<1>1. /\ rows \in Seq(Row) /\ S \subseteq DOMAIN rows /\ S' = S
      /\ \A i \in S : rows'[i] = rows[i]
    BY Unread
<1>2. CASE S = {}
  <2>1. Selected(tier, mode) = {} BY <1>2 DEF Selected
  <2>2. Selected(tier, mode)' = {} BY <1>1, <1>2 DEF Selected
  <2>3. QED BY <2>1, <2>2
<1>3. CASE S # {}
  <2>1. PICK m \in S : /\ Selected(tier, mode) = Group(m, S)
                       /\ \A j \in S : Before(tier, Group(m, S), Group(j, S))
      BY <1>3 DEF SelectedIs
  <2>2. S' # {} BY <1>1, <1>3
  <2>3. PICK n \in S' : /\ Selected(tier, mode)' = Group(n, S)'
                        /\ \A j \in S' : Before(tier, Group(n, S), Group(j, S))'
      BY <2>2 DEF SelectedIs
  <2>4. n \in S BY <1>1, <2>3
  <2>5. \A i \in S : Group(i, S)' = Group(i, S) BY <1>1 DEF Group
  <2> DEFINE A == Group(m, S)
             B == Group(n, S)
  <2>6. /\ A \subseteq S /\ B \subseteq S
        /\ Last(A) \in A /\ Last(B) \in B
        /\ \A j \in A : Group(j, S) = A
        /\ \A j \in B : Group(j, S) = B
    <3> HIDE DEF S
    <3>1. QED BY <1>1, <2>1, <2>4, GroupIs
  <2>7. A' = A /\ B' = B BY <2>4, <2>5, <2>1
  <2>8. Before(tier, A, B) BY <2>1, <2>4
  <2>9. Before(tier, B, A)' BY <1>1, <2>1, <2>3
  <2>10. PICK a : a = A OBVIOUS
  <2>11. PICK b : b = B OBVIOUS
  <2>12. Before(tier, b, a)' BY <2>7, <2>9, <2>10, <2>11 DEF Before, Complete, Now, Said, Votes, Answers
  <2>13. /\ Complete(tier, a)' = Complete(tier, a) /\ Complete(tier, b)' = Complete(tier, b)
         /\ Now(tier, a)' = Now(tier, a) /\ Now(tier, b)' = Now(tier, b)
    <3>1. \A i \in a \cup b : rows'[i] = rows[i] BY <1>1, <2>6, <2>10, <2>11
    <3>2. screen' = screen BY DEF Appended
    <3>3. Last(a) \in a /\ Last(b) \in b BY <2>6, <2>10, <2>11
    <3>4. QED BY <3>1, <3>2, <3>3, ReadAlike
  <2>14. Before(tier, b, a) BY <2>12, <2>13 DEF Before
  <2>15. Before(tier, a, b) BY <2>8, <2>10, <2>11
  <2>16. Last(a) \in Int /\ Last(b) \in Int BY <1>1, <2>6, <2>10, <2>11
  <2>17. Last(a) >= Last(b) /\ Last(b) >= Last(a)
    <3>1. /\ Complete(tier, a) \in BOOLEAN /\ Complete(tier, b) \in BOOLEAN
          /\ Now(tier, a) \in BOOLEAN /\ Now(tier, b) \in BOOLEAN BY DEF Complete, Now
    <3> HIDE DEF A, B
    <3>2. QED BY <3>1, <2>14, <2>15 DEF Before
  <2>18. Last(A) = Last(B) BY <2>10, <2>11, <2>16, <2>17
  <2>19. A = B BY <2>6, <2>18
  <2>20. QED BY <2>1, <2>3, <2>7, <2>19
<1>4. QED BY <1>2, <1>3

\* A row of one mode changes nothing in the other.
THEOREM ModesApart == Spec => Sandboxed
<1>1. ASSUME TypeOK, TypeOK', SelectedIs, SelectedIs', NEW mode \in Modes, NEW tier \in Tiers,
             NEW row \in Row, Appended(row), row.mode # mode
      PROVE  /\ Decision(tier, mode)' = Decision(tier, mode)
             /\ Settled(tier, mode)' = Settled(tier, mode)
  <2>1. PICK A : A = Selected(tier, mode) OBVIOUS
  <2>2. Selected(tier, mode)' = A BY <1>1, <2>1, SelectedAlike
  <2>3. A = {} \/ Last(A) \in A
    <3>1. Readable(tier, mode) # {} =>
              \E m \in Readable(tier, mode) : A = Group(m, Readable(tier, mode))
        BY <1>1, <2>1 DEF SelectedIs
    <3>2. Readable(tier, mode) = {} => A = {} BY <2>1 DEF Selected
    <3>3. rows \in Seq(Row) /\ Readable(tier, mode) \subseteq DOMAIN rows BY <1>1, Unread
    <3>4. QED BY <3>1, <3>2, <3>3, GroupIs
  <2>4. \A i \in A : rows'[i] = rows[i]
    <3>1. A \subseteq Readable(tier, mode)
      <4>1. CASE Readable(tier, mode) = {} BY <2>1, <4>1 DEF Selected
      <4>2. CASE Readable(tier, mode) # {}
          BY <1>1, <2>1, <4>2 DEF SelectedIs, Group
      <4>3. QED BY <4>1, <4>2
    <3>2. QED BY <1>1, <3>1, Unread
  <2>5. screen' = screen /\ text' = text /\ fetched' = fetched BY <1>1 DEF Appended
  <2>6. Outcome(tier, A)' = Outcome(tier, A) /\ Complete(tier, A)' = Complete(tier, A)
      BY <2>4, <2>5, ReadAlike
  <2>7. Decision(tier, mode) = Outcome(tier, A) BY <2>1 DEF Decision
  <2>8. Decision(tier, mode)' = Outcome(tier, A)'
      BY <2>2 DEF Decision, Outcome, Complete, Said, Votes, Answers
  <2>9. Decision(tier, mode)' = Decision(tier, mode) BY <2>6, <2>7, <2>8
  <2>10. A # {} => Moved(A)' = Moved(A) BY <2>3, <2>4, <2>5 DEF Moved
  <2>11. Decision(tier, mode) # "incomplete" => A # {}
    <3>1. Complete(tier, {}) => FALSE BY DEF Complete, Said, Votes, Answers, Voters
    <3>2. QED BY <3>1, <2>7 DEF Outcome
  <2>12. Settled(tier, mode) = (Decision(tier, mode) # "incomplete" /\ ~Moved(A))
      BY <2>1 DEF Settled
  <2>13. Settled(tier, mode)' = (Decision(tier, mode)' # "incomplete" /\ ~Moved(A)')
      BY <2>2 DEF Settled, Moved
  <2>14. QED BY <2>9, <2>10, <2>11, <2>12, <2>13
<1>2. TypeOK /\ TypeOK' /\ SelectedIs /\ SelectedIs' /\ [Next]_vars =>
          [\A mode \in Modes :
              rows' # rows /\ rows'[Len(rows')].mode # mode =>
                  \A tier \in Tiers :
                      Decision(tier, mode)' = Decision(tier, mode)
                      /\ Settled(tier, mode)' = Settled(tier, mode)]_vars
  <2>1. SUFFICES ASSUME TypeOK, TypeOK', SelectedIs, SelectedIs', [Next]_vars, rows' # rows,
                        NEW mode \in Modes, rows'[Len(rows')].mode # mode, NEW tier \in Tiers
                 PROVE  /\ Decision(tier, mode)' = Decision(tier, mode)
                        /\ Settled(tier, mode)' = Settled(tier, mode)
      OBVIOUS
  <2>2. PICK row \in Row : Appended(row) BY <2>1, RowsStep
  <2>3. rows' = Append(rows, row) /\ rows \in Seq(Row) BY <2>1, <2>2 DEF Appended, TypeOK
  <2>4. rows'[Len(rows')] = row BY <2>3
  <2>5. QED BY <2>1, <2>2, <2>4, <1>1
<1>3. QED BY <1>2, TypeCorrect, Selecting, PTL DEF Spec, Sandboxed
=============================================================================
