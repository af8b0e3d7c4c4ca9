------------------------------ MODULE Screening ------------------------------
(***************************************************************************)
(* How the votes about a work become the decision it is skipped by and the *)
(* decision it is exported by.  Nothing stores a decision: every reader    *)
(* makes it anew from permanent rows, which several runs wrote, in several *)
(* claims, in either mode, under other voters, about a text the work no    *)
(* longer has, and sometimes by half.                                      *)
(*                                                                         *)
(* Works are decided one by one: the module follows one of them.  Claims   *)
(* are held while a run writes (`TierRun` opens them up), a read of the    *)
(* rows is one step, and admission gates are left out.                     *)
(***************************************************************************)
EXTENDS Integers, Sequences, FiniteSets

CONSTANTS
    Runs,           \* processes running `screen`
    Screens,        \* generations: a voter pair and its prompt
    Equivalent,     \* the older generations each declares equivalent
    Grandfathered,  \* those whose voters wrote the rows without a generation
    Texts,          \* what the work's text may be, and so what may be asked
    Starts,         \* the rows and the generation there may be to begin with
    MaxEvents       \* bound: deployments, new texts and routes, trial runs, runs that
                    \* overlap, failed votes, kills, lapsed leases

Tiers == {"cheap", "main"}       \* screen_cheap and screen_expensive
Modes == {"live", "validation"}
Voters == {1, 2}
Unrecorded == "unrecorded"       \* a row older than its generation, or its question

ASSUME ScreensAssumption ==
    /\ Unrecorded \notin Screens \cup Texts
    /\ Equivalent \in [Screens -> SUBSET Screens] /\ Grandfathered \subseteq Screens
    /\ Texts # {}
ASSUME BoundAssumption == MaxEvents \in Nat

VARIABLES
    rows,       \* engine_verdicts about the work, in the order created
    screen,     \* the generation each tier screens with
    pile,       \* the tier the work is routed to
    text, fetched,   \* its text, and when an overlay last supplied it
    jobs,       \* what each process keeps in memory
    events

vars == <<rows, screen, pile, text, fetched, jobs, events>>

Idle == [pc |-> "idle"]
Init ==
    /\ \E start \in Starts :
          rows = start.rows /\ screen = [t \in Tiers |-> start.screen]
    /\ pile \in Tiers
    /\ text = CHOOSE t \in Texts : TRUE
    /\ fetched = 0
    /\ jobs = [r \in Runs |-> Idle]
    /\ events = 0

Event == events < MaxEvents /\ events' = events + 1

-----------------------------------------------------------------------------
\* Reading the rows.  A set of rows is a set of their indices.
Last(S) == CHOOSE i \in S : \A j \in S : j <= i

\* _answer_rows: the latest answer of each voter; a call that failed is no answer.
Answers(S) == {i \in S : rows[i].said # "none"}
Votes(S) == {i \in Answers(S) : \A j \in Answers(S) : rows[j].voter = rows[i].voter => j <= i}
Said(S) == {rows[i].said : i \in Votes(S)}

\* Two votes decide, and at the cheap tier one that keeps the work.
Complete(tier, S) ==
    \/ Voters \subseteq {rows[i].voter : i \in Answers(S)}
    \/ tier = "cheap" /\ "yes" \in Said(S)
Outcome(tier, S) ==
    IF ~Complete(tier, S) THEN "incomplete"
    ELSE IF "yes" \in Said(S) THEN "proceed" ELSE "discard"

\* _generation_current
Accepted(tier) ==
    {screen[tier]} \cup (IF tier = "main" THEN Equivalent[screen[tier]] ELSE {})
                   \cup {g \in {Unrecorded} : screen[tier] \in Grandfathered}

\* _mode_rows, and those of them that still count.
\* Mutant: the mode is not looked at.
ReadableInAny(tier, mode) ==
    {i \in DOMAIN rows : rows[i].tier = tier /\ rows[i].gen \in Accepted(tier)}
Readable(tier, mode) ==
    {i \in DOMAIN rows : rows[i].tier = tier /\ rows[i].mode = mode
                         /\ rows[i].gen \in Accepted(tier)}

\* _by_work: the rows of one generation and one question.
\* Mutant: answers to different texts are pooled.
GroupPooled(i, S) == {j \in S : rows[j].gen = rows[i].gen}
Group(i, S) == {j \in S : rows[j].gen = rows[i].gen /\ rows[j].asked = rows[i].asked}
Now(tier, S) == rows[Last(S)].gen = screen[tier]

\* A complete group goes before an incomplete one, then one of the current
\* generation, then the latest.
\* Mutant: the latest group, whatever it amounts to.
BeforeIfLater(tier, A, B) == Last(A) >= Last(B)
Before(tier, A, B) ==
    IF Complete(tier, A) # Complete(tier, B) THEN Complete(tier, A)
    ELSE IF Now(tier, A) # Now(tier, B) THEN Now(tier, A)
    ELSE Last(A) >= Last(B)
Selected(tier, mode) ==
    LET S == Readable(tier, mode)
        groups == {Group(i, S) : i \in S}
    IN  IF S = {} THEN {} ELSE CHOOSE A \in groups : \A B \in groups : Before(tier, A, B)
Decision(tier, mode) == Outcome(tier, Selected(tier, mode))

\* _question_moved: rows that do not say what they answered stand unless an
\* overlay has brought a text since.
Moved(S) ==
    IF rows[Last(S)].asked = Unrecorded THEN fetched > Last(S)
    ELSE rows[Last(S)].asked # text

\* decided_work_ids, the checkpoint.
\* Mutant: a trial run settles the work for everybody.
SettledInAny(tier, mode) ==
    \E m \in Modes : Decision(tier, m) # "incomplete" /\ ~Moved(Selected(tier, m))
Settled(tier, mode) ==
    Decision(tier, mode) # "incomplete" /\ ~Moved(Selected(tier, mode))

\* handoff.decisions: the main screen drops or admits; the cheap one drops what
\* the main one has no row about.
Dropped ==
    \/ Decision("main", "live") = "discard"
    \/ Decision("cheap", "live") = "discard" /\ Selected("main", "live") = {}
Admitted == Decision("main", "live") = "proceed"

-----------------------------------------------------------------------------
Held(tier) ==
    \E r \in Runs : jobs[r].pc = "writing" /\ jobs[r].tier = tier /\ ~jobs[r].lapsed

\* _batch: the work, unless it is claimed or settled.  With --limit, a decided work
\* is looked at again only if an overlay has supplied its text.
Plan(r, mode, limited) ==
    /\ jobs[r].pc = "idle"
    /\ IF mode = "live" /\ \A q \in Runs : jobs[q].pc = "idle" THEN UNCHANGED events ELSE Event
    /\ ~Held(pile) /\ ~Settled(pile, mode)
    /\ limited => Decision(pile, mode) = "incomplete" \/ fetched > 0
    /\ jobs' = [jobs EXCEPT ![r] =
            [pc |-> "planned", tier |-> pile, mode |-> mode, gen |-> screen[pile],
             asked |-> text]]
    /\ UNCHANGED <<rows, screen, pile, text, fetched>>

\* A conflict ends the run.
ClaimRefused(r) ==
    /\ jobs[r].pc = "planned" /\ Held(jobs[r].tier)
    /\ jobs' = [jobs EXCEPT ![r] = Idle]
    /\ UNCHANGED <<rows, screen, pile, text, fetched, events>>

\* Mutant: nobody looks whether the work is held.
ClaimAnyway(r) ==
    LET j == jobs[r]
    IN  /\ j.pc = "planned"
        /\ jobs' = [jobs EXCEPT ![r] =
                [pc |-> "writing", tier |-> j.tier, mode |-> j.mode, gen |-> j.gen,
                 asked |-> j.asked, voter |-> 1, lapsed |-> FALSE]]
        /\ UNCHANGED <<rows, screen, pile, text, fetched, events>>
Claim(r) ==
    LET j == jobs[r]
    IN  /\ j.pc = "planned" /\ ~Held(j.tier)
        /\ jobs' = [jobs EXCEPT ![r] =
                [pc |-> "writing", tier |-> j.tier, mode |-> j.mode, gen |-> j.gen,
                 asked |-> j.asked, voter |-> 1, lapsed |-> FALSE]]
        /\ UNCHANGED <<rows, screen, pile, text, fetched, events>>

Write(j, said) ==
    rows' = Append(rows, [tier |-> j.tier, mode |-> j.mode, gen |-> j.gen, asked |-> j.asked,
                          voter |-> j.voter, said |-> said])
Advance(r, more) ==
    jobs' = [jobs EXCEPT ![r] = IF more THEN [@ EXCEPT !.voter = 2] ELSE Idle]

\* Each vote is a row of its own.  The cheap tier asks its second voter only if the
\* first said no, and a bypass counts as a first voter who keeps the work.
Record(r, said) ==
    LET j == jobs[r]
    IN  /\ j.pc = "writing"
        /\ Write(j, said)
        /\ Advance(r, j.voter = 1 /\ (j.tier = "main" \/ said = "no"))
        /\ UNCHANGED <<screen, pile, text, fetched, events>>

\* A voter fails.  The cheap tier records that and stops; the main one records the
\* other's vote alone, or that it has none.
VoteFails(r) ==
    LET j == jobs[r]
    IN  /\ j.pc = "writing"
        /\ Event
        /\ \/ (j.tier = "cheap" \/ j.voter = 1) /\ Write(j, "none") /\ Advance(r, FALSE)
           \/ j.tier = "main" /\ UNCHANGED rows /\ Advance(r, j.voter = 1)
        /\ UNCHANGED <<screen, pile, text, fetched>>

\* The process dies, or an insert fails: what it wrote stays.
Kill(r) ==
    /\ jobs[r].pc = "writing"
    /\ Event
    /\ jobs' = [jobs EXCEPT ![r] = Idle]
    /\ UNCHANGED <<rows, screen, pile, text, fetched>>

\* The lease runs out under a run that goes on writing.
Lapse(r) ==
    /\ jobs[r].pc = "writing" /\ ~jobs[r].lapsed
    /\ Event
    /\ jobs' = [jobs EXCEPT ![r].lapsed = TRUE]
    /\ UNCHANGED <<rows, screen, pile, text, fetched>>

-----------------------------------------------------------------------------
\* A commit changes a tier's voters or prompt, perhaps back.
Deploy(tier, g) ==
    /\ g # screen[tier]
    /\ Event
    /\ screen' = [screen EXCEPT ![tier] = g]
    /\ UNCHANGED <<rows, pile, text, fetched, jobs>>

\* The text changes, perhaps back: by an overlay, or in the pool.
NewText(t, overlay) ==
    /\ t # text
    /\ Event
    /\ text' = t
    /\ fetched' = IF overlay THEN Len(rows) + 1 ELSE fetched
    /\ UNCHANGED <<rows, screen, pile, jobs>>

Route(p) ==
    /\ p # pile
    /\ Event
    /\ pile' = p
    /\ UNCHANGED <<rows, screen, text, fetched, jobs>>

Goes(r) ==
    \/ Plan(r, "live", FALSE) \/ ClaimRefused(r) \/ Claim(r)
    \/ \E said \in {"no", "yes"} : Record(r, said)

Next ==
    \/ \E r \in Runs :
        \/ Goes(r)
        \/ \E mode \in Modes, limited \in BOOLEAN : Plan(r, mode, limited)
        \/ VoteFails(r) \/ Kill(r) \/ Lapse(r)
    \/ \E tier \in Tiers, g \in Screens : Deploy(tier, g)
    \/ \E t \in Texts, overlay \in BOOLEAN : NewText(t, overlay)
    \/ \E p \in Tiers : Route(p)

Spec == Init /\ [][Next]_vars

\* Each process goes on, and is run again, live and over the whole pile.
FairSpec == Spec /\ \A r \in Runs : WF_vars(Goes(r))
-----------------------------------------------------------------------------
Gens == Screens \cup {Unrecorded}
Row ==
    [tier : Tiers, mode : Modes, gen : Gens, asked : Texts \cup {Unrecorded},
     voter : Voters, said : {"no", "yes", "none"}]
ASSUME StartsAssumption ==
    \A start \in Starts : start.rows \in Seq(Row) /\ start.screen \in Screens
Planned == [pc : {"planned"}, tier : Tiers, mode : Modes, gen : Screens, asked : Texts]
Writing ==
    [pc : {"writing"}, tier : Tiers, mode : Modes, gen : Screens, asked : Texts,
     voter : Voters, lapsed : BOOLEAN]

\* Everything has its shape, and the claim is no run's but one's.
TypeOK ==
    /\ rows \in Seq(Row)
    /\ screen \in [Tiers -> Screens] /\ pile \in Tiers
    /\ text \in Texts /\ fetched \in 0 .. Len(rows) + 1
    /\ jobs \in [Runs -> {Idle} \cup Planned \cup Writing]
    /\ \A r, q \in Runs :
            r # q /\ jobs[r].pc = "writing" /\ jobs[q].pc = "writing" =>
                jobs[r].tier # jobs[q].tier \/ jobs[r].lapsed \/ jobs[q].lapsed
    /\ events \in 0 .. MaxEvents

\* What a voter last answered to one question, under one generation.
LastSaid(tier, g, q, v) ==
    LET S == {i \in DOMAIN rows : /\ rows[i].tier = tier /\ rows[i].mode = "live"
                                  /\ rows[i].gen = g /\ rows[i].asked = q
                                  /\ rows[i].voter = v /\ rows[i].said # "none"}
    IN  IF S = {} THEN "none" ELSE rows[Last(S)].said

\* "Two one-vote attempts do not masquerade as a complete screen": what leaves the
\* engine, or is kept out of it, was decided by both voters of one generation that
\* still counts, asked one and the same question in live runs, however many runs,
\* claims, texts, generations and failures the rows come from.  A work is dropped
\* only by two noes, and let in only by the main screen.
OneScreen ==
    /\ Dropped => \E tier \in Tiers : \E g \in Accepted(tier), q \in Texts \cup {Unrecorded} :
          \A v \in Voters : LastSaid(tier, g, q, v) = "no"
    /\ Admitted => \E g \in Accepted("main"), q \in Texts \cup {Unrecorded} :
          /\ \A v \in Voters : LastSaid("main", g, q, v) # "none"
          /\ \E v \in Voters : LastSaid("main", g, q, v) = "yes"

\* "The older complete screen stays the work's decision until the new one
\* completes": no attempt of the main screen, about whatever text and however far it
\* got, leaves the work less decided than it was.  (At the cheap tier a first no that
\* follows a keep does.)
StaysDecided ==
    [][\A mode \in Modes :
          screen'["main"] = screen["main"] /\ Complete("main", Selected("main", mode)) =>
              Complete("main", Selected("main", mode))']_vars

\* "Verdicts recorded, no pile effect": a row written in one mode changes nothing
\* of what the other mode has decided or has to ask.
Sandboxed ==
    [][\A mode \in Modes :
          rows' # rows /\ rows'[Len(rows')].mode # mode =>
              \A tier \in Tiers :
                  Decision(tier, mode)' = Decision(tier, mode)
                  /\ Settled(tier, mode)' = Settled(tier, mode)]_vars

\* No work is stranded, "skipped by the next run because it looked decided, held
\* back by the handoff because it was not": once texts, routes and voters rest,
\* re-running the screen settles the work on an answer about the text it has, and
\* what the main screen has settled is dropped or admitted, however late the runs
\* that asked something else write.
Screened == <>[](Settled(pile, "live") /\ (pile = "main" => Dropped \/ Admitted))
=============================================================================
