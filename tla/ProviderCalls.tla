---------------------------- MODULE ProviderCalls ----------------------------
(***************************************************************************)
(* The calls that cost money: lookups at OpenAlex, which move a process    *)
(* from one key to the next as the keys run out of their day's budget, and *)
(* calls to language models, which a daily cap stops.  Threads make them,  *)
(* in one process or several.  A process has one key pointer; the record   *)
(* the cap reads is a file they all share.                                 *)
(*                                                                         *)
(* Tokens and dollars are counted in calls.  Under the token cap only      *)
(* calls to OpenAI count, and other calls are left out.  OpenRouter's are  *)
(* OpenAI's without the flex tier.  Both go through the OpenAI SDK, which   *)
(* sends a request again by itself, up to max_retries times, when it timed *)
(* out, lost its connection or met a busy server; Gemini is asked once.    *)
(***************************************************************************)
EXTENDS Integers, FiniteSets

CONSTANTS
    Processes, Threads,
    Of,           \* the process a thread belongs to
    Keys,         \* how many keys OPENALEX_API_KEYS holds
    Retries,      \* of a lookup OpenAlex is too busy for
    Attempts,     \* a model is asked this often, on each Gemini key
    GeminiKeys,
    Patience,     \* how often a refused flex tier is asked for again
    Resends,      \* max_retries of the SDK's client, which the code leaves at 2
    Caps,         \* which cap may be set: "tokens" for OpenAI's, "dollars" for all
    Budget,       \* the calls it allows
    MaxCalls,     \* bound: calls made
    MaxFaults     \* bound: faults and midnights

ASSUME ThreadsAssumption == IsFiniteSet(Threads) /\ Of \in [Threads -> Processes]
ASSUME KeysAssumption == Keys \in Nat \ {0} /\ Retries \in Nat
ASSUME AttemptsAssumption ==
    Attempts \in Nat \ {0} /\ GeminiKeys \in Nat \ {0} /\ Patience \in Nat
ASSUME ResendsAssumption == Resends \in Nat
ASSUME BudgetAssumption == Budget \in Nat \ {0} /\ Caps \subseteq {"tokens", "dollars"}
ASSUME BoundsAssumption == MaxCalls \in Nat /\ MaxFaults \in Nat

VARIABLES
    pointer,      \* _key_idx of each process
    drained,      \* the keys that have no budget left today
    refused,      \* history: the keys each process was refused
    stopped,      \* history: the processes that raised OpenAlexQuotaExhausted
    lookup,       \* each thread's call to OpenAlex
    cap,
    day,          \* today in token_usage.json
    holder,       \* who holds the lock on it, nobody is {}
    billed,       \* the calls a provider has charged for today
    unseen,       \* those the record misses, and those a failed check let pass
    ask,          \* each thread's call to a model
    started, faults

keyring == <<pointer, drained, refused, stopped, lookup>>
usage == <<day, holder, billed, unseen, ask>>
vars == <<keyring, cap, usage, started, faults>>

NoLookup == [pc |-> "free", idx |-> 0, key |-> 0, tries |-> 0]
NoDay == [spent |-> 0, unpriced |-> 0]

\* A call may be made on `keys` keys and is at the `key`-th; one key is the SDK's.  The
\* flex tier refused this attempt `refusals` times.  The call was charged for `bills`
\* times, and `resent` times more for what the SDK sent again, which it did `resends`
\* times for the request that is out.  `stale`: answered before midnight.
NoAsk ==
    [pc |-> "free", flex |-> FALSE, refusals |-> 0, keys |-> 1, key |-> 1, tries |-> 0,
     bills |-> 0, resends |-> 0, resent |-> 0,
     priced |-> TRUE, stale |-> FALSE, seen |-> NoDay]

Init ==
    /\ pointer = [p \in Processes |-> 0] /\ drained = {}
    /\ refused = [p \in Processes |-> {}] /\ stopped = {}
    /\ lookup = [t \in Threads |-> NoLookup]
    /\ cap \in Caps
    /\ day = NoDay /\ holder = {} /\ billed = 0 /\ unseen = 0
    /\ ask = [t \in Threads |-> NoAsk]
    /\ started = 0 /\ faults = 0

Fault == faults < MaxFaults /\ faults' = faults + 1
Looks(t, x) == lookup' = [lookup EXCEPT ![t] = x]
Asks(t, x) == ask' = [ask EXCEPT ![t] = x]

Free(t) == lookup[t].pc = "free" /\ ask[t].pc = "free"
Start(t) == Free(t) /\ started < MaxCalls /\ started' = started + 1

-----------------------------------------------------------------------------
\* _oa_get, or _oa_xml_get: they differ when no key is left.
StartLookup(t) ==
    /\ Start(t)
    /\ Looks(t, [NoLookup EXCEPT !.pc = "turn"])
    /\ UNCHANGED <<pointer, drained, refused, stopped, cap, usage, faults>>

\* current_index(), and then headers(), which reads the pointer again.
ReadIndex(t) ==
    /\ lookup[t].pc = "turn"
    /\ Looks(t, [lookup[t] EXCEPT !.pc = "indexed", !.idx = pointer[Of[t]]])
    /\ UNCHANGED <<pointer, drained, refused, stopped, cap, usage, started, faults>>

\* Mutant: the headers are built before the index is read.
SendLate(t) ==
    /\ lookup[t].pc = "indexed"
    /\ Looks(t, [lookup[t] EXCEPT !.pc = "asking", !.key = lookup[t].idx,
                                  !.idx = pointer[Of[t]]])
    /\ UNCHANGED <<pointer, drained, refused, stopped, cap, usage, started, faults>>
Send(t) ==
    /\ lookup[t].pc = "indexed"
    /\ Looks(t, [lookup[t] EXCEPT !.pc = "asking", !.key = pointer[Of[t]]])
    /\ UNCHANGED <<pointer, drained, refused, stopped, cap, usage, started, faults>>

\* An answer, or a failure that is no use asking about again.
LookupEnds(t) ==
    /\ lookup[t].pc = "asking"
    /\ Looks(t, NoLookup)
    /\ UNCHANGED <<pointer, drained, refused, stopped, cap, usage, started, faults>>

LookupBusy(t) ==
    /\ lookup[t].pc = "asking"
    /\ Looks(t, IF lookup[t].tries < Retries
                THEN [lookup[t] EXCEPT !.pc = "turn", !.idx = 0, !.key = 0, !.tries = @ + 1]
                ELSE NoLookup)
    /\ UNCHANGED <<pointer, drained, refused, stopped, cap, usage, started, faults>>

\* is_budget_refusal: the key the request carried has nothing left.
LookupRefused(t) ==
    /\ lookup[t].pc = "asking" /\ lookup[t].key \in drained
    /\ refused' = [refused EXCEPT ![Of[t]] = @ \cup {lookup[t].key}]
    /\ Looks(t, [lookup[t] EXCEPT !.pc = "refused"])
    /\ UNCHANGED <<pointer, drained, stopped, cap, usage, started, faults>>

\* rotate_key(idx).  A refusal of a key the pointer has left moves nothing; the
\* request goes out again, and that is no retry.  With no key left _oa_get raises
\* OpenAlexQuotaExhausted, and _oa_xml_get has no answer.
Turn(t) == [lookup[t] EXCEPT !.pc = "turn", !.idx = 0, !.key = 0]

\* Mutant: the last key is handed out again.
RotateRound(t) ==
    /\ lookup[t].pc = "refused"
    /\ pointer' = [pointer EXCEPT ![Of[t]] =
                      IF lookup[t].idx < @ \/ @ + 1 >= Keys THEN @ ELSE @ + 1]
    /\ Looks(t, Turn(t))
    /\ UNCHANGED <<drained, refused, stopped, cap, usage, started, faults>>
Rotate(t) ==
    /\ lookup[t].pc = "refused"
    /\ IF lookup[t].idx < pointer[Of[t]]
          THEN Looks(t, Turn(t)) /\ UNCHANGED <<pointer, stopped>>
       ELSE IF pointer[Of[t]] + 1 >= Keys
          THEN /\ Looks(t, NoLookup)
               /\ stopped' \in {stopped, stopped \cup {Of[t]}}
               /\ UNCHANGED pointer
          ELSE /\ pointer' = [pointer EXCEPT ![Of[t]] = @ + 1]
               /\ Looks(t, Turn(t)) /\ UNCHANGED stopped
    /\ UNCHANGED <<drained, refused, cap, usage, started, faults>>

\* OpenAlex charges by the request; a key runs out at some time of the day.
Drain(k) ==
    /\ k \notin drained
    /\ drained' = drained \cup {k}
    /\ UNCHANGED <<pointer, refused, stopped, lookup, cap, usage, started, faults>>

-----------------------------------------------------------------------------
\* A call to a model goes on with its next attempt, or its next key.
Again(x, key, tries) ==
    [NoAsk EXCEPT !.pc = "checking", !.keys = x.keys, !.key = key, !.tries = tries,
                  !.bills = x.bills, !.resent = x.resent]
\* Mutant: one key past the last.
NextKeyPast(x) == IF x.key <= x.keys THEN Again(x, x.key + 1, 0) ELSE NoAsk
NextKey(x) == IF x.key < x.keys THEN Again(x, x.key + 1, 0) ELSE NoAsk
NextAttempt(x) ==
    IF x.tries + 1 < Attempts THEN Again(x, x.key, x.tries + 1) ELSE NextKey(x)

\* call_openai, whose first attempt is at the flex tier if so configured, or
\* _gemini_call, which has keys to go through.
StartAsk(t, flex, keys) ==
    /\ Start(t)
    /\ keys > 1 => cap = "dollars" /\ ~flex
    /\ Asks(t, [NoAsk EXCEPT !.pc = "checking", !.flex = flex, !.keys = keys])
    /\ UNCHANGED <<keyring, cap, day, holder, billed, unseen, faults>>

\* check_openai_budget and check_usd_budget, before every request.
\* Mutant: one call too many.
WithinAlso == day.spent <= Budget /\ day.unpriced = 0
Within == day.spent < Budget /\ day.unpriced = 0

Check(t) ==
    /\ ask[t].pc = "checking"
    /\ Asks(t, IF Within THEN [ask[t] EXCEPT !.pc = "cleared"] ELSE NoAsk)
    /\ UNCHANGED <<keyring, cap, day, holder, billed, unseen, started, faults>>

\* A record that cannot be read stops a call under the dollar cap; under the token
\* cap it says that nothing was spent.
CheckUnread(t) ==
    /\ ask[t].pc = "checking"
    /\ Fault
    /\ IF cap = "dollars" THEN Asks(t, NoAsk) /\ UNCHANGED unseen
       ELSE Asks(t, [ask[t] EXCEPT !.pc = "cleared"]) /\ unseen' = unseen + 1
    /\ UNCHANGED <<keyring, cap, day, holder, billed, started>>

Served(t, priced) ==
    /\ ask[t].pc = "cleared"
    /\ IF priced THEN UNCHANGED faults ELSE Fault
    /\ billed' = billed + 1
    /\ Asks(t, [ask[t] EXCEPT !.pc = "answered", !.priced = priced, !.bills = @ + 1])
    /\ UNCHANGED <<keyring, cap, day, holder, unseen, started>>

\* Mutant: a timeout at the flex tier is taken for its refusal.
AnswerLostSameAttempt(t) ==
    /\ ask[t].pc = "cleared"
    /\ Fault
    /\ billed' = billed + 1 /\ unseen' = unseen + 1
    /\ LET x == [ask[t] EXCEPT !.bills = @ + 1]
       IN  Asks(t, IF x.flex THEN [x EXCEPT !.pc = "checking", !.flex = FALSE, !.resends = 0]
                             ELSE NextAttempt(x))
    /\ UNCHANGED <<keyring, cap, day, holder, started>>
\* Served and charged, and the answer never arrived.
AnswerLost(t) ==
    /\ ask[t].pc = "cleared"
    /\ Fault
    /\ billed' = billed + 1 /\ unseen' = unseen + 1
    /\ Asks(t, NextAttempt([ask[t] EXCEPT !.bills = @ + 1]))
    /\ UNCHANGED <<keyring, cap, day, holder, started>>

\* The same, and the SDK sends the request again: within the attempt, without a check
\* of the budget and without a record.
Resent(t) ==
    /\ ask[t].pc = "cleared" /\ ask[t].keys = 1 /\ ask[t].resends < Resends
    /\ Fault
    /\ billed' = billed + 1 /\ unseen' = unseen + 1
    /\ Asks(t, [ask[t] EXCEPT !.resends = @ + 1, !.resent = @ + 1])
    /\ UNCHANGED <<keyring, cap, day, holder, started>>

AskFails(t) ==
    /\ ask[t].pc = "cleared"
    /\ Asks(t, NextAttempt(ask[t]))
    /\ UNCHANGED <<keyring, cap, day, holder, billed, unseen, started, faults>>

\* A refused tier was not served: it is asked for again a few times, then the
\* standard tier is, and none of it takes an attempt.
FlexRefused(t) ==
    /\ ask[t].pc = "cleared" /\ ask[t].flex
    /\ Asks(t, [ask[t] EXCEPT !.pc = "checking", !.flex = ask[t].refusals < Patience,
                              !.refusals = @ + 1, !.resends = 0])
    /\ UNCHANGED <<keyring, cap, day, holder, billed, unseen, started, faults>>

\* Gemini's 429: the key's quota is gone.
KeyGone(t) ==
    /\ ask[t].pc = "cleared" /\ ask[t].keys > 1
    /\ Asks(t, NextKey(ask[t]))
    /\ UNCHANGED <<keyring, cap, day, holder, billed, unseen, started, faults>>

-----------------------------------------------------------------------------
\* record: lock, read, write.  A file that cannot be read counts as empty, and the
\* day it held is overwritten.
\* Mutant: there is no lock.
ReadUnlocked(t) ==
    /\ ask[t].pc = "answered"
    /\ holder' = {t}
    /\ Asks(t, [ask[t] EXCEPT !.pc = "recording", !.seen = day])
    /\ UNCHANGED <<keyring, cap, day, billed, unseen, started, faults>>
Read(t) ==
    /\ ask[t].pc = "answered" /\ holder = {}
    /\ holder' = {t}
    /\ Asks(t, [ask[t] EXCEPT !.pc = "recording", !.seen = day])
    /\ UNCHANGED <<keyring, cap, day, billed, unseen, started, faults>>

ReadNothing(t) ==
    /\ ask[t].pc = "answered" /\ holder = {}
    /\ Fault
    /\ holder' = {t}
    /\ Asks(t, [ask[t] EXCEPT !.pc = "recording", !.seen = NoDay])
    /\ unseen' = unseen + day.spent + day.unpriced
    /\ UNCHANGED <<keyring, cap, day, billed, started>>

\* What the day becomes: a call that reported no usage is marked, which the dollar
\* cap minds; a call answered before midnight goes to the day before.
Recorded(x) ==
    IF x.stale THEN x.seen
    ELSE IF x.priced THEN [x.seen EXCEPT !.spent = @ + 1]
    ELSE IF cap = "dollars" THEN [x.seen EXCEPT !.unpriced = @ + 1] ELSE x.seen
Missed(x) == IF x.stale \/ x.priced \/ cap = "dollars" THEN 0 ELSE 1

Write(t) ==
    /\ ask[t].pc = "recording"
    /\ day' = Recorded(ask[t]) /\ unseen' = unseen + Missed(ask[t])
    /\ holder' = {} /\ Asks(t, NoAsk)
    /\ UNCHANGED <<keyring, cap, billed, started, faults>>

\* A record that raises is a failed attempt like any other.
WriteRaises(t) ==
    /\ ask[t].pc = "recording"
    /\ Fault
    /\ holder' = {} /\ unseen' = unseen + 1
    /\ Asks(t, NextAttempt(ask[t]))
    /\ UNCHANGED <<keyring, cap, day, billed, started>>

-----------------------------------------------------------------------------
Pending == {t \in Threads : ask[t].pc \in {"answered", "recording"} /\ ~ask[t].stale}
Cleared == {t \in Threads : ask[t].pc = "cleared"}

\* UTC midnight: every budget starts again.
Midnight ==
    /\ Fault
    /\ drained' = {} /\ day' = NoDay /\ billed' = 0 /\ unseen' = 0
    /\ ask' = [t \in Threads |->
                  [ask[t] EXCEPT !.seen = NoDay, !.stale = ask[t].stale \/ t \in Pending]]
    /\ UNCHANGED <<pointer, refused, stopped, lookup, cap, holder, started>>

\* A process dies and is started again.
Kill(p) ==
    LET its == {t \in Threads : Of[t] = p}
    IN  /\ Fault
        /\ pointer' = [pointer EXCEPT ![p] = 0]
        /\ refused' = [refused EXCEPT ![p] = {}] /\ stopped' = stopped \ {p}
        /\ lookup' = [t \in Threads |-> IF t \in its THEN NoLookup ELSE lookup[t]]
        /\ ask' = [t \in Threads |-> IF t \in its THEN NoAsk ELSE ask[t]]
        /\ holder' = holder \ its
        /\ unseen' = unseen + Cardinality(Pending \cap its)
        /\ UNCHANGED <<drained, cap, day, billed, started>>

Working(t) ==
    \/ ReadIndex(t) \/ Send(t) \/ LookupEnds(t) \/ LookupBusy(t) \/ LookupRefused(t)
    \/ Rotate(t)
    \/ Check(t) \/ Served(t, TRUE) \/ AskFails(t) \/ FlexRefused(t) \/ KeyGone(t)
    \/ Read(t) \/ Write(t)

Failing(t) ==
    CheckUnread(t) \/ Served(t, FALSE) \/ AnswerLost(t) \/ Resent(t)
    \/ ReadNothing(t) \/ WriteRaises(t)

Next ==
    \/ \E t \in Threads :
        \/ StartLookup(t)
        \/ \E flex \in BOOLEAN, keys \in {1, GeminiKeys} : StartAsk(t, flex, keys)
        \/ Working(t) \/ Failing(t)
    \/ \E k \in 0 .. Keys - 1 : Drain(k)
    \/ \E p \in Processes : Kill(p)
    \/ Midnight

\* A request is answered or times out, and a thread goes on.
Spec == Init /\ [][Next]_vars /\ \A t \in Threads : WF_vars(Working(t))

-----------------------------------------------------------------------------
KeySet == 0 .. Keys - 1
Lookups ==
    [pc : {"free", "turn", "indexed", "asking", "refused"},
     idx : KeySet, key : KeySet, tries : 0 .. Retries]
Days == [spent : Nat, unpriced : Nat]
AskRecords ==
    [pc : {"free", "checking", "cleared", "answered", "recording"}, flex : BOOLEAN,
     refusals : 0 .. Patience + 1, keys : 1 .. GeminiKeys, key : 1 .. GeminiKeys,
     tries : 0 .. Attempts - 1, bills : Nat, resends : 0 .. Resends, resent : Nat,
     priced : BOOLEAN, stale : BOOLEAN, seen : Days]

\* Everything has its shape; no key is asked for that there is not.
TypeOK ==
    /\ pointer \in [Processes -> KeySet] /\ drained \subseteq KeySet
    /\ refused \in [Processes -> SUBSET KeySet] /\ stopped \subseteq Processes
    /\ lookup \in [Threads -> Lookups]
    /\ cap \in Caps /\ day \in Days /\ billed \in Nat /\ unseen \in Nat
    /\ ask \in [Threads -> AskRecords] /\ holder \subseteq Threads
    /\ started \in Nat /\ faults \in 0 .. MaxFaults

\* "Only when every key is drained does this become a hard stop", and no key is
\* passed over with budget on it: the pointer moves past a key, and a process gives
\* up, only after that key, or all of them, refused a request of this process,
\* however many threads were refused at once and whatever the pointer did between
\* their reading it and their asking.
KeysInTurn ==
    \A p \in Processes :
        (IF p \in stopped THEN KeySet ELSE 0 .. pointer[p] - 1) \subseteq refused[p]

\* The record loses nothing: a call charged for today is in today's record, or on
\* its way there, or among those no record could have.
Counted == billed <= day.spent + day.unpriced + Cardinality(Pending) + unseen

\* "The maximum overshoot is the calls already in flight across the worker pools",
\* of every process, and those the record misses; a check is no reservation.
Overshoot ==
    billed + Cardinality(Cleared) <= Budget - 1 + Cardinality(Threads) + unseen

\* What a call may cost.  call_openai and its fellows send a request again within an
\* attempt only if it was not served, so that theirs are charged for at most once an
\* attempt, through flex refusals, key changes and failed records.  The SDK sends a
\* request again though it may have been served, up to max_retries times: the loops
\* make one request an attempt, and the first attempt one more for each time that the
\* flex tier was refused.
ChargesBounded ==
    \A t \in Threads :
        LET before == (ask[t].key - 1) * Attempts + ask[t].tries
            refusals == IF before = 0 THEN ask[t].refusals ELSE Patience + 1
        IN  /\ ask[t].bills <= before + (IF ask[t].pc \in {"answered", "recording"} THEN 1 ELSE 0)
            /\ ask[t].resent <= Resends * (before + refusals + 1)

\* Every call comes to an end: going round the keys ends, and so do retries, attempts
\* and waiting for a tier.
CallsEnd == \A t \in Threads : ~Free(t) ~> Free(t)
=============================================================================
