------------------------- MODULE ProviderCalls_proofs -------------------------
(***************************************************************************)
(* Theorems about ProviderCalls, for every set of threads and processes,   *)
(* every number of keys, retries and attempts, every budget, and every     *)
(* number of calls and faults.  Lookups and calls to models touch disjoint *)
(* state, so each half has an inductive invariant of its own.              *)
(***************************************************************************)
EXTENDS ProviderCalls, FiniteSetTheorems, TLAPS

USE ThreadsAssumption, KeysAssumption, AttemptsAssumption, BudgetAssumption,
    ResendsAssumption

-----------------------------------------------------------------------------
\* The keys.

KeyType ==
    /\ pointer \in [Processes -> KeySet] /\ drained \subseteq KeySet
    /\ refused \in [Processes -> SUBSET KeySet] /\ stopped \subseteq Processes
    /\ lookup \in [Threads -> Lookups]

\* The index a thread read is not ahead of the key it sent, nor that of the pointer.
InTurn(x, p) ==
    /\ x.pc \in {"indexed", "asking", "refused"} => x.idx <= pointer[p]
    /\ x.pc \in {"asking", "refused"} => x.idx <= x.key /\ x.key <= pointer[p]
    /\ x.pc = "refused" => x.key \in refused[p]
AllInTurn == \A t \in Threads : InTurn(lookup[t], Of[t])

Passed(p) ==
    /\ \A k \in KeySet : k < pointer[p] => k \in refused[p]
    /\ p \in stopped => \A k \in KeySet : k \in refused[p]
AllPassed == \A p \in Processes : Passed(p)

KeyInv == KeyType /\ AllInTurn /\ AllPassed

LEMMA KeyInvTurn == KeyInv => KeysInTurn
<1> SUFFICES ASSUME KeyInv, NEW p \in Processes
             PROVE (IF p \in stopped THEN KeySet ELSE 0 .. pointer[p] - 1) \subseteq refused[p]
  BY DEF KeysInTurn
<1>1. Passed(p) /\ pointer[p] \in KeySet BY DEF KeyInv, AllPassed, KeyType
<1>2. CASE p \in stopped BY <1>1, <1>2 DEF Passed
<1>3. CASE p \notin stopped
  <2>1. ASSUME NEW k \in 0 .. pointer[p] - 1 PROVE k \in KeySet /\ k < pointer[p]
    BY <1>1 DEF KeySet
  <2>2. QED BY <1>1, <1>3, <2>1 DEF Passed
<1>4. QED BY <1>2, <1>3

LEMMA KeyInit == Init => KeyInv
<1> SUFFICES ASSUME Init PROVE KeyInv OBVIOUS
<1>1. 0 \in KeySet BY DEF KeySet
<1>2. NoLookup \in Lookups BY <1>1 DEF NoLookup, Lookups
<1>3. KeyType BY <1>1, <1>2 DEF Init, KeyType
<1>4. AllInTurn BY DEF Init, AllInTurn, InTurn, NoLookup
<1>5. AllPassed BY DEF Init, AllPassed, Passed, KeySet
<1>6. QED BY <1>3, <1>4, <1>5 DEF KeyInv

\* A step of one thread that moves neither pointer nor history.
LEMMA LookStep ==
    ASSUME KeyInv, NEW t \in Threads, NEW x \in Lookups, Looks(t, x), InTurn(x, Of[t]),
           UNCHANGED <<pointer, drained, refused, stopped>>
    PROVE  KeyInv'
<1>1. lookup' \in [Threads -> Lookups] BY DEF KeyInv, KeyType, Looks
<1>2. KeyType' BY <1>1 DEF KeyInv, KeyType
<1>3. AllInTurn'
  <2> SUFFICES ASSUME NEW u \in Threads PROVE InTurn(lookup[u], Of[u])' BY DEF AllInTurn
  <2>1. CASE u = t
    <3>1. lookup'[u] = x BY <2>1 DEF Looks, KeyInv, KeyType
    <3>2. QED BY <2>1, <3>1 DEF InTurn
  <2>2. CASE u # t
    <3>1. lookup'[u] = lookup[u] BY <2>2 DEF Looks, KeyInv, KeyType
    <3>2. InTurn(lookup[u], Of[u]) BY DEF KeyInv, AllInTurn
    <3>3. QED BY <3>1, <3>2 DEF InTurn
  <2>3. QED BY <2>1, <2>2
<1>4. AllPassed' BY DEF KeyInv, AllPassed, Passed
<1>5. QED BY <1>2, <1>3, <1>4 DEF KeyInv

LEMMA LookupFields ==
    /\ NoLookup \in Lookups /\ NoLookup.pc = "free"
    /\ \A x \in Lookups :
        /\ [x EXCEPT !.pc = "turn", !.idx = 0, !.key = 0] \in Lookups
        /\ [x EXCEPT !.pc = "turn", !.idx = 0, !.key = 0].pc = "turn"
        /\ x.idx \in KeySet /\ x.key \in KeySet /\ x.tries \in 0 .. Retries
<1>1. 0 \in KeySet BY DEF KeySet
<1>2. 0 \in 0 .. Retries OBVIOUS
<1>3. NoLookup \in Lookups /\ NoLookup.pc = "free" BY <1>1, <1>2 DEF NoLookup, Lookups
<1>4. ASSUME NEW x \in Lookups
      PROVE /\ [x EXCEPT !.pc = "turn", !.idx = 0, !.key = 0] \in Lookups
            /\ [x EXCEPT !.pc = "turn", !.idx = 0, !.key = 0].pc = "turn"
            /\ x.idx \in KeySet /\ x.key \in KeySet /\ x.tries \in 0 .. Retries
  BY <1>1 DEF Lookups
<1>5. QED BY <1>3, <1>4

LEMMA KeysStartLookup ==
    ASSUME KeyInv, NEW t \in Threads, StartLookup(t)
    PROVE  KeyInv'
<1> DEFINE x == [NoLookup EXCEPT !.pc = "turn"]
<1>1. x \in Lookups /\ x.pc = "turn"
  <2>1. 0 \in KeySet /\ 0 \in 0 .. Retries BY DEF KeySet
  <2>2. QED BY <2>1 DEF NoLookup, Lookups
<1>2. Looks(t, x) /\ UNCHANGED <<pointer, drained, refused, stopped>> BY DEF StartLookup
<1> HIDE DEF x
<1>3. InTurn(x, Of[t]) BY <1>1 DEF InTurn
<1>4. QED BY <1>1, <1>2, <1>3, LookStep

LEMMA KeysReadIndex ==
    ASSUME KeyInv, NEW t \in Threads, ReadIndex(t)
    PROVE  KeyInv'
<1> DEFINE x == [lookup[t] EXCEPT !.pc = "indexed", !.idx = pointer[Of[t]]]
<1>1. lookup[t] \in Lookups /\ pointer[Of[t]] \in KeySet BY DEF KeyInv, KeyType
<1>2. x \in Lookups /\ x.pc = "indexed" /\ x.idx = pointer[Of[t]]
  BY <1>1 DEF Lookups
<1>3. Looks(t, x) /\ UNCHANGED <<pointer, drained, refused, stopped>> BY DEF ReadIndex
<1> HIDE DEF x
<1>4. InTurn(x, Of[t]) BY <1>1, <1>2 DEF InTurn, KeySet
<1>5. QED BY <1>2, <1>3, <1>4, LookStep

LEMMA KeysSend ==
    ASSUME KeyInv, NEW t \in Threads, Send(t)
    PROVE  KeyInv'
<1> DEFINE x == [lookup[t] EXCEPT !.pc = "asking", !.key = pointer[Of[t]]]
<1>1. lookup[t] \in Lookups /\ pointer[Of[t]] \in KeySet BY DEF KeyInv, KeyType
<1>2. x \in Lookups /\ x.pc = "asking" /\ x.key = pointer[Of[t]] /\ x.idx = lookup[t].idx
  BY <1>1 DEF Lookups
<1>3. Looks(t, x) /\ UNCHANGED <<pointer, drained, refused, stopped>> BY DEF Send
<1>4. lookup[t].idx <= pointer[Of[t]] BY DEF Send, KeyInv, AllInTurn, InTurn
<1> HIDE DEF x
<1>5. InTurn(x, Of[t]) BY <1>1, <1>2, <1>4 DEF InTurn, KeySet
<1>6. QED BY <1>2, <1>3, <1>5, LookStep

LEMMA KeysLookupEnds ==
    ASSUME KeyInv, NEW t \in Threads, LookupEnds(t)
    PROVE  KeyInv'
<1>1. NoLookup \in Lookups /\ InTurn(NoLookup, Of[t]) BY LookupFields DEF InTurn
<1>2. QED BY <1>1, LookStep DEF LookupEnds

LEMMA KeysLookupBusy ==
    ASSUME KeyInv, NEW t \in Threads, LookupBusy(t)
    PROVE  KeyInv'
<1>1. CASE lookup[t].tries < Retries
  <2> DEFINE x == [lookup[t] EXCEPT !.pc = "turn", !.idx = 0, !.key = 0, !.tries = @ + 1]
  <2>1. lookup[t] \in Lookups /\ 0 \in KeySet BY DEF KeyInv, KeyType, KeySet
  <2>2. lookup[t].tries + 1 \in 0 .. Retries
    <3>1. lookup[t].tries \in 0 .. Retries BY <2>1, LookupFields
    <3>2. QED BY <1>1, <3>1
  <2>3. x \in Lookups /\ x.pc = "turn" BY <2>1, <2>2 DEF Lookups
  <2>4. Looks(t, x) /\ UNCHANGED <<pointer, drained, refused, stopped>>
    BY <1>1 DEF LookupBusy
  <2> HIDE DEF x
  <2>5. InTurn(x, Of[t]) BY <2>3 DEF InTurn
  <2>6. QED BY <2>3, <2>4, <2>5, LookStep
<1>2. CASE ~ (lookup[t].tries < Retries)
  <2>1. NoLookup \in Lookups /\ InTurn(NoLookup, Of[t]) BY LookupFields DEF InTurn
  <2>2. QED BY <1>2, <2>1, LookStep DEF LookupBusy
<1>3. QED BY <1>1, <1>2

LEMMA KeysLookupRefused ==
    ASSUME KeyInv, NEW t \in Threads, LookupRefused(t)
    PROVE  KeyInv'
<1> DEFINE x == [lookup[t] EXCEPT !.pc = "refused"]
           k == lookup[t].key
<1>1. lookup[t] \in Lookups /\ Of[t] \in Processes BY DEF KeyInv, KeyType
<1>2. x \in Lookups /\ x.pc = "refused" /\ x.key = k /\ x.idx = lookup[t].idx
  BY <1>1 DEF Lookups
<1>3. lookup' = [lookup EXCEPT ![t] = x] /\ UNCHANGED <<pointer, drained, stopped>>
  BY DEF LookupRefused, Looks
<1>4. /\ refused' \in [Processes -> SUBSET KeySet]
      /\ \A p \in Processes : refused[p] \subseteq refused'[p]
      /\ k \in refused'[Of[t]]
  <2>1. k \in KeySet BY <1>1, LookupFields
  <2>2. refused' = [refused EXCEPT ![Of[t]] = @ \cup {k}] BY DEF LookupRefused
  <2>3. QED BY <1>1, <2>1, <2>2 DEF KeyInv, KeyType
<1>5. /\ lookup[t].idx <= pointer[Of[t]]
      /\ lookup[t].idx <= k /\ k <= pointer[Of[t]]
  BY DEF LookupRefused, KeyInv, AllInTurn, InTurn
<1> HIDE DEF x, k
<1>6. KeyType' BY <1>2, <1>3, <1>4 DEF KeyInv, KeyType
<1>7. AllInTurn'
  <2> SUFFICES ASSUME NEW u \in Threads PROVE InTurn(lookup[u], Of[u])' BY DEF AllInTurn
  <2>1. CASE u = t
    <3>1. lookup'[u] = x BY <1>3, <2>1 DEF KeyInv, KeyType
    <3>2. QED BY <2>1, <3>1, <1>2, <1>3, <1>4, <1>5 DEF InTurn
  <2>2. CASE u # t
    <3>1. lookup'[u] = lookup[u] BY <1>3, <2>2 DEF KeyInv, KeyType
    <3>2. InTurn(lookup[u], Of[u]) BY DEF KeyInv, AllInTurn
    <3>3. QED BY <3>1, <3>2, <1>3, <1>4 DEF InTurn
  <2>3. QED BY <2>1, <2>2
<1>8. AllPassed' BY <1>3, <1>4 DEF KeyInv, AllPassed, Passed
<1>9. QED BY <1>6, <1>7, <1>8 DEF KeyInv

\* The key that was refused is the pointer's, or one it has left.
LEMMA KeysRotate ==
    ASSUME KeyInv, NEW t \in Threads, Rotate(t)
    PROVE  KeyInv'
<1> DEFINE x == lookup[t]
           p == Of[t]
<1>1. /\ x \in Lookups /\ p \in Processes /\ pointer[p] \in KeySet
      /\ x.pc = "refused" /\ UNCHANGED <<drained, refused>>
      /\ x.idx \in KeySet /\ x.key \in KeySet
      /\ x.idx <= x.key /\ x.key <= pointer[p] /\ x.key \in refused[p]
      /\ Turn(t) \in Lookups /\ InTurn(Turn(t), p)
      /\ NoLookup \in Lookups /\ InTurn(NoLookup, p)
  <2>1. x \in Lookups /\ p \in Processes /\ pointer[p] \in KeySet BY DEF KeyInv, KeyType
  <2>2. x.pc = "refused" /\ UNCHANGED <<drained, refused>> BY DEF Rotate
  <2>3. x.idx <= x.key /\ x.key <= pointer[p] /\ x.key \in refused[p]
    BY <2>2 DEF KeyInv, AllInTurn, InTurn
  <2>4. Turn(t) \in Lookups /\ Turn(t).pc = "turn" BY <2>1, LookupFields DEF Turn
  <2>5. InTurn(Turn(t), p) /\ InTurn(NoLookup, p) BY <2>4, LookupFields DEF InTurn
  <2>6. QED BY <2>1, <2>2, <2>3, <2>4, <2>5, LookupFields
<1>2. CASE x.idx < pointer[p]
  <2>1. Looks(t, Turn(t)) /\ UNCHANGED <<pointer, stopped>> BY <1>2 DEF Rotate
  <2>2. QED BY <1>1, <2>1, LookStep
<1>3. CASE ~ (x.idx < pointer[p])
  <2>1. pointer[p] \in refused[p]
    <3>1. x.key = pointer[p] BY <1>1, <1>3 DEF KeySet
    <3>2. QED BY <1>1, <3>1
  <2>2. Passed(p) BY <1>1 DEF KeyInv, AllPassed
  <2>3. CASE pointer[p] + 1 >= Keys
    <3>1. \A k \in KeySet : k \in refused[p]
      <4> SUFFICES ASSUME NEW k \in KeySet PROVE k \in refused[p] OBVIOUS
      <4>1. k = pointer[p] \/ k < pointer[p] BY <1>1, <2>3 DEF KeySet
      <4>2. QED BY <4>1, <2>1, <2>2 DEF Passed
    <3>2. Looks(t, NoLookup) /\ UNCHANGED pointer /\ stopped' \in {stopped, stopped \cup {p}}
      BY <1>3, <2>3 DEF Rotate
    <3>3. lookup' \in [Threads -> Lookups] /\ stopped' \subseteq Processes
      BY <1>1, <3>2 DEF Looks, KeyInv, KeyType
    <3>4. KeyType' BY <1>1, <3>2, <3>3 DEF KeyInv, KeyType
    <3>5. AllInTurn'
      <4> SUFFICES ASSUME NEW u \in Threads PROVE InTurn(lookup[u], Of[u])' BY DEF AllInTurn
      <4>1. InTurn(lookup[u], Of[u]) BY DEF KeyInv, AllInTurn
      <4>2. lookup'[u] = NoLookup \/ lookup'[u] = lookup[u]
        BY <3>2 DEF Looks, KeyInv, KeyType
      <4>3. QED BY <1>1, <3>2, <4>1, <4>2, LookupFields DEF InTurn
    <3>6. AllPassed'
      <4> SUFFICES ASSUME NEW q \in Processes PROVE Passed(q)' BY DEF AllPassed
      <4>1. Passed(q) BY DEF KeyInv, AllPassed
      <4>2. QED BY <1>1, <3>1, <3>2, <4>1 DEF Passed
    <3>7. QED BY <3>4, <3>5, <3>6 DEF KeyInv
  <2>4. CASE ~ (pointer[p] + 1 >= Keys)
    <3>1. /\ pointer' = [pointer EXCEPT ![p] = @ + 1] /\ UNCHANGED stopped
          /\ Looks(t, Turn(t))
      BY <1>3, <2>4 DEF Rotate
    <3>2. pointer[p] + 1 \in KeySet BY <1>1, <2>4 DEF KeySet
    <3>3. /\ pointer' \in [Processes -> KeySet]
          /\ pointer'[p] = pointer[p] + 1
          /\ \A q \in Processes : q # p => pointer'[q] = pointer[q]
      BY <1>1, <3>1, <3>2 DEF KeyInv, KeyType
    <3>4. lookup' \in [Threads -> Lookups] BY <1>1, <3>1 DEF Looks, KeyInv, KeyType
    <3>5. KeyType' BY <1>1, <3>1, <3>3, <3>4 DEF KeyInv, KeyType
    <3>6. AllInTurn'
      <4> SUFFICES ASSUME NEW u \in Threads PROVE InTurn(lookup[u], Of[u])' BY DEF AllInTurn
      <4>0. Of[u] \in Processes /\ pointer[Of[u]] \in KeySet /\ pointer'[Of[u]] \in KeySet
        BY <3>3 DEF KeyInv, KeyType
      <4>1. pointer[Of[u]] <= pointer'[Of[u]] BY <3>3, <4>0 DEF KeySet
      <4>2. InTurn(lookup[u], Of[u]) BY DEF KeyInv, AllInTurn
      <4>3. CASE u = t
        <5>1. lookup'[u] = Turn(t) BY <3>1, <4>3 DEF Looks, KeyInv, KeyType
        <5>2. Turn(t).pc = "turn" BY <1>1, LookupFields DEF Turn
        <5>3. QED BY <5>1, <5>2 DEF InTurn
      <4>4. CASE u # t
        <5>1. lookup'[u] = lookup[u] BY <3>1, <4>4 DEF Looks, KeyInv, KeyType
        <5>2. lookup[u] \in Lookups BY DEF KeyInv, KeyType
        <5>3. lookup[u].idx \in KeySet /\ lookup[u].key \in KeySet BY <5>2, LookupFields
        <5>4. QED BY <1>1, <4>0, <4>1, <4>2, <5>1, <5>3 DEF InTurn, KeySet
      <4>5. QED BY <4>3, <4>4
    <3>7. AllPassed'
      <4> SUFFICES ASSUME NEW q \in Processes PROVE Passed(q)' BY DEF AllPassed
      <4>1. Passed(q) BY DEF KeyInv, AllPassed
      <4>2. CASE q = p
        <5>1. ASSUME NEW k \in KeySet, k < pointer'[p] PROVE k = pointer[p] \/ k < pointer[p]
          BY <1>1, <3>3, <5>1 DEF KeySet
        <5>2. QED BY <1>1, <2>1, <2>2, <3>1, <4>2, <5>1 DEF Passed
      <4>3. CASE q # p BY <1>1, <3>1, <3>3, <4>1, <4>3 DEF Passed
      <4>4. QED BY <4>2, <4>3
    <3>8. QED BY <3>5, <3>6, <3>7 DEF KeyInv
  <2>5. QED BY <2>3, <2>4
<1>4. QED BY <1>2, <1>3

LEMMA KeysKill ==
    ASSUME KeyInv, NEW p \in Processes, Kill(p)
    PROVE  KeyInv'
<1>1. /\ pointer' = [pointer EXCEPT ![p] = 0] /\ refused' = [refused EXCEPT ![p] = {}]
      /\ stopped' = stopped \ {p} /\ UNCHANGED drained
      /\ lookup' = [t \in Threads |-> IF t \in {u \in Threads : Of[u] = p} THEN NoLookup
                                                                           ELSE lookup[t]]
  BY DEF Kill
<1>2. 0 \in KeySet /\ NoLookup \in Lookups
  <2>1. 0 \in KeySet BY DEF KeySet
  <2>2. QED BY <2>1, LookupFields
<1>3. KeyType' BY <1>1, <1>2 DEF KeyInv, KeyType
<1>4. AllInTurn'
  <2> SUFFICES ASSUME NEW u \in Threads PROVE InTurn(lookup[u], Of[u])' BY DEF AllInTurn
  <2>1. CASE Of[u] = p
    <3>1. lookup'[u] = NoLookup BY <1>1, <2>1
    <3>2. QED BY <3>1, LookupFields DEF InTurn
  <2>2. CASE Of[u] # p
    <3>1. lookup'[u] = lookup[u] /\ Of[u] \in Processes BY <1>1, <2>2
    <3>2. pointer'[Of[u]] = pointer[Of[u]] /\ refused'[Of[u]] = refused[Of[u]]
      BY <1>1, <2>2, <3>1 DEF KeyInv, KeyType
    <3>3. InTurn(lookup[u], Of[u]) BY DEF KeyInv, AllInTurn
    <3>4. QED BY <3>1, <3>2, <3>3 DEF InTurn
  <2>3. QED BY <2>1, <2>2
<1>5. AllPassed'
  <2> SUFFICES ASSUME NEW q \in Processes PROVE Passed(q)' BY DEF AllPassed
  <2>1. CASE q = p
    <3>1. pointer'[q] = 0 /\ q \notin stopped' BY <1>1, <2>1 DEF KeyInv, KeyType
    <3>2. QED BY <3>1 DEF Passed, KeySet
  <2>2. CASE q # p
    <3>1. pointer'[q] = pointer[q] /\ refused'[q] = refused[q]
      BY <1>1, <2>2 DEF KeyInv, KeyType
    <3>2. Passed(q) BY DEF KeyInv, AllPassed
    <3>3. QED BY <1>1, <2>2, <3>1, <3>2 DEF Passed
  <2>3. QED BY <2>1, <2>2
<1>6. QED BY <1>3, <1>4, <1>5 DEF KeyInv

\* Which keys have run out matters to nobody but OpenAlex.
LEMMA KeysDrained ==
    ASSUME KeyInv, drained' \subseteq KeySet, UNCHANGED <<pointer, refused, stopped, lookup>>
    PROVE  KeyInv'
  BY DEF KeyInv, KeyType, AllInTurn, InTurn, AllPassed, Passed

LEMMA KeyNext == KeyInv /\ [Next]_vars => KeyInv'
<1> SUFFICES ASSUME KeyInv, [Next]_vars PROVE KeyInv' OBVIOUS
<1>1. CASE UNCHANGED keyring
  <2>1. UNCHANGED <<pointer, refused, stopped, lookup>> /\ drained' = drained
    BY <1>1 DEF keyring
  <2>2. drained' \subseteq KeySet BY <2>1 DEF KeyInv, KeyType
  <2>3. QED BY <2>1, <2>2, KeysDrained
<1>2. CASE UNCHANGED vars BY <1>1, <1>2 DEF vars
<1>3. ASSUME NEW t \in Threads, StartLookup(t) PROVE KeyInv' BY <1>3, KeysStartLookup
<1>4. ASSUME NEW t \in Threads, NEW flex, NEW keys, StartAsk(t, flex, keys) PROVE KeyInv'
  BY <1>1, <1>4 DEF StartAsk
<1>5. ASSUME NEW t \in Threads, Working(t) PROVE KeyInv'
  <2>1. CASE ReadIndex(t) BY <2>1, KeysReadIndex
  <2>2. CASE Send(t) BY <2>2, KeysSend
  <2>3. CASE LookupEnds(t) BY <2>3, KeysLookupEnds
  <2>4. CASE LookupBusy(t) BY <2>4, KeysLookupBusy
  <2>5. CASE LookupRefused(t) BY <2>5, KeysLookupRefused
  <2>6. CASE Rotate(t) BY <2>6, KeysRotate
  <2>7. CASE Check(t) \/ Served(t, TRUE) \/ AskFails(t) \/ FlexRefused(t) \/ KeyGone(t)
             \/ Read(t) \/ Write(t)
    BY <1>1, <2>7 DEF Check, Served, AskFails, FlexRefused, KeyGone, Read, Write
  <2>8. QED BY <1>5, <2>1, <2>2, <2>3, <2>4, <2>5, <2>6, <2>7 DEF Working
<1>6. ASSUME NEW t \in Threads, Failing(t) PROVE KeyInv'
  BY <1>1, <1>6 DEF Failing, CheckUnread, Served, AnswerLost, Resent, ReadNothing,
                      WriteRaises
<1>7. ASSUME NEW k \in 0 .. Keys - 1, Drain(k) PROVE KeyInv'
  <2>1. drained' \subseteq KeySet BY <1>7 DEF Drain, KeyInv, KeyType, KeySet
  <2>2. QED BY <1>7, <2>1, KeysDrained DEF Drain
<1>8. ASSUME NEW p \in Processes, Kill(p) PROVE KeyInv' BY <1>8, KeysKill
<1>9. CASE Midnight BY <1>9, KeysDrained DEF Midnight
<1>10. QED BY <1>2, <1>3, <1>4, <1>5, <1>6, <1>7, <1>8, <1>9 DEF Next

\* No key is passed over, and no process gives up, with budget unspent: every key a
\* process has left behind refused it, and at a hard stop all of them did.
THEOREM KeysAreUsedUp == Spec => []KeysInTurn
<1>1. Spec => []KeyInv
  <2>1. KeyInv /\ [Next]_vars => KeyInv' BY KeyNext
  <2>2. QED BY KeyInit, <2>1, PTL DEF Spec
<1>2. QED BY <1>1, KeyInvTurn, PTL
-----------------------------------------------------------------------------
\* The record of what was spent.

UseType ==
    /\ cap \in Caps /\ day \in Days /\ billed \in Nat /\ unseen \in Nat
    /\ ask \in [Threads -> AskRecords] /\ holder \subseteq Threads
    /\ started \in Nat /\ faults \in 0 .. MaxFaults

\* One thread at a time rewrites the record.
Locked ==
    /\ holder = {t \in Threads : ask[t].pc = "recording"}
    /\ \A t, u \in holder : t = u

\* What is about to be written loses nothing either.
SeenCounted ==
    \A t \in Threads :
        ask[t].pc = "recording" =>
            billed <= ask[t].seen.spent + ask[t].seen.unpriced + Cardinality(Pending) + unseen

IsPending(x) == x.pc \in {"answered", "recording"} /\ ~ x.stale
IsCleared(x) == x.pc = "cleared"
One(b) == IF b THEN 1 ELSE 0

\* Only the attempts gone through so far were charged for, only an answer is stale, and
\* nobody asks for a tier again that refused too often.
Accounted(x) ==
    /\ x.bills <= (x.key - 1) * Attempts + x.tries
                  + One(x.pc \in {"answered", "recording"})
    /\ x.stale => x.pc \in {"answered", "recording"}
    /\ x.flex => x.refusals <= Patience
AllAccounted == \A t \in Threads : Accounted(ask[t])

UseInv == UseType /\ Locked /\ Counted /\ SeenCounted /\ Overshoot /\ AllAccounted

LEMMA AskFields ==
    ASSUME NEW x \in AskRecords
    PROVE  /\ x.flex \in BOOLEAN /\ x.refusals \in 0 .. Patience + 1
           /\ x.keys \in 1 .. GeminiKeys /\ x.key \in 1 .. GeminiKeys
           /\ x.tries \in 0 .. Attempts - 1 /\ x.bills \in Nat
           /\ x.resends \in 0 .. Resends /\ x.resent \in Nat
           /\ x.priced \in BOOLEAN /\ x.stale \in BOOLEAN
           /\ x.seen \in Days /\ x.seen.spent \in Nat /\ x.seen.unpriced \in Nat
  BY DEF AskRecords, Days

LEMMA NoAskFields ==
    /\ NoAsk \in AskRecords /\ NoAsk.pc = "free" /\ NoAsk.bills = 0 /\ NoAsk.key = 1
    /\ NoAsk.tries = 0 /\ NoAsk.stale = FALSE /\ NoAsk.flex = FALSE
    /\ NoAsk.refusals = 0 /\ NoAsk.resends = 0 /\ NoAsk.resent = 0
<1>1. NoDay \in Days BY DEF NoDay, Days
<1>2. 0 \in 0 .. Patience + 1 /\ 0 \in 0 .. Resends /\ 1 \in 1 .. GeminiKeys /\ 0 \in 0 .. Attempts - 1 OBVIOUS
<1>3. QED BY <1>1, <1>2 DEF NoAsk, AskRecords

LEMMA Times == ASSUME NEW k \in Nat \ {0} PROVE k * Attempts = (k - 1) * Attempts + Attempts
  OBVIOUS

LEMMA NoAskOnce == Accounted(NoAsk)
<1>1. (1 - 1) * Attempts = 0 OBVIOUS
<1>2. QED BY <1>1, NoAskFields DEF Accounted, One

\* What both ways to go on have in common.
GoesOn(x) == x \in AskRecords /\ x.pc \in {"free", "checking"} /\ Accounted(x)

LEMMA AgainGoesOn ==
    ASSUME NEW x \in AskRecords, NEW k \in 1 .. GeminiKeys, NEW n \in 0 .. Attempts - 1,
           x.bills <= (k - 1) * Attempts + n
    PROVE  GoesOn(Again(x, k, n))
<1> DEFINE y == Again(x, k, n)
<1>1. NoDay \in Days BY DEF NoDay, Days
<1>2. 0 \in 0 .. Patience OBVIOUS
<1>3. x.keys \in 1 .. GeminiKeys /\ x.bills \in Nat /\ x.resent \in Nat BY AskFields
<1>4. NoAsk \in AskRecords BY NoAskFields
<1>5. y \in AskRecords
  <2>1. \A z \in AskRecords, keys \in 1 .. GeminiKeys, b \in Nat, r \in Nat :
            [z EXCEPT !.pc = "checking", !.keys = keys, !.key = k, !.tries = n,
                      !.bills = b, !.resent = r]
              \in AskRecords
    BY DEF AskRecords
  <2>2. QED BY <1>3, <1>4, <2>1 DEF Again
<1>6. y.pc = "checking" /\ y.bills = x.bills /\ y.key = k /\ y.tries = n /\ y.stale = FALSE
      /\ y.flex = FALSE
  BY DEF Again, NoAsk
<1>7. (k - 1) * Attempts \in Int OBVIOUS
<1> HIDE DEF y
<1>8. Accounted(y) BY <1>3, <1>6, <1>7 DEF Accounted, One
<1>9. QED BY <1>5, <1>6, <1>8 DEF GoesOn, y

LEMMA NextKeyGoesOn ==
    ASSUME NEW x \in AskRecords, x.bills <= x.key * Attempts
    PROVE  GoesOn(NextKey(x))
<1>0. x.key \in 1 .. GeminiKeys /\ x.keys \in 1 .. GeminiKeys /\ x.bills \in Nat BY AskFields
<1>1. CASE x.key < x.keys
  <2>1. PICK k : k = x.key + 1 OBVIOUS
  <2>2. k \in 1 .. GeminiKeys /\ 0 \in 0 .. Attempts - 1 /\ k - 1 = x.key BY <1>0, <1>1, <2>1
  <2>3. (k - 1) * Attempts = x.key * Attempts BY <2>2
  <2>4. x.key * Attempts \in Int BY <1>0
  <2>5. x.bills <= (k - 1) * Attempts + 0 BY <1>0, <2>3, <2>4
  <2>6. GoesOn(Again(x, k, 0)) BY <2>2, <2>5, AgainGoesOn
  <2>7. QED BY <1>1, <2>1, <2>6 DEF NextKey
<1>2. CASE ~ (x.key < x.keys)
  <2>1. NextKey(x) = NoAsk BY <1>2 DEF NextKey
  <2>2. GoesOn(NoAsk) BY NoAskFields, NoAskOnce DEF GoesOn
  <2>3. QED BY <2>1, <2>2
<1>3. QED BY <1>1, <1>2

LEMMA NextAttemptGoesOn ==
    ASSUME NEW x \in AskRecords, x.bills <= (x.key - 1) * Attempts + x.tries + 1
    PROVE  GoesOn(NextAttempt(x))
<1>0. x.key \in 1 .. GeminiKeys /\ x.tries \in 0 .. Attempts - 1 /\ x.bills \in Nat
  BY AskFields
<1>1. CASE x.tries + 1 < Attempts
  <2>1. x.tries + 1 \in 0 .. Attempts - 1 BY <1>0, <1>1
  <2>2. QED BY <1>0, <1>1, <2>1, AgainGoesOn DEF NextAttempt
<1>2. CASE ~ (x.tries + 1 < Attempts)
  <2>1. x.key * Attempts = (x.key - 1) * Attempts + Attempts BY <1>0, Times
  <2>2. (x.key - 1) * Attempts \in Int /\ x.key * Attempts \in Int BY <1>0
  <2>3. x.tries + 1 <= Attempts BY <1>0
  <2>4. x.bills <= x.key * Attempts BY <1>0, <2>1, <2>2, <2>3
  <2>5. QED BY <1>2, <2>4, NextKeyGoesOn DEF NextAttempt
<1>3. QED BY <1>1, <1>2

\* How the two counts change when one thread's call changes.
LEMMA Counts ==
    ASSUME UseType, NEW t \in Threads, NEW x \in AskRecords, Asks(t, x)
    PROVE  /\ Cardinality(Pending') = Cardinality(Pending)
                                      + One(IsPending(x)) - One(IsPending(ask[t]))
           /\ Cardinality(Cleared') = Cardinality(Cleared)
                                      + One(IsCleared(x)) - One(IsCleared(ask[t]))
<1>0. ask'[t] = x /\ \A u \in Threads : u # t => ask'[u] = ask[u]
  BY DEF Asks, UseType
<1>1. ASSUME NEW S, NEW S2, S \subseteq Threads, S2 \subseteq Threads, NEW b \in BOOLEAN,
             NEW b2 \in BOOLEAN, b <=> t \in S, b2 <=> t \in S2,
             \A u \in Threads : u # t => (u \in S <=> u \in S2)
      PROVE Cardinality(S2) = Cardinality(S) + One(b2) - One(b)
  <2> DEFINE B == S \ {t}
  <2>1. IsFiniteSet(S) /\ IsFiniteSet(B) BY <1>1, FS_Subset
  <2>2. Cardinality(B) \in Nat /\ t \notin B BY <2>1, FS_CardinalityType
  <2>3. Cardinality(B \cup {t}) = Cardinality(B) + 1 BY <2>1, <2>2, FS_AddElement
  <2>4. Cardinality(S) = Cardinality(B) + One(b)
    <3>1. CASE b
      <4>1. S = B \cup {t} BY <1>1, <3>1
      <4>2. QED BY <3>1, <4>1, <2>3 DEF One
    <3>2. CASE ~ b
      <4>1. S = B BY <1>1, <3>2
      <4>2. Cardinality(S) = Cardinality(B) /\ One(b) = 0 BY <3>2, <4>1 DEF One
      <4>3. QED BY <4>2, <2>2
    <3>3. QED BY <3>1, <3>2
  <2>5. Cardinality(S2) = Cardinality(B) + One(b2)
    <3>1. CASE b2
      <4>1. S2 = B \cup {t} BY <1>1, <3>1
      <4>2. QED BY <3>1, <4>1, <2>3 DEF One
    <3>2. CASE ~ b2
      <4>1. S2 = B BY <1>1, <3>2
      <4>2. Cardinality(S2) = Cardinality(B) /\ One(b2) = 0 BY <3>2, <4>1 DEF One
      <4>3. QED BY <4>2, <2>2
    <3>3. QED BY <3>1, <3>2
  <2>6. One(b) \in Int /\ One(b2) \in Int BY DEF One
  <2> HIDE DEF B
  <2>7. QED BY <2>2, <2>4, <2>5, <2>6
<1>2. /\ Pending \subseteq Threads /\ Pending' \subseteq Threads
      /\ Cleared \subseteq Threads /\ Cleared' \subseteq Threads
  BY DEF Pending, Cleared
<1>3. /\ IsPending(ask[t]) \in BOOLEAN /\ IsPending(x) \in BOOLEAN
      /\ IsCleared(ask[t]) \in BOOLEAN /\ IsCleared(x) \in BOOLEAN
  BY DEF IsPending, IsCleared
<1>4. /\ IsPending(ask[t]) <=> t \in Pending
      /\ IsPending(x) <=> t \in Pending'
      /\ IsCleared(ask[t]) <=> t \in Cleared
      /\ IsCleared(x) <=> t \in Cleared'
  BY <1>0 DEF IsPending, IsCleared, Pending, Cleared
<1>5. \A u \in Threads : u # t => (u \in Pending <=> u \in Pending')
                                  /\ (u \in Cleared <=> u \in Cleared')
  BY <1>0 DEF Pending, Cleared
<1>6. Cardinality(Pending') = Cardinality(Pending)
                              + One(IsPending(x)) - One(IsPending(ask[t]))
  <2> HIDE DEF Pending, IsPending, One
  <2>1. QED BY <1>1, <1>2, <1>3, <1>4, <1>5
<1>7. Cardinality(Cleared') = Cardinality(Cleared)
                              + One(IsCleared(x)) - One(IsCleared(ask[t]))
  <2> HIDE DEF Cleared, IsCleared, One
  <2>1. QED BY <1>1, <1>2, <1>3, <1>4, <1>5
<1>8. QED BY <1>6, <1>7

LEMMA CountsBounded ==
    /\ Cardinality(Pending) \in Nat /\ Cardinality(Cleared) \in Nat
    /\ Cardinality(Threads) \in Nat
    /\ Cardinality(Pending) + Cardinality(Cleared) <= Cardinality(Threads)
<1>1. Pending \subseteq Threads /\ Cleared \subseteq Threads /\ Pending \cap Cleared = {}
  BY DEF Pending, Cleared
<1>2. IsFiniteSet(Pending) /\ IsFiniteSet(Cleared) BY <1>1, FS_Subset
<1>3. Cardinality(Pending \cup Cleared) = Cardinality(Pending) + Cardinality(Cleared)
  <2>1. Cardinality(Pending \cup Cleared) =
            Cardinality(Pending) + Cardinality(Cleared) - Cardinality(Pending \cap Cleared)
    BY <1>2, FS_Union
  <2>2. Cardinality(Pending \cap Cleared) = 0 BY <1>1, FS_EmptySet
  <2>3. Cardinality(Pending) \in Nat /\ Cardinality(Cleared) \in Nat
    BY <1>2, FS_CardinalityType
  <2>4. QED BY <2>1, <2>2, <2>3
<1>4. Pending \cup Cleared \subseteq Threads BY <1>1
<1>5. Cardinality(Pending \cup Cleared) <= Cardinality(Threads) BY <1>4, FS_Subset
<1>6. QED BY <1>2, <1>3, <1>5, FS_CardinalityType

LEMMA FaultCounts == ASSUME UseType, Fault PROVE faults' \in 0 .. MaxFaults
  BY BoundsAssumption DEF UseType, Fault

LEMMA UseInit == Init => UseInv
<1> SUFFICES ASSUME Init PROVE UseInv OBVIOUS
<1>1. NoDay \in Days /\ NoDay.spent = 0 /\ NoDay.unpriced = 0 BY DEF NoDay, Days
<1>2. \A t \in Threads : ask[t] = NoAsk BY DEF Init
<1>3. UseType BY <1>1, NoAskFields, BoundsAssumption DEF Init, UseType
<1>4. Pending = {} /\ Cleared = {} BY <1>2, NoAskFields DEF Pending, Cleared
<1>5. Cardinality(Pending) = 0 /\ Cardinality(Cleared) = 0 BY <1>4, FS_EmptySet
<1>6. Locked BY <1>2, NoAskFields DEF Init, Locked
<1>7. day = NoDay /\ billed = 0 /\ unseen = 0 BY DEF Init
<1>8. Counted BY <1>1, <1>5, <1>7 DEF Counted
<1>9. SeenCounted BY <1>2, NoAskFields DEF SeenCounted
<1>10. Overshoot BY <1>5, <1>7, CountsBounded DEF Overshoot
<1>11. AllAccounted BY <1>2, NoAskOnce DEF AllAccounted
<1>12. QED BY <1>3, <1>6, <1>8, <1>9, <1>10, <1>11 DEF UseInv

\* A step of one thread's call, once its arithmetic is done.
LEMMA AskStep ==
    ASSUME UseInv, NEW t \in Threads, NEW x \in AskRecords, Asks(t, x), Accounted(x),
           cap' = cap, day' \in Days, billed' \in Nat, unseen' \in Nat,
           started' \in Nat, faults' \in 0 .. MaxFaults,
           holder' = (holder \ {t}) \cup (IF x.pc = "recording" THEN {t} ELSE {}),
           x.pc = "recording" => holder \subseteq {t},
           Counted', Overshoot',
           \A u \in Threads :
               (u # t /\ ask[u].pc = "recording") =>
                   billed' <= ask[u].seen.spent + ask[u].seen.unpriced
                              + Cardinality(Pending') + unseen',
           x.pc = "recording" =>
               billed' <= x.seen.spent + x.seen.unpriced + Cardinality(Pending') + unseen'
    PROVE  UseInv'
<1>0. ask'[t] = x /\ \A u \in Threads : u # t => ask'[u] = ask[u]
  BY DEF Asks, UseInv, UseType
<1>1. ask' \in [Threads -> AskRecords] BY DEF Asks, UseInv, UseType
<1>2. UseType' BY <1>1 DEF UseInv, UseType
<1>3. Locked'
  <2>1. holder = {u \in Threads : ask[u].pc = "recording"} /\ \A u, v \in holder : u = v
    BY DEF UseInv, Locked
  <2>2. holder' = {u \in Threads : ask'[u].pc = "recording"} BY <1>0, <2>1
  <2>3. \A u, v \in holder' : u = v BY <2>1
  <2>4. QED BY <2>2, <2>3 DEF Locked
<1>4. SeenCounted'
  <2> SUFFICES ASSUME NEW u \in Threads, ask'[u].pc = "recording"
               PROVE billed' <= ask'[u].seen.spent + ask'[u].seen.unpriced
                                + Cardinality(Pending') + unseen'
    BY DEF SeenCounted
  <2>1. CASE u = t BY <1>0, <2>1
  <2>2. CASE u # t BY <1>0, <2>2
  <2>3. QED BY <2>1, <2>2
<1>5. AllAccounted'
  <2> SUFFICES ASSUME NEW u \in Threads PROVE Accounted(ask'[u])
    BY DEF AllAccounted, Accounted
  <2>1. Accounted(ask[u]) BY DEF UseInv, AllAccounted
  <2>2. QED BY <1>0, <2>1
<1>6. QED BY <1>2, <1>3, <1>4, <1>5 DEF UseInv

\* The numbers of an invariant state.
LEMMA Numbers ==
    ASSUME UseInv
    PROVE  /\ cap \in Caps /\ day \in Days /\ day.spent \in Nat /\ day.unpriced \in Nat
           /\ billed \in Nat /\ unseen \in Nat /\ started \in Nat
           /\ faults \in 0 .. MaxFaults
           /\ Cardinality(Pending) \in Nat /\ Cardinality(Cleared) \in Nat
           /\ Cardinality(Threads) \in Nat
           /\ Cardinality(Pending) + Cardinality(Cleared) <= Cardinality(Threads)
           /\ billed <= day.spent + day.unpriced + Cardinality(Pending) + unseen
           /\ billed + Cardinality(Cleared) <= Budget - 1 + Cardinality(Threads) + unseen
           /\ \A u \in Threads :
                /\ ask[u] \in AskRecords /\ Accounted(ask[u])
                /\ ask[u].seen.spent \in Nat /\ ask[u].seen.unpriced \in Nat
                /\ ask[u].pc = "recording" =>
                    billed <= ask[u].seen.spent + ask[u].seen.unpriced
                              + Cardinality(Pending) + unseen
<1>1. cap \in Caps /\ day \in Days /\ billed \in Nat /\ unseen \in Nat /\ started \in Nat
      /\ faults \in 0 .. MaxFaults
  BY DEF UseInv, UseType
<1>2. day.spent \in Nat /\ day.unpriced \in Nat BY <1>1 DEF Days
<1>3. \A u \in Threads : ask[u] \in AskRecords /\ Accounted(ask[u])
  BY DEF UseInv, UseType, AllAccounted
<1>4. \A u \in Threads : ask[u].seen.spent \in Nat /\ ask[u].seen.unpriced \in Nat
  BY <1>3, AskFields
<1>5. QED BY <1>1, <1>2, <1>3, <1>4, CountsBounded DEF UseInv, Counted, Overshoot, SeenCounted

\* A call goes on, or ends, and nothing was charged for or written.
LEMMA QuietStep ==
    ASSUME UseInv, NEW t \in Threads, NEW x, GoesOn(x), Asks(t, x),
           ask[t].pc \in {"free", "checking", "cleared"},
           UNCHANGED <<cap, day, holder, billed, unseen>>,
           started' \in Nat, faults' \in 0 .. MaxFaults
    PROVE  UseInv'
<1>1. x \in AskRecords /\ Accounted(x) /\ x.pc \in {"free", "checking"} BY DEF GoesOn
<1>2. ~ IsPending(x) /\ ~ IsPending(ask[t]) /\ ~ IsCleared(x)
  BY <1>1 DEF IsPending, IsCleared
<1>3. /\ Cardinality(Pending') = Cardinality(Pending) + One(IsPending(x)) - One(IsPending(ask[t]))
      /\ Cardinality(Cleared') = Cardinality(Cleared) + One(IsCleared(x)) - One(IsCleared(ask[t]))
  BY <1>1, Counts DEF UseInv
<1>4. /\ Cardinality(Pending') = Cardinality(Pending)
      /\ Cardinality(Cleared') <= Cardinality(Cleared) /\ Cardinality(Cleared') \in Int
  BY <1>2, <1>3, Numbers DEF One
<1>5. Counted' BY <1>4, Numbers DEF Counted
<1>6. Overshoot' BY <1>4, Numbers DEF Overshoot
<1>7. holder' = (holder \ {t}) \cup (IF x.pc = "recording" THEN {t} ELSE {})
  BY <1>1 DEF UseInv, Locked
<1>8. day' \in Days /\ billed' \in Nat /\ unseen' \in Nat BY Numbers
<1>9. \A u \in Threads :
          (u # t /\ ask[u].pc = "recording") =>
              billed' <= ask[u].seen.spent + ask[u].seen.unpriced
                         + Cardinality(Pending') + unseen'
  BY <1>4, Numbers
<1>10. QED BY <1>1, <1>5, <1>6, <1>7, <1>8, <1>9, AskStep

LEMMA UseStartAsk ==
    ASSUME UseInv, NEW t \in Threads, NEW flex \in BOOLEAN, NEW keys \in {1, GeminiKeys},
           StartAsk(t, flex, keys)
    PROVE  UseInv'
<1> DEFINE x == [NoAsk EXCEPT !.pc = "checking", !.flex = flex, !.keys = keys]
<1>1. x \in AskRecords /\ x.pc = "checking" /\ x.bills = 0 /\ x.key = 1 /\ x.tries = 0
      /\ x.stale = FALSE /\ x.refusals = 0
  <2>1. keys \in 1 .. GeminiKeys OBVIOUS
  <2>2. \A z \in AskRecords :
          LET y == [z EXCEPT !.pc = "checking", !.flex = flex, !.keys = keys]
          IN  y \in AskRecords /\ y.pc = "checking" /\ y.bills = z.bills /\ y.key = z.key
              /\ y.tries = z.tries /\ y.stale = z.stale /\ y.refusals = z.refusals
    BY <2>1 DEF AskRecords
  <2>3. QED BY <2>2, NoAskFields
<1>2. /\ Asks(t, x) /\ UNCHANGED <<cap, day, holder, billed, unseen, faults>>
      /\ started' = started + 1 /\ ask[t].pc = "free"
  BY DEF StartAsk, Start, Free
<1> HIDE DEF x
<1>3. (1 - 1) * Attempts = 0 OBVIOUS
<1>4. GoesOn(x) BY <1>1, <1>3 DEF GoesOn, Accounted, One
<1>5. started' \in Nat /\ faults' \in 0 .. MaxFaults BY <1>2, Numbers
<1>6. QED BY <1>2, <1>4, <1>5, QuietStep

\* A check passed, or was passed over with one more call unseen.
LEMMA ClearedStep ==
    ASSUME UseInv, NEW t \in Threads, ask[t].pc = "checking",
           Asks(t, [ask[t] EXCEPT !.pc = "cleared"]),
           UNCHANGED <<cap, day, holder, billed>>, started' \in Nat, faults' \in 0 .. MaxFaults,
           (unseen' = unseen /\ Within) \/ unseen' = unseen + 1
    PROVE  UseInv'
<1> DEFINE x == [ask[t] EXCEPT !.pc = "cleared"]
<1>0. ask[t] \in AskRecords /\ Accounted(ask[t]) BY Numbers
<1>1. /\ x \in AskRecords /\ x.pc = "cleared" /\ x.bills = ask[t].bills
      /\ x.key = ask[t].key /\ x.tries = ask[t].tries /\ x.stale = ask[t].stale
      /\ x.flex = ask[t].flex /\ x.refusals = ask[t].refusals
  BY <1>0 DEF AskRecords
<1>2. Asks(t, x) OBVIOUS
<1> HIDE DEF x
<1>3. Accounted(x) BY <1>0, <1>1 DEF Accounted, One
<1>4. ~ IsPending(x) /\ ~ IsPending(ask[t]) /\ IsCleared(x) /\ ~ IsCleared(ask[t])
  BY <1>1 DEF IsPending, IsCleared
<1>5. /\ Cardinality(Pending') = Cardinality(Pending) + One(IsPending(x)) - One(IsPending(ask[t]))
      /\ Cardinality(Cleared') = Cardinality(Cleared) + One(IsCleared(x)) - One(IsCleared(ask[t]))
  BY <1>1, <1>2, Counts DEF UseInv
<1>6. /\ Cardinality(Pending') = Cardinality(Pending)
      /\ Cardinality(Cleared') = Cardinality(Cleared) + 1
  BY <1>4, <1>5, Numbers DEF One
<1>7. Cardinality(Pending') + Cardinality(Cleared') <= Cardinality(Threads)
  <2>1. /\ Pending' \subseteq Threads /\ Cleared' \subseteq Threads
        /\ Pending' \cap Cleared' = {}
    BY DEF Pending, Cleared
  <2>2. IsFiniteSet(Pending') /\ IsFiniteSet(Cleared') BY <2>1, FS_Subset
  <2>3. Cardinality(Pending' \cup Cleared') =
            Cardinality(Pending') + Cardinality(Cleared') - Cardinality(Pending' \cap Cleared')
    BY <2>2, FS_Union
  <2>4. Cardinality(Pending' \cap Cleared') = 0 BY <2>1, FS_EmptySet
  <2>5. Pending' \cup Cleared' \subseteq Threads BY <2>1
  <2>6. Cardinality(Pending' \cup Cleared') <= Cardinality(Threads) BY <2>5, FS_Subset
  <2>7. Cardinality(Pending') \in Nat /\ Cardinality(Cleared') \in Nat
    BY <2>2, FS_CardinalityType
  <2>8. QED BY <2>3, <2>4, <2>6, <2>7
<1>8. unseen' \in Nat /\ unseen <= unseen' BY Numbers
<1>9. Counted' BY <1>6, <1>8, Numbers DEF Counted
<1>10. Overshoot'
  <2>1. CASE unseen' = unseen /\ Within
    <3>1. day.spent <= Budget - 1 /\ day.unpriced = 0 BY <2>1, Numbers DEF Within
    <3>2. QED BY <2>1, <3>1, <1>6, <1>7, Numbers DEF Overshoot
  <2>2. CASE unseen' = unseen + 1 BY <2>2, <1>6, Numbers DEF Overshoot
  <2>3. QED BY <2>1, <2>2
<1>11. holder' = (holder \ {t}) \cup (IF x.pc = "recording" THEN {t} ELSE {})
  BY <1>1 DEF UseInv, Locked
<1>12. \A u \in Threads :
          (u # t /\ ask[u].pc = "recording") =>
              billed' <= ask[u].seen.spent + ask[u].seen.unpriced
                         + Cardinality(Pending') + unseen'
  BY <1>6, <1>8, Numbers
<1>13. day' \in Days /\ billed' \in Nat /\ cap' = cap BY Numbers
<1>14. QED BY <1>1, <1>2, <1>3, <1>8, <1>9, <1>10, <1>11, <1>12, <1>13, AskStep

LEMMA UseCheck ==
    ASSUME UseInv, NEW t \in Threads, Check(t)
    PROVE  UseInv'
<1>1. started' \in Nat /\ faults' \in 0 .. MaxFaults BY Numbers DEF Check
<1>2. CASE Within BY <1>1, <1>2, ClearedStep DEF Check
<1>3. CASE ~ Within
  <2>1. GoesOn(NoAsk) BY NoAskFields, NoAskOnce DEF GoesOn
  <2>2. QED BY <1>1, <1>3, <2>1, QuietStep DEF Check
<1>4. QED BY <1>2, <1>3

LEMMA UseCheckUnread ==
    ASSUME UseInv, NEW t \in Threads, CheckUnread(t)
    PROVE  UseInv'
<1>1. started' \in Nat BY Numbers DEF CheckUnread
<1>2. faults' \in 0 .. MaxFaults BY FaultCounts DEF CheckUnread, UseInv
<1>3. CASE cap = "dollars"
  <2>1. GoesOn(NoAsk) BY NoAskFields, NoAskOnce DEF GoesOn
  <2>2. QED BY <1>1, <1>2, <1>3, <2>1, QuietStep DEF CheckUnread
<1>4. CASE cap # "dollars" BY <1>1, <1>2, <1>4, ClearedStep DEF CheckUnread
<1>5. QED BY <1>3, <1>4

\* What a refused flexible call becomes.
Flexed(a, f, n) == [a EXCEPT !.pc = "checking", !.flex = f, !.refusals = n, !.resends = 0]

LEMMA FlexedIs ==
    ASSUME NEW a \in AskRecords, NEW n, NEW f \in BOOLEAN,
           n = a.refusals + 1, f <=> a.refusals < Patience
    PROVE  [a EXCEPT !.pc = "checking", !.flex = a.refusals < Patience,
                     !.refusals = @ + 1, !.resends = 0] = Flexed(a, f, n)
<1>1. PICK v : v = [a EXCEPT !.pc = "checking", !.flex = f] OBVIOUS
<1>2. v.refusals = a.refusals BY <1>1 DEF AskRecords
<1>3. [v EXCEPT !.refusals = @ + 1, !.resends = 0] = [v EXCEPT !.refusals = n, !.resends = 0]
  BY <1>2
<1>4. CASE f
  <2>1. f = TRUE /\ (a.refusals < Patience) = TRUE BY <1>4
  <2>2. QED BY <1>1, <1>3, <2>1 DEF Flexed
<1>5. CASE ~ f
  <2>1. f = FALSE /\ (a.refusals < Patience) = FALSE BY <1>5
  <2>2. QED BY <1>1, <1>3, <2>1 DEF Flexed
<1>6. QED BY <1>4, <1>5

LEMMA FlexedKeeps ==
    ASSUME NEW a \in AskRecords, NEW f \in BOOLEAN, NEW n \in 0 .. Patience + 1,
           NEW x, x = Flexed(a, f, n)
    PROVE  /\ x \in AskRecords /\ x.pc = "checking" /\ x.bills = a.bills
           /\ x.key = a.key /\ x.tries = a.tries /\ x.stale = a.stale
           /\ x.flex = f /\ x.refusals = n /\ x.resends = 0 /\ x.resent = a.resent
<1>1. PICK u : u = [a EXCEPT !.pc = "checking"] OBVIOUS
<1>2. PICK v : v = [u EXCEPT !.flex = f] OBVIOUS
<1>3. PICK w : w = [v EXCEPT !.refusals = n] OBVIOUS
<1>4. PICK y : y = [w EXCEPT !.resends = 0] OBVIOUS
<1>5. u \in AskRecords BY <1>1 DEF AskRecords
<1>6. v \in AskRecords BY <1>2, <1>5 DEF AskRecords
<1>7. w \in AskRecords BY <1>3, <1>6 DEF AskRecords
<1>8. y \in AskRecords BY <1>4, <1>7 DEF AskRecords
<1>9. x = y BY <1>1, <1>2, <1>3, <1>4 DEF Flexed
<1>10. /\ u.pc = "checking" /\ u.bills = a.bills /\ u.key = a.key
       /\ u.tries = a.tries /\ u.stale = a.stale /\ u.resent = a.resent
  BY <1>1 DEF AskRecords
<1>11. /\ y.pc = u.pc /\ y.bills = u.bills /\ y.key = u.key
       /\ y.tries = u.tries /\ y.stale = u.stale /\ y.resent = u.resent
  BY <1>2, <1>3, <1>4, <1>5, <1>6, <1>7 DEF AskRecords
<1>12. y.flex = f /\ y.refusals = n /\ y.resends = 0
  BY <1>2, <1>3, <1>4, <1>5, <1>6, <1>7 DEF AskRecords
<1>13. QED BY <1>8, <1>9, <1>10, <1>11, <1>12

LEMMA UseQuiet ==
    ASSUME UseInv, NEW t \in Threads, AskFails(t) \/ FlexRefused(t) \/ KeyGone(t)
    PROVE  UseInv'
<1>0. /\ ask[t].pc = "cleared" /\ UNCHANGED <<cap, day, holder, billed, unseen, started, faults>>
  BY DEF AskFails, FlexRefused, KeyGone
<1>1. started' \in Nat /\ faults' \in 0 .. MaxFaults BY <1>0, Numbers
<1>2. ask[t] \in AskRecords /\ Accounted(ask[t]) BY Numbers
<1>3. /\ ask[t].key \in 1 .. GeminiKeys /\ ask[t].tries \in 0 .. Attempts - 1
      /\ ask[t].bills \in Nat /\ ask[t].refusals \in 0 .. Patience + 1
  BY <1>2, AskFields
<1>4. ask[t].bills <= (ask[t].key - 1) * Attempts + ask[t].tries
  <2>1. (ask[t].key - 1) * Attempts \in Int BY <1>3
  <2>2. QED BY <1>0, <1>2, <1>3, <2>1 DEF Accounted, One
<1>5. CASE AskFails(t)
  <2>1. ask[t].bills <= (ask[t].key - 1) * Attempts + ask[t].tries + 1
    <3>1. (ask[t].key - 1) * Attempts \in Int BY <1>3
    <3>2. QED BY <1>3, <1>4, <3>1
  <2>2. GoesOn(NextAttempt(ask[t])) BY <1>2, <2>1, NextAttemptGoesOn
  <2>3. QED BY <1>0, <1>1, <1>5, <2>2, QuietStep DEF AskFails
<1>6. CASE FlexRefused(t)
  <2>1. PICK n : n = ask[t].refusals + 1 OBVIOUS
  <2>2. n \in 0 .. Patience + 1
    <3>1. ask[t].refusals <= Patience BY <1>2, <1>6 DEF FlexRefused, Accounted
    <3>2. QED BY <1>3, <2>1, <3>1
  <2>3. PICK f \in BOOLEAN : f <=> ask[t].refusals < Patience OBVIOUS
  <2>4. PICK x : x = Flexed(ask[t], f, n) OBVIOUS
  <2>5. /\ x \in AskRecords /\ x.pc = "checking" /\ x.bills = ask[t].bills
        /\ x.key = ask[t].key /\ x.tries = ask[t].tries /\ x.stale = ask[t].stale
        /\ x.flex = f /\ x.refusals = n
    BY <1>2, <2>2, <2>4, FlexedKeeps
  <2>6. Asks(t, x)
    <3>1. x = [ask[t] EXCEPT !.pc = "checking", !.flex = ask[t].refusals < Patience,
                             !.refusals = @ + 1, !.resends = 0]
      BY <1>2, <2>1, <2>3, <2>4, FlexedIs, Zenon
    <3>2. QED BY <1>6, <3>1, Zenon DEF FlexRefused
  <2>7. (ask[t].key - 1) * Attempts \in Int BY <1>3
  <2>8. ~ ask[t].stale BY <1>0, <1>2 DEF Accounted
  <2>9. x.flex => x.refusals <= Patience BY <1>3, <2>1, <2>3, <2>5
  <2>10. GoesOn(x) BY <1>3, <1>4, <2>5, <2>7, <2>8, <2>9 DEF GoesOn, Accounted, One
  <2>11. QED BY <1>0, <1>1, <2>6, <2>10, QuietStep
<1>7. CASE KeyGone(t)
  <2>1. ask[t].bills <= ask[t].key * Attempts
    <3>1. ask[t].key * Attempts = (ask[t].key - 1) * Attempts + Attempts BY <1>3, Times
    <3>2. (ask[t].key - 1) * Attempts \in Int /\ ask[t].key * Attempts \in Int BY <1>3
    <3>3. QED BY <1>3, <1>4, <3>1, <3>2
  <2>2. GoesOn(NextKey(ask[t])) BY <1>2, <2>1, NextKeyGoesOn
  <2>3. QED BY <1>0, <1>1, <1>7, <2>2, QuietStep DEF KeyGone
<1>8. QED BY <1>5, <1>6, <1>7

LEMMA UseServed ==
    ASSUME UseInv, NEW t \in Threads, NEW priced \in BOOLEAN, Served(t, priced)
    PROVE  UseInv'
<1> DEFINE x == [ask[t] EXCEPT !.pc = "answered", !.priced = priced, !.bills = @ + 1]
<1>0. /\ ask[t] \in AskRecords /\ Accounted(ask[t]) /\ ask[t].pc = "cleared"
      /\ ask[t].bills \in Nat /\ ask[t].key \in 1 .. GeminiKeys
      /\ ask[t].tries \in 0 .. Attempts - 1
  BY Numbers, AskFields DEF Served
<1>1. /\ x \in AskRecords /\ x.pc = "answered" /\ x.bills = ask[t].bills + 1
      /\ x.key = ask[t].key /\ x.tries = ask[t].tries /\ x.stale = ask[t].stale
      /\ x.flex = ask[t].flex /\ x.refusals = ask[t].refusals
  <2>1. PICK b : b = ask[t].bills + 1 OBVIOUS
  <2>2. b \in Nat BY <1>0, <2>1
  <2>3. x = [ask[t] EXCEPT !.pc = "answered", !.priced = priced, !.bills = b]
    BY <1>0, <2>1 DEF AskRecords
  <2>4. QED BY <1>0, <2>1, <2>2, <2>3 DEF AskRecords
<1>2. /\ Asks(t, x) /\ UNCHANGED <<cap, day, holder, unseen, started>>
      /\ billed' = billed + 1
  BY DEF Served
<1>3. faults' \in 0 .. MaxFaults BY Numbers, FaultCounts DEF Served, UseInv
<1> HIDE DEF x
<1>4. Accounted(x)
  <2>1. (ask[t].key - 1) * Attempts \in Int BY <1>0
  <2>2. QED BY <1>0, <1>1, <2>1 DEF Accounted, One
<1>5. ~ IsPending(ask[t]) /\ ~ IsCleared(x) /\ IsCleared(ask[t])
  BY <1>0, <1>1 DEF IsPending, IsCleared
<1>6. /\ Cardinality(Pending') = Cardinality(Pending) + One(IsPending(x)) - One(IsPending(ask[t]))
      /\ Cardinality(Cleared') = Cardinality(Cleared) + One(IsCleared(x)) - One(IsCleared(ask[t]))
  BY <1>1, <1>2, Counts DEF UseInv
<1>7. IsPending(x)
  <2>1. ~ ask[t].stale BY <1>0 DEF Accounted
  <2>2. QED BY <1>1, <2>1 DEF IsPending
<1>8. /\ Cardinality(Pending') = Cardinality(Pending) + 1
      /\ Cardinality(Cleared') = Cardinality(Cleared) - 1
  BY <1>5, <1>6, <1>7, Numbers DEF One
<1>9. Counted' BY <1>2, <1>8, Numbers DEF Counted
<1>10. Overshoot' BY <1>2, <1>8, Numbers DEF Overshoot
<1>11. holder' = (holder \ {t}) \cup (IF x.pc = "recording" THEN {t} ELSE {})
  BY <1>0, <1>1, <1>2 DEF UseInv, Locked
<1>12. \A u \in Threads :
          (u # t /\ ask[u].pc = "recording") =>
              billed' <= ask[u].seen.spent + ask[u].seen.unpriced
                         + Cardinality(Pending') + unseen'
  BY <1>2, <1>8, Numbers
<1>13. /\ day' \in Days /\ billed' \in Nat /\ unseen' \in Nat /\ cap' = cap
       /\ started' \in Nat
  BY <1>2, Numbers
<1>14. QED BY <1>1, <1>2, <1>3, <1>4, <1>9, <1>10, <1>11, <1>12, <1>13, AskStep

\* What a call becomes that the SDK sent again.
SentAgain(a) == [a EXCEPT !.resends = @ + 1, !.resent = @ + 1]

LEMMA ResentFields ==
    ASSUME NEW a \in AskRecords, a.resends < Resends, NEW x, x = SentAgain(a)
    PROVE  /\ x \in AskRecords /\ x.pc = a.pc /\ x.bills = a.bills
           /\ x.key = a.key /\ x.tries = a.tries /\ x.stale = a.stale
           /\ x.flex = a.flex /\ x.refusals = a.refusals
           /\ x.resends = a.resends + 1 /\ x.resent = a.resent + 1
<1>1. PICK n : n = a.resends + 1 OBVIOUS
<1>2. PICK r : r = a.resent + 1 OBVIOUS
<1>3. n \in 0 .. Resends /\ r \in Nat BY <1>1, <1>2, AskFields
<1>4. PICK y : y = [a EXCEPT !.resends = n] OBVIOUS
<1>5. /\ y \in AskRecords /\ y.pc = a.pc /\ y.bills = a.bills
      /\ y.key = a.key /\ y.tries = a.tries /\ y.stale = a.stale
      /\ y.flex = a.flex /\ y.refusals = a.refusals
      /\ y.resends = n /\ y.resent = a.resent
  BY <1>3, <1>4 DEF AskRecords
<1>6. x = [y EXCEPT !.resent = r] BY <1>1, <1>2, <1>4 DEF AskRecords, SentAgain
<1>7. QED BY <1>1, <1>2, <1>3, <1>5, <1>6 DEF AskRecords

LEMMA UseAnswerLost ==
    ASSUME UseInv, NEW t \in Threads, AnswerLost(t)
    PROVE  UseInv'
<1> DEFINE z == [ask[t] EXCEPT !.bills = @ + 1]
           x == NextAttempt(z)
<1>0. /\ ask[t] \in AskRecords /\ Accounted(ask[t]) /\ ask[t].pc = "cleared"
      /\ ask[t].bills \in Nat /\ ask[t].key \in 1 .. GeminiKeys
      /\ ask[t].tries \in 0 .. Attempts - 1
  BY Numbers, AskFields DEF AnswerLost
<1>1. z \in AskRecords /\ z.bills = ask[t].bills + 1 /\ z.key = ask[t].key
      /\ z.tries = ask[t].tries
  BY <1>0 DEF AskRecords
<1>2. Asks(t, x) /\ UNCHANGED <<cap, day, holder, started>>
      /\ billed' = billed + 1 /\ unseen' = unseen + 1
  BY DEF AnswerLost
<1>3. faults' \in 0 .. MaxFaults BY FaultCounts DEF AnswerLost, UseInv
<1>4. GoesOn(x)
  <2>1. (ask[t].key - 1) * Attempts \in Int BY <1>0
  <2>2. ask[t].bills <= (ask[t].key - 1) * Attempts + ask[t].tries
    BY <1>0, <2>1 DEF Accounted, One
  <2>3. z.bills <= (z.key - 1) * Attempts + z.tries + 1 BY <1>0, <1>1, <2>1, <2>2
  <2> HIDE DEF z
  <2>4. QED BY <1>1, <2>3, NextAttemptGoesOn
<1> HIDE DEF x
<1>5. x \in AskRecords /\ Accounted(x) /\ x.pc \in {"free", "checking"}
  BY <1>4 DEF GoesOn
<1>6. ~ IsPending(ask[t]) /\ ~ IsPending(x) /\ ~ IsCleared(x) /\ IsCleared(ask[t])
  BY <1>0, <1>5 DEF IsPending, IsCleared
<1>7. /\ Cardinality(Pending') = Cardinality(Pending) + One(IsPending(x)) - One(IsPending(ask[t]))
      /\ Cardinality(Cleared') = Cardinality(Cleared) + One(IsCleared(x)) - One(IsCleared(ask[t]))
  BY <1>2, <1>5, Counts DEF UseInv
<1>8. /\ Cardinality(Pending') = Cardinality(Pending)
      /\ Cardinality(Cleared') = Cardinality(Cleared) - 1
  BY <1>6, <1>7, Numbers DEF One
<1>9. Counted' BY <1>2, <1>8, Numbers DEF Counted
<1>10. Overshoot' BY <1>2, <1>8, Numbers DEF Overshoot
<1>11. holder' = (holder \ {t}) \cup (IF x.pc = "recording" THEN {t} ELSE {})
  BY <1>0, <1>2, <1>5 DEF UseInv, Locked
<1>12. \A u \in Threads :
          (u # t /\ ask[u].pc = "recording") =>
              billed' <= ask[u].seen.spent + ask[u].seen.unpriced
                         + Cardinality(Pending') + unseen'
  BY <1>2, <1>8, Numbers
<1>13. /\ day' \in Days /\ billed' \in Nat /\ unseen' \in Nat /\ cap' = cap
       /\ started' \in Nat
  BY <1>2, Numbers
<1>14. QED BY <1>2, <1>3, <1>5, <1>9, <1>10, <1>11, <1>12, <1>13, AskStep

LEMMA UseResent ==
    ASSUME UseInv, NEW t \in Threads, Resent(t)
    PROVE  UseInv'
<1> PICK x : x = SentAgain(ask[t]) OBVIOUS
<1>0. /\ ask[t] \in AskRecords /\ Accounted(ask[t]) /\ ask[t].pc = "cleared"
      /\ ask[t].resends \in 0 .. Resends /\ ask[t].resends < Resends /\ ask[t].resent \in Nat
  BY Numbers, AskFields DEF Resent
<1>1. /\ x \in AskRecords /\ x.pc = "cleared" /\ x.bills = ask[t].bills
      /\ x.key = ask[t].key /\ x.tries = ask[t].tries /\ x.stale = ask[t].stale
      /\ x.flex = ask[t].flex /\ x.refusals = ask[t].refusals
  BY <1>0, ResentFields
<1>2. /\ Asks(t, x) /\ UNCHANGED <<cap, day, holder, started>>
      /\ billed' = billed + 1 /\ unseen' = unseen + 1
  BY DEF Resent, SentAgain
<1>3. faults' \in 0 .. MaxFaults BY FaultCounts DEF Resent, UseInv
<1>4. Accounted(x) BY <1>0, <1>1 DEF Accounted, One
<1>5. ~ IsPending(ask[t]) /\ ~ IsPending(x) /\ IsCleared(x) /\ IsCleared(ask[t])
  BY <1>0, <1>1 DEF IsPending, IsCleared
<1>6. /\ Cardinality(Pending') = Cardinality(Pending) + One(IsPending(x)) - One(IsPending(ask[t]))
      /\ Cardinality(Cleared') = Cardinality(Cleared) + One(IsCleared(x)) - One(IsCleared(ask[t]))
  BY <1>1, <1>2, Counts DEF UseInv
<1>7. /\ Cardinality(Pending') = Cardinality(Pending)
      /\ Cardinality(Cleared') = Cardinality(Cleared)
  BY <1>5, <1>6, Numbers DEF One
<1>8. Counted' BY <1>2, <1>7, Numbers DEF Counted
<1>9. Overshoot' BY <1>2, <1>7, Numbers DEF Overshoot
<1>10. holder' = (holder \ {t}) \cup (IF x.pc = "recording" THEN {t} ELSE {})
  BY <1>0, <1>1, <1>2 DEF UseInv, Locked
<1>11. \A u \in Threads :
          (u # t /\ ask[u].pc = "recording") =>
              billed' <= ask[u].seen.spent + ask[u].seen.unpriced
                         + Cardinality(Pending') + unseen'
  BY <1>2, <1>7, Numbers
<1>12. /\ day' \in Days /\ billed' \in Nat /\ unseen' \in Nat /\ cap' = cap
       /\ started' \in Nat
  BY <1>2, Numbers
<1>13. QED BY <1>1, <1>2, <1>3, <1>4, <1>8, <1>9, <1>10, <1>11, <1>12, AskStep

\* A thread took the lock and read d, and what it cannot see of the day is counted.
LEMMA ReadStep ==
    ASSUME UseInv, NEW t \in Threads, NEW d \in Days, ask[t].pc = "answered", holder = {},
           holder' = {t}, Asks(t, [ask[t] EXCEPT !.pc = "recording", !.seen = d]),
           UNCHANGED <<cap, day, billed, started>>, faults' \in 0 .. MaxFaults,
           unseen' \in Nat, unseen <= unseen',
           billed <= d.spent + d.unpriced + Cardinality(Pending) + unseen'
    PROVE  UseInv'
<1> DEFINE x == [ask[t] EXCEPT !.pc = "recording", !.seen = d]
<1>0. ask[t] \in AskRecords /\ Accounted(ask[t]) /\ d.spent \in Nat /\ d.unpriced \in Nat
  BY Numbers DEF Days
<1>1. /\ x \in AskRecords /\ x.pc = "recording" /\ x.bills = ask[t].bills
      /\ x.key = ask[t].key /\ x.tries = ask[t].tries /\ x.stale = ask[t].stale
      /\ x.flex = ask[t].flex /\ x.refusals = ask[t].refusals /\ x.seen = d
  BY <1>0 DEF AskRecords
<1>2. Asks(t, x) OBVIOUS
<1> HIDE DEF x
<1>3. Accounted(x) BY <1>0, <1>1 DEF Accounted, One
<1>4. /\ ~ IsCleared(x) /\ ~ IsCleared(ask[t]) /\ One(IsPending(x)) = One(IsPending(ask[t]))
  BY <1>1 DEF IsPending, IsCleared
<1>5. /\ Cardinality(Pending') = Cardinality(Pending) + One(IsPending(x)) - One(IsPending(ask[t]))
      /\ Cardinality(Cleared') = Cardinality(Cleared) + One(IsCleared(x)) - One(IsCleared(ask[t]))
  BY <1>1, <1>2, Counts DEF UseInv
<1>6. /\ Cardinality(Pending') = Cardinality(Pending)
      /\ Cardinality(Cleared') = Cardinality(Cleared)
  <2>1. One(IsPending(ask[t])) \in Int BY DEF One
  <2>2. One(IsCleared(x)) = 0 /\ One(IsCleared(ask[t])) = 0 BY <1>4 DEF One
  <2>3. QED BY <1>4, <1>5, <2>1, <2>2, Numbers
<1>7. Counted' BY <1>6, Numbers DEF Counted
<1>8. Overshoot' BY <1>6, Numbers DEF Overshoot
<1>9. \A u \in Threads : ask[u].pc # "recording" BY DEF UseInv, Locked
<1>10. holder' = (holder \ {t}) \cup (IF x.pc = "recording" THEN {t} ELSE {}) BY <1>1
<1>11. billed' <= x.seen.spent + x.seen.unpriced + Cardinality(Pending') + unseen'
  BY <1>1, <1>6
<1>12. day' \in Days /\ billed' \in Nat /\ cap' = cap /\ started' \in Nat BY Numbers
<1>13. QED BY <1>1, <1>2, <1>3, <1>7, <1>8, <1>9, <1>10, <1>11, <1>12, AskStep

LEMMA UseRead ==
    ASSUME UseInv, NEW t \in Threads, Read(t) \/ ReadNothing(t)
    PROVE  UseInv'
<1>1. CASE Read(t)
  <2>1. /\ ask[t].pc = "answered" /\ holder = {} /\ holder' = {t}
        /\ Asks(t, [ask[t] EXCEPT !.pc = "recording", !.seen = day])
        /\ UNCHANGED <<cap, day, billed, unseen, started, faults>>
    BY <1>1 DEF Read
  <2>2. /\ day \in Days /\ faults' \in 0 .. MaxFaults
        /\ unseen' \in Nat /\ unseen <= unseen'
        /\ billed <= day.spent + day.unpriced + Cardinality(Pending) + unseen'
    BY <2>1, Numbers
  <2>3. QED BY <2>1, <2>2, ReadStep
<1>2. CASE ReadNothing(t)
  <2>1. /\ ask[t].pc = "answered" /\ holder = {} /\ holder' = {t}
        /\ Asks(t, [ask[t] EXCEPT !.pc = "recording", !.seen = NoDay])
        /\ UNCHANGED <<cap, day, billed, started>>
        /\ unseen' = unseen + day.spent + day.unpriced
    BY <1>2 DEF ReadNothing
  <2>2. NoDay \in Days /\ NoDay.spent = 0 /\ NoDay.unpriced = 0 BY DEF NoDay, Days
  <2>3. faults' \in 0 .. MaxFaults BY <1>2, FaultCounts DEF ReadNothing, UseInv
  <2>4. /\ unseen' \in Nat /\ unseen <= unseen'
        /\ billed <= NoDay.spent + NoDay.unpriced + Cardinality(Pending) + unseen'
    BY <2>1, <2>2, Numbers
  <2>5. QED BY <2>1, <2>2, <2>3, <2>4, ReadStep
<1>3. QED BY <1>1, <1>2

\* Whoever writes has the lock, so that nobody else is about to write.
LEMMA RecorderAlone ==
    ASSUME UseInv, NEW t \in Threads, ask[t].pc = "recording"
    PROVE  /\ holder = {t}
           /\ \A u \in Threads : u # t => ask[u].pc # "recording"
           /\ billed <= ask[t].seen.spent + ask[t].seen.unpriced + Cardinality(Pending) + unseen
  BY DEF UseInv, Locked, SeenCounted

LEMMA UseWrite ==
    ASSUME UseInv, NEW t \in Threads, Write(t)
    PROVE  UseInv'
<1> DEFINE x == NoAsk
           s == ask[t].seen
<1>0. /\ ask[t] \in AskRecords /\ ask[t].pc = "recording"
      /\ s \in Days /\ s.spent \in Nat /\ s.unpriced \in Nat
  BY Numbers, AskFields DEF Write
<1>1. /\ Asks(t, x) /\ holder' = {} /\ UNCHANGED <<cap, billed, started, faults>>
      /\ day' = Recorded(ask[t]) /\ unseen' = unseen + Missed(ask[t])
  BY DEF Write
<1>2. x \in AskRecords /\ Accounted(x) /\ x.pc = "free" BY NoAskFields, NoAskOnce
<1>3. ~ IsPending(x) /\ ~ IsCleared(x) /\ ~ IsCleared(ask[t])
  BY <1>0, <1>2 DEF IsPending, IsCleared
<1>4. /\ Cardinality(Pending') = Cardinality(Pending) + One(IsPending(x)) - One(IsPending(ask[t]))
      /\ Cardinality(Cleared') = Cardinality(Cleared) + One(IsCleared(x)) - One(IsCleared(ask[t]))
  BY <1>1, <1>2, Counts DEF UseInv
<1>5. /\ Cardinality(Pending') = Cardinality(Pending) - One(~ ask[t].stale)
      /\ Cardinality(Cleared') = Cardinality(Cleared)
  <2>1. One(IsPending(ask[t])) = One(~ ask[t].stale) BY <1>0 DEF IsPending
  <2>2. One(~ ask[t].stale) \in Int /\ One(IsPending(x)) = 0 /\ One(IsCleared(x)) = 0
        /\ One(IsCleared(ask[t])) = 0
    BY <1>3 DEF One
  <2>3. QED BY <1>4, <2>1, <2>2, Numbers
<1> HIDE DEF x
<1>6. /\ day' \in Days /\ unseen' \in Nat /\ unseen <= unseen'
      /\ day'.spent \in Nat /\ day'.unpriced \in Nat
      /\ s.spent + s.unpriced + One(~ ask[t].stale) + unseen
           <= day'.spent + day'.unpriced + unseen'
  <2>1. unseen \in Nat BY Numbers
  <2>2. CASE ask[t].stale
    <3>1. day' = s /\ unseen' = unseen /\ One(~ ask[t].stale) = 0
      BY <1>1, <2>1, <2>2 DEF Recorded, Missed, One
    <3>2. QED BY <1>0, <2>1, <3>1
  <2>3. CASE ~ ask[t].stale /\ ask[t].priced
    <3>1. PICK n : n = s.spent + 1 OBVIOUS
    <3>2. /\ day' = [s EXCEPT !.spent = n] /\ unseen' = unseen
          /\ One(~ ask[t].stale) = 1
      BY <1>0, <1>1, <2>1, <2>3, <3>1 DEF Recorded, Missed, One, Days
    <3>3. day' \in Days /\ day'.spent = n /\ day'.unpriced = s.unpriced /\ n \in Nat
      BY <1>0, <3>1, <3>2 DEF Days
    <3>4. QED BY <1>0, <2>1, <3>1, <3>2, <3>3
  <2>4. CASE ~ ask[t].stale /\ ~ ask[t].priced /\ cap = "dollars"
    <3>1. PICK n : n = s.unpriced + 1 OBVIOUS
    <3>2. /\ day' = [s EXCEPT !.unpriced = n] /\ unseen' = unseen
          /\ One(~ ask[t].stale) = 1
      BY <1>0, <1>1, <2>1, <2>4, <3>1 DEF Recorded, Missed, One, Days
    <3>3. day' \in Days /\ day'.unpriced = n /\ day'.spent = s.spent /\ n \in Nat
      BY <1>0, <3>1, <3>2 DEF Days
    <3>4. QED BY <1>0, <2>1, <3>1, <3>2, <3>3
  <2>5. CASE ~ ask[t].stale /\ ~ ask[t].priced /\ cap # "dollars"
    <3>1. day' = s /\ unseen' = unseen + 1 /\ One(~ ask[t].stale) = 1
      BY <1>1, <2>5 DEF Recorded, Missed, One
    <3>2. QED BY <1>0, <2>1, <3>1
  <2>6. QED BY <2>2, <2>3, <2>4, <2>5
<1>7. Counted'
  <2>1. billed <= s.spent + s.unpriced + Cardinality(Pending) + unseen
    BY <1>0, RecorderAlone
  <2>2. One(~ ask[t].stale) \in Int BY DEF One
  <2>3. QED BY <1>0, <1>1, <1>5, <1>6, <2>1, <2>2, Numbers DEF Counted
<1>8. Overshoot' BY <1>1, <1>5, <1>6, Numbers DEF Overshoot
<1>9. /\ holder' = (holder \ {t}) \cup (IF x.pc = "recording" THEN {t} ELSE {})
      /\ \A u \in Threads : u # t => ask[u].pc # "recording"
  BY <1>0, <1>1, <1>2, RecorderAlone
<1>10. billed' \in Nat /\ cap' = cap /\ started' \in Nat /\ faults' \in 0 .. MaxFaults
  BY <1>1, Numbers
<1>11. QED BY <1>1, <1>2, <1>6, <1>7, <1>8, <1>9, <1>10, AskStep

LEMMA UseWriteRaises ==
    ASSUME UseInv, NEW t \in Threads, WriteRaises(t)
    PROVE  UseInv'
<1> DEFINE x == NextAttempt(ask[t])
<1>0. /\ ask[t] \in AskRecords /\ Accounted(ask[t]) /\ ask[t].pc = "recording"
      /\ ask[t].bills \in Nat /\ ask[t].key \in 1 .. GeminiKeys
      /\ ask[t].tries \in 0 .. Attempts - 1
  BY Numbers, AskFields DEF WriteRaises
<1>1. /\ Asks(t, x) /\ holder' = {} /\ UNCHANGED <<cap, day, billed, started>>
      /\ unseen' = unseen + 1
  BY DEF WriteRaises
<1>2. GoesOn(x)
  <2>1. (ask[t].key - 1) * Attempts \in Int BY <1>0
  <2>2. ask[t].bills <= (ask[t].key - 1) * Attempts + ask[t].tries + 1
    BY <1>0, <2>1 DEF Accounted, One
  <2>3. QED BY <1>0, <2>2, NextAttemptGoesOn
<1> HIDE DEF x
<1>3. x \in AskRecords /\ Accounted(x) /\ x.pc \in {"free", "checking"} BY <1>2 DEF GoesOn
<1>4. ~ IsPending(x) /\ ~ IsCleared(x) /\ ~ IsCleared(ask[t])
  BY <1>0, <1>3 DEF IsPending, IsCleared
<1>5. /\ Cardinality(Pending') = Cardinality(Pending) + One(IsPending(x)) - One(IsPending(ask[t]))
      /\ Cardinality(Cleared') = Cardinality(Cleared) + One(IsCleared(x)) - One(IsCleared(ask[t]))
  BY <1>1, <1>3, Counts DEF UseInv
<1>6. /\ Cardinality(Pending') \in Int /\ Cardinality(Pending) <= Cardinality(Pending') + 1
      /\ Cardinality(Cleared') = Cardinality(Cleared)
  <2>1. One(IsPending(x)) = 0 /\ One(IsPending(ask[t])) \in 0 .. 1
    BY <1>4 DEF One
  <2>2. One(IsCleared(x)) = 0 /\ One(IsCleared(ask[t])) = 0 BY <1>4 DEF One
  <2>3. QED BY <1>5, <2>1, <2>2, Numbers
<1>7. Counted' BY <1>1, <1>6, Numbers DEF Counted
<1>8. Overshoot' BY <1>1, <1>6, Numbers DEF Overshoot
<1>9. /\ holder' = (holder \ {t}) \cup (IF x.pc = "recording" THEN {t} ELSE {})
      /\ \A u \in Threads : u # t => ask[u].pc # "recording"
  BY <1>0, <1>1, <1>3, RecorderAlone
<1>10. /\ day' \in Days /\ billed' \in Nat /\ unseen' \in Nat /\ cap' = cap
       /\ started' \in Nat
  BY <1>1, Numbers
<1>11. faults' \in 0 .. MaxFaults BY FaultCounts DEF WriteRaises, UseInv
<1>12. QED BY <1>1, <1>3, <1>7, <1>8, <1>9, <1>10, <1>11, AskStep

\* What midnight does to one thread.
Overnight(a, s) == [a EXCEPT !.seen = NoDay, !.stale = s]

LEMMA OvernightKeeps ==
    ASSUME NEW a \in AskRecords, NEW s \in BOOLEAN, NEW x, x = Overnight(a, s)
    PROVE  /\ x \in AskRecords /\ x.pc = a.pc /\ x.bills = a.bills
           /\ x.key = a.key /\ x.tries = a.tries /\ x.stale = s
<1>1. NoDay \in Days BY DEF NoDay, Days
<1>2. PICK u : u = [a EXCEPT !.seen = NoDay] OBVIOUS
<1>3. PICK y : y = [u EXCEPT !.stale = s] OBVIOUS
<1>4. u \in AskRecords BY <1>1, <1>2 DEF AskRecords
<1>5. y \in AskRecords BY <1>3, <1>4 DEF AskRecords
<1>6. x = y BY <1>2, <1>3 DEF Overnight
<1>7. y.pc = a.pc /\ y.bills = a.bills /\ y.key = a.key /\ y.tries = a.tries
  BY <1>2, <1>3 DEF AskRecords
<1>8. y.stale = s BY <1>3, <1>4 DEF AskRecords
<1>9. QED BY <1>5, <1>6, <1>7, <1>8

LEMMA OvernightKeepsTier ==
    ASSUME NEW a \in AskRecords, NEW s \in BOOLEAN, NEW x, x = Overnight(a, s)
    PROVE  /\ x.flex = a.flex /\ x.refusals = a.refusals
           /\ x.resends = a.resends /\ x.resent = a.resent
<1>1. PICK u : u = [a EXCEPT !.seen = NoDay] OBVIOUS
<1>2. PICK y : y = [u EXCEPT !.stale = s] OBVIOUS
<1>3. x = y BY <1>1, <1>2 DEF Overnight
<1>4. /\ y.flex = a.flex /\ y.refusals = a.refusals
      /\ y.resends = a.resends /\ y.resent = a.resent
  BY <1>1, <1>2 DEF AskRecords
<1>5. QED BY <1>3, <1>4

LEMMA UseMidnight ==
    ASSUME UseInv, Midnight
    PROVE  UseInv'
<1>0. ask' = [t \in Threads |->
                Overnight(ask[t], ask[t].stale \/ t \in Pending)]
  BY DEF Midnight, Overnight
<1>1. day' = NoDay /\ billed' = 0 /\ unseen' = 0 /\ UNCHANGED <<cap, holder, started>>
  BY DEF Midnight
<1>2. NoDay \in Days /\ NoDay.spent = 0 /\ NoDay.unpriced = 0 BY DEF NoDay, Days
<1>3. ASSUME NEW t \in Threads
      PROVE  /\ ask'[t] \in AskRecords /\ ask'[t].pc = ask[t].pc /\ ask'[t].bills = ask[t].bills
             /\ ask'[t].key = ask[t].key /\ ask'[t].tries = ask[t].tries
             /\ ask'[t].flex = ask[t].flex /\ ask'[t].refusals = ask[t].refusals
             /\ ask'[t].stale = (ask[t].stale \/ t \in Pending)
  <2>1. ask[t] \in AskRecords BY Numbers
  <2>2. CASE ask[t].stale \/ t \in Pending
    <3>1. (ask[t].stale \/ t \in Pending) = TRUE BY <2>2
    <3>2. PICK x : x = Overnight(ask[t], TRUE) OBVIOUS
    <3>3. ask'[t] = x BY <1>0, <3>1, <3>2, Zenon
    <3>4. /\ x \in AskRecords /\ x.pc = ask[t].pc /\ x.bills = ask[t].bills
          /\ x.key = ask[t].key /\ x.tries = ask[t].tries /\ x.stale = TRUE
      BY <2>1, <3>2, OvernightKeeps
    <3>5. ask'[t].stale = (ask[t].stale \/ t \in Pending) BY <3>1, <3>3, <3>4, Zenon
    <3>6. x.flex = ask[t].flex /\ x.refusals = ask[t].refusals
      BY <2>1, <3>2, OvernightKeepsTier
    <3>7. QED BY <3>3, <3>4, <3>5, <3>6, Zenon
  <2>3. CASE ~ (ask[t].stale \/ t \in Pending)
    <3>1. (ask[t].stale \/ t \in Pending) = FALSE BY <2>3
    <3>2. PICK x : x = Overnight(ask[t], FALSE) OBVIOUS
    <3>3. ask'[t] = x BY <1>0, <3>1, <3>2, Zenon
    <3>4. /\ x \in AskRecords /\ x.pc = ask[t].pc /\ x.bills = ask[t].bills
          /\ x.key = ask[t].key /\ x.tries = ask[t].tries /\ x.stale = FALSE
      BY <2>1, <3>2, OvernightKeeps
    <3>5. ask'[t].stale = (ask[t].stale \/ t \in Pending) BY <3>1, <3>3, <3>4, Zenon
    <3>6. x.flex = ask[t].flex /\ x.refusals = ask[t].refusals
      BY <2>1, <3>2, OvernightKeepsTier
    <3>7. QED BY <3>3, <3>4, <3>5, <3>6, Zenon
  <2>4. QED BY <2>2, <2>3
<1>4. ask' \in [Threads -> AskRecords] BY <1>0, <1>3
<1>5. faults' \in 0 .. MaxFaults BY FaultCounts DEF Midnight, UseInv
<1>6. UseType' BY <1>1, <1>2, <1>4, <1>5 DEF UseInv, UseType
<1>7. Locked' BY <1>1, <1>3 DEF UseInv, Locked
<1>8. Cardinality(Cleared') = Cardinality(Cleared)
  <2>1. Cleared' = Cleared BY <1>3 DEF Cleared
  <2>2. QED BY <2>1
<1>9. Cardinality(Pending') = 0
  <2>1. Pending' = {} BY <1>3 DEF Pending
  <2>2. QED BY <2>1, FS_EmptySet
<1>10. Counted' BY <1>1, <1>2, <1>9 DEF Counted
<1>11. Overshoot' BY <1>1, <1>8, Numbers DEF Overshoot
<1>12. SeenCounted'
  <2> SUFFICES ASSUME NEW t \in Threads
               PROVE billed' <= ask'[t].seen.spent + ask'[t].seen.unpriced
                                + Cardinality(Pending') + unseen'
    BY DEF SeenCounted
  <2>1. ask'[t].seen.spent \in Nat /\ ask'[t].seen.unpriced \in Nat BY <1>3, AskFields
  <2>2. QED BY <1>1, <1>9, <2>1
<1>13. AllAccounted'
  <2> SUFFICES ASSUME NEW t \in Threads PROVE Accounted(ask'[t])
    BY DEF AllAccounted, Accounted
  <2>1. Accounted(ask[t]) BY Numbers
  <2>2. QED BY <1>3, <2>1 DEF Accounted, Pending
<1>14. QED BY <1>6, <1>7, <1>10, <1>11, <1>12, <1>13 DEF UseInv

LEMMA UseKill ==
    ASSUME UseInv, NEW p \in Processes, Kill(p)
    PROVE  UseInv'
<1> DEFINE its == {t \in Threads : Of[t] = p}
           gone == Pending \cap its
<1>1. /\ ask' = [t \in Threads |-> IF t \in its THEN NoAsk ELSE ask[t]]
      /\ holder' = holder \ its
      /\ unseen' = unseen + Cardinality(gone)
      /\ UNCHANGED <<cap, day, billed, started>>
  BY DEF Kill
<1>2. \A t \in Threads : ask'[t] = IF t \in its THEN NoAsk ELSE ask[t] BY <1>1
<1>3. Pending' = Pending \ gone /\ gone \subseteq Pending /\ Cleared' \subseteq Cleared
  BY <1>2, NoAskFields DEF Pending, Cleared
<1>4. its \subseteq Threads OBVIOUS
<1> HIDE DEF gone, its
<1>5. /\ Cardinality(gone) \in Nat
      /\ Cardinality(Pending') = Cardinality(Pending) - Cardinality(gone)
      /\ Cardinality(Cleared') <= Cardinality(Cleared) /\ Cardinality(Cleared') \in Nat
  <2>1. IsFiniteSet(Pending) /\ IsFiniteSet(Cleared)
    <3>1. Pending \subseteq Threads /\ Cleared \subseteq Threads BY DEF Pending, Cleared
    <3>2. QED BY <3>1, FS_Subset
  <2>2. IsFiniteSet(gone) BY <1>3, <2>1, FS_Subset
  <2>3. Pending \cap gone = gone BY <1>3
  <2>4. Cardinality(Pending \ gone) = Cardinality(Pending) - Cardinality(Pending \cap gone)
    BY <2>1, FS_Difference
  <2>5. Cardinality(Cleared') <= Cardinality(Cleared) /\ IsFiniteSet(Cleared')
    BY <1>3, <2>1, FS_Subset
  <2>6. Cardinality(Pending') = Cardinality(Pending) - Cardinality(gone)
    BY <1>3, <2>3, <2>4
  <2>7. QED BY <2>2, <2>5, <2>6, FS_CardinalityType
<1>6. faults' \in 0 .. MaxFaults BY FaultCounts DEF Kill, UseInv
<1>7. ask' \in [Threads -> AskRecords] BY <1>1, NoAskFields DEF UseInv, UseType
<1>8. unseen' \in Nat BY <1>1, <1>5, Numbers
<1>9. UseType' BY <1>1, <1>6, <1>7, <1>8 DEF UseInv, UseType
<1>10. Locked'
  <2>1. holder = {t \in Threads : ask[t].pc = "recording"} /\ \A t, u \in holder : t = u
    BY DEF UseInv, Locked
  <2>2. holder' = {t \in Threads : ask'[t].pc = "recording"}
    BY <1>1, <1>2, <2>1, NoAskFields
  <2>3. QED BY <1>1, <2>1, <2>2 DEF Locked
<1>11. PICK n \in Nat : n = Cardinality(gone) BY <1>5
<1>12. /\ unseen' = unseen + n /\ billed' = billed /\ day' = day
       /\ Cardinality(Pending') = Cardinality(Pending) - n
  BY <1>1, <1>5, <1>11
<1>13. Counted' BY <1>12, Numbers DEF Counted
<1>14. Overshoot' BY <1>5, <1>12, Numbers DEF Overshoot
<1>15. SeenCounted'
  <2> SUFFICES ASSUME NEW t \in Threads, ask'[t].pc = "recording"
               PROVE billed' <= ask'[t].seen.spent + ask'[t].seen.unpriced
                                + Cardinality(Pending') + unseen'
    BY DEF SeenCounted
  <2>1. ask'[t] = ask[t] BY <1>2, NoAskFields
  <2>2. QED BY <1>12, <2>1, Numbers
<1>16. AllAccounted'
  <2> SUFFICES ASSUME NEW t \in Threads PROVE Accounted(ask'[t])
    BY DEF AllAccounted, Accounted
  <2>1. Accounted(ask[t]) BY Numbers
  <2>2. QED BY <1>2, <2>1, NoAskOnce
<1>17. QED BY <1>9, <1>10, <1>13, <1>14, <1>15, <1>16 DEF UseInv

\* A lookup leaves the record alone.
LEMMA UseStill ==
    ASSUME UseInv, UNCHANGED <<cap, day, holder, billed, unseen, ask, faults>>,
           started' \in Nat
    PROVE  UseInv'
<1>1. UseType' BY DEF UseInv, UseType
<1>2. Pending' = Pending /\ Cleared' = Cleared BY DEF Pending, Cleared
<1>3. Locked' BY DEF UseInv, Locked
<1>4. Counted' /\ SeenCounted' BY <1>2 DEF UseInv, Counted, SeenCounted
<1>5. Overshoot' BY <1>2 DEF UseInv, Overshoot
<1>6. AllAccounted' BY DEF UseInv, AllAccounted, Accounted
<1>7. QED BY <1>1, <1>3, <1>4, <1>5, <1>6 DEF UseInv

LEMMA UseNext == UseInv /\ [Next]_vars => UseInv'
<1> SUFFICES ASSUME UseInv, [Next]_vars PROVE UseInv' OBVIOUS
<1>0. started \in Nat /\ started + 1 \in Nat BY Numbers
<1>1. CASE UNCHANGED vars BY <1>0, <1>1, UseStill DEF vars, usage
<1>2. ASSUME NEW t \in Threads, StartLookup(t) PROVE UseInv'
  BY <1>0, <1>2, UseStill DEF StartLookup, Start, usage
<1>3. ASSUME NEW t \in Threads, NEW flex \in BOOLEAN, NEW keys \in {1, GeminiKeys},
             StartAsk(t, flex, keys)
      PROVE UseInv'
  BY <1>3, UseStartAsk
<1>4. ASSUME NEW t \in Threads, Working(t) PROVE UseInv'
  <2>1. CASE ReadIndex(t) \/ Send(t) \/ LookupEnds(t) \/ LookupBusy(t) \/ LookupRefused(t)
             \/ Rotate(t)
    <3>1. UNCHANGED <<cap, usage, started, faults>>
      BY <2>1 DEF ReadIndex, Send, LookupEnds, LookupBusy, LookupRefused, Rotate
    <3>2. QED BY <1>0, <3>1, UseStill DEF usage
  <2>2. CASE Check(t) BY <2>2, UseCheck
  <2>3. CASE Served(t, TRUE) BY <2>3, UseServed
  <2>4. CASE AskFails(t) \/ FlexRefused(t) \/ KeyGone(t) BY <2>4, UseQuiet
  <2>5. CASE Read(t) BY <2>5, UseRead
  <2>6. CASE Write(t) BY <2>6, UseWrite
  <2>7. QED BY <1>4, <2>1, <2>2, <2>3, <2>4, <2>5, <2>6 DEF Working
<1>5. ASSUME NEW t \in Threads, Failing(t) PROVE UseInv'
  <2>1. CASE CheckUnread(t) BY <2>1, UseCheckUnread
  <2>2. CASE Served(t, FALSE) BY <2>2, UseServed
  <2>3. CASE AnswerLost(t) BY <2>3, UseAnswerLost
  <2>4. CASE Resent(t) BY <2>4, UseResent
  <2>5. CASE ReadNothing(t) BY <2>5, UseRead
  <2>6. CASE WriteRaises(t) BY <2>6, UseWriteRaises
  <2>7. QED BY <1>5, <2>1, <2>2, <2>3, <2>4, <2>5, <2>6 DEF Failing
<1>6. ASSUME NEW k \in 0 .. Keys - 1, Drain(k) PROVE UseInv'
  BY <1>0, <1>6, UseStill DEF Drain, usage
<1>7. ASSUME NEW p \in Processes, Kill(p) PROVE UseInv' BY <1>7, UseKill
<1>8. CASE Midnight BY <1>8, UseMidnight
<1>9. QED BY <1>1, <1>2, <1>3, <1>4, <1>5, <1>6, <1>7, <1>8 DEF Next

LEMMA UseAlways == Spec => []UseInv
<1>1. UseInv /\ [Next]_vars => UseInv' BY UseNext
<1>2. QED BY UseInit, <1>1, PTL DEF Spec

\* Everything keeps its shape, and no key is asked for that there is not.
THEOREM TypeCorrect == Spec => []TypeOK
<1>1. KeyInv /\ [Next]_vars => KeyInv' BY KeyNext
<1>2. Spec => []KeyInv BY KeyInit, <1>1, PTL DEF Spec
<1>3. KeyInv /\ UseInv => TypeOK BY DEF KeyInv, KeyType, UseInv, UseType, TypeOK
<1>4. QED BY <1>2, <1>3, UseAlways, PTL

\* Every call charged for is in the record, on its way there, or one that no record
\* could have: two threads that write at once lose nothing.
THEOREM NothingUncounted == Spec => []Counted
<1>1. UseInv => Counted BY DEF UseInv
<1>2. QED BY <1>1, UseAlways, PTL

\* The cap is passed by no more than the calls in flight, with those the record misses.
THEOREM BoundedOvershoot == Spec => []Overshoot
<1>1. UseInv => Overshoot BY DEF UseInv
<1>2. QED BY <1>1, UseAlways, PTL

-----------------------------------------------------------------------------
\* What a call may cost: what the SDK sent again is bounded by the requests made so far.

Before(x) == (x.key - 1) * Attempts + x.tries
Refusals(x) == IF Before(x) = 0 THEN x.refusals ELSE Patience + 1

\* The flex tier is asked for in the first attempt only.
Sent(x) ==
    /\ x.flex => Before(x) = 0
    /\ x.resent <= Resends * (Before(x) + Refusals(x)) + x.resends
AllSent == \A t \in Threads : Sent(ask[t])

LEMMA BeforeIsNat ==
    ASSUME NEW k \in 1 .. GeminiKeys, NEW n \in 0 .. Attempts - 1
    PROVE  (k - 1) * Attempts + n \in Nat
<1>1. \A i, j \in Nat : i * j \in Nat OBVIOUS
<1>2. k - 1 \in Nat /\ Attempts \in Nat OBVIOUS
<1>3. (k - 1) * Attempts \in Nat BY <1>1, <1>2
<1>4. QED BY <1>3

LEMMA Grows ==
    ASSUME NEW a \in Nat, NEW b \in Nat, a + 1 <= b
    PROVE  Resends * a + Resends <= Resends * b
<1>1. PICK d \in Nat : b = a + 1 + d
  <2>1. b - a - 1 \in Nat /\ b = a + 1 + (b - a - 1) OBVIOUS
  <2>2. QED BY <2>1
<1>2. Resends * (a + 1 + d) = Resends * a + Resends + Resends * d OBVIOUS
<1>3. Resends * a \in Nat /\ Resends * d \in Nat OBVIOUS
<1>4. QED BY <1>1, <1>2, <1>3

\* The numbers of a call within its bound.
LEMMA SentNumbers ==
    ASSUME NEW x \in AskRecords
    PROVE  /\ Before(x) \in Nat /\ Refusals(x) \in 0 .. Patience + 1
           /\ x.resends \in 0 .. Resends /\ x.resent \in Nat
           /\ x.refusals \in 0 .. Patience + 1
<1>1. /\ x.key \in 1 .. GeminiKeys /\ x.tries \in 0 .. Attempts - 1
      /\ x.resends \in 0 .. Resends /\ x.resent \in Nat /\ x.refusals \in 0 .. Patience + 1
  BY AskFields
<1>2. Before(x) \in Nat BY <1>1, BeforeIsNat DEF Before
<1>3. Refusals(x) \in 0 .. Patience + 1 BY <1>1 DEF Refusals
<1>4. QED BY <1>1, <1>2, <1>3

LEMMA NoAskSent == Sent(NoAsk)
<1>1. Before(NoAsk) = 0
  <2>1. (1 - 1) * Attempts = 0 OBVIOUS
  <2>2. QED BY <2>1, NoAskFields DEF Before
<1>2. Refusals(NoAsk) = 0 BY <1>1, NoAskFields DEF Refusals
<1>3. Resends * (0 + 0) = 0 OBVIOUS
<1>4. QED BY <1>1, <1>2, <1>3, NoAskFields DEF Sent

LEMMA SameSent ==
    ASSUME NEW a, NEW x, Sent(a), x.flex = a.flex, x.key = a.key, x.tries = a.tries,
           x.refusals = a.refusals, x.resends = a.resends, x.resent = a.resent
    PROVE  Sent(x)
  BY DEF Sent, Before, Refusals

LEMMA AgainSent ==
    ASSUME NEW a \in AskRecords, NEW k \in 1 .. GeminiKeys, NEW n \in 0 .. Attempts - 1,
           Sent(a), Before(a) + 1 <= (k - 1) * Attempts + n
    PROVE  Sent(Again(a, k, n))
<1> DEFINE x == Again(a, k, n)
<1>1. x.key = k /\ x.tries = n /\ x.resent = a.resent /\ x.resends = 0 /\ x.flex = FALSE
  BY DEF Again, NoAsk
<1> HIDE DEF x
<1>2. Before(x) = (k - 1) * Attempts + n /\ Before(x) \in Nat
  BY <1>1, BeforeIsNat DEF Before
<1>3. Before(a) \in Nat /\ Refusals(a) \in 0 .. Patience + 1 /\ a.resends \in 0 .. Resends
      /\ a.resent \in Nat
  BY SentNumbers
<1>4. Refusals(x) = Patience + 1 BY <1>2, <1>3 DEF Refusals
<1>5. PICK i \in Nat : i = Before(a) + Refusals(a) BY <1>3
<1>6. PICK j \in Nat : j = Before(x) + Refusals(x) BY <1>2, <1>4
<1>7. i + 1 <= j BY <1>2, <1>3, <1>4, <1>5, <1>6
<1>8. Resends * i + Resends <= Resends * j BY <1>7, Grows
<1>9. a.resent <= Resends * i + a.resends BY <1>5 DEF Sent
<1>10. Resends * i \in Nat /\ Resends * j \in Nat OBVIOUS
<1>11. x.resent <= Resends * j + x.resends BY <1>1, <1>3, <1>8, <1>9, <1>10
<1>12. Sent(x) BY <1>1, <1>6, <1>11 DEF Sent
<1>13. QED BY <1>12 DEF x

LEMMA NextSent ==
    ASSUME NEW a \in AskRecords, Sent(a)
    PROVE  Sent(NextKey(a)) /\ Sent(NextAttempt(a))
<1>0. /\ a.key \in 1 .. GeminiKeys /\ a.keys \in 1 .. GeminiKeys
      /\ a.tries \in 0 .. Attempts - 1
  BY AskFields
<1>1. Sent(NextKey(a))
  <2>1. CASE a.key < a.keys
    <3>1. PICK k : k = a.key + 1 OBVIOUS
    <3>2. k \in 1 .. GeminiKeys /\ 0 \in 0 .. Attempts - 1 /\ k - 1 = a.key BY <1>0, <2>1, <3>1
    <3>3. a.key * Attempts = (a.key - 1) * Attempts + Attempts BY <1>0, Times
    <3>4. (a.key - 1) * Attempts \in Int /\ a.key * Attempts \in Int BY <1>0
    <3>5. Before(a) + 1 <= (k - 1) * Attempts + 0 BY <1>0, <3>2, <3>3, <3>4 DEF Before
    <3>6. Sent(Again(a, k, 0)) BY <3>2, <3>5, AgainSent
    <3>7. QED BY <2>1, <3>1, <3>6 DEF NextKey
  <2>2. CASE ~ (a.key < a.keys) BY <2>2, NoAskSent DEF NextKey
  <2>3. QED BY <2>1, <2>2
<1>2. Sent(NextAttempt(a))
  <2>1. CASE a.tries + 1 < Attempts
    <3>1. PICK n : n = a.tries + 1 OBVIOUS
    <3>2. n \in 0 .. Attempts - 1 BY <1>0, <2>1, <3>1
    <3>3. (a.key - 1) * Attempts \in Int BY <1>0
    <3>4. Before(a) + 1 <= (a.key - 1) * Attempts + n BY <1>0, <3>1, <3>3 DEF Before
    <3>5. Sent(Again(a, a.key, n)) BY <1>0, <3>2, <3>4, AgainSent
    <3>6. QED BY <2>1, <3>1, <3>5 DEF NextAttempt
  <2>2. CASE ~ (a.tries + 1 < Attempts) BY <1>1, <2>2 DEF NextAttempt
  <2>3. QED BY <2>1, <2>2
<1>3. QED BY <1>1, <1>2

LEMMA SentStep ==
    ASSUME UseInv, AllSent, NEW t \in Threads, NEW x, Asks(t, x), Sent(x)
    PROVE  AllSent'
<1> SUFFICES ASSUME NEW u \in Threads PROVE Sent(ask'[u]) BY DEF AllSent, Sent, Before, Refusals
<1>1. ask'[u] = IF u = t THEN x ELSE ask[u] BY DEF Asks, UseInv, UseType
<1>2. Sent(ask[u]) BY DEF AllSent
<1>3. QED BY <1>1, <1>2

LEMMA SentFlexRefused ==
    ASSUME UseInv, AllSent, NEW t \in Threads, FlexRefused(t)
    PROVE  AllSent'
<1>1. PICK a : a = ask[t] OBVIOUS
<1>2. a \in AskRecords /\ Accounted(a) /\ Sent(a) /\ a.flex BY <1>1, Numbers DEF AllSent, FlexRefused
<1>3. PICK n : n = a.refusals + 1 OBVIOUS
<1>4. a.refusals \in 0 .. Patience + 1 /\ a.refusals <= Patience
  BY <1>2, SentNumbers DEF Accounted
<1>5. n \in 0 .. Patience + 1 BY <1>3, <1>4
<1>6. PICK f \in BOOLEAN : f <=> a.refusals < Patience OBVIOUS
<1>7. PICK x : x = Flexed(a, f, n) OBVIOUS
<1>8. /\ x.key = a.key /\ x.tries = a.tries /\ x.flex = f /\ x.refusals = n
      /\ x.resends = 0 /\ x.resent = a.resent
  BY <1>2, <1>5, <1>7, FlexedKeeps
<1>9. Asks(t, x)
  <2>1. x = [a EXCEPT !.pc = "checking", !.flex = a.refusals < Patience,
                      !.refusals = @ + 1, !.resends = 0]
    BY <1>2, <1>3, <1>6, <1>7, FlexedIs, Zenon
  <2>2. QED BY <1>1, <2>1, Zenon DEF FlexRefused
<1>10. Sent(x)
  <2>1. Before(a) = 0 BY <1>2 DEF Sent
  <2>2. Before(x) = 0 BY <1>8, <2>1 DEF Before
  <2>3. Refusals(a) = a.refusals /\ Refusals(x) = n BY <1>8, <2>1, <2>2 DEF Refusals
  <2>4. a.resends \in 0 .. Resends /\ a.resent \in Nat BY <1>2, SentNumbers
  <2>5. a.resent <= Resends * a.refusals + a.resends
    <3>1. 0 + a.refusals = a.refusals BY <1>4
    <3>2. QED BY <1>2, <2>1, <2>3, <3>1 DEF Sent
  <2>6. Resends * a.refusals + Resends <= Resends * n BY <1>3, <1>4, Grows
  <2>7. Resends * a.refusals \in Nat /\ Resends * n \in Nat BY <1>3, <1>4
  <2>8. a.resent <= Resends * n + 0 BY <2>4, <2>5, <2>6, <2>7
  <2>9. 0 + n = n BY <1>5
  <2>10. x.resent <= Resends * (Before(x) + Refusals(x)) + x.resends
    BY <1>8, <2>2, <2>3, <2>8, <2>9
  <2>11. QED BY <2>2, <2>10 DEF Sent
<1>11. QED BY <1>9, <1>10, SentStep

LEMMA SentResent ==
    ASSUME UseInv, AllSent, NEW t \in Threads, Resent(t)
    PROVE  AllSent'
<1>1. PICK a : a = ask[t] OBVIOUS
<1>2. a \in AskRecords /\ Sent(a) /\ a.resends < Resends BY <1>1, Numbers DEF AllSent, Resent
<1>3. PICK x : x = SentAgain(a) OBVIOUS
<1>4. /\ x.key = a.key /\ x.tries = a.tries /\ x.flex = a.flex /\ x.refusals = a.refusals
      /\ x.resends = a.resends + 1 /\ x.resent = a.resent + 1
  BY <1>2, <1>3, ResentFields
<1>5. Asks(t, x) BY <1>1, <1>3 DEF Resent, SentAgain
<1>6. Before(x) = Before(a) /\ Refusals(x) = Refusals(a) BY <1>4 DEF Before, Refusals
<1>7. PICK i \in Nat : i = Before(a) + Refusals(a) BY <1>2, SentNumbers
<1>8. Resends * i \in Nat /\ a.resends \in Nat /\ a.resent \in Nat BY <1>2, SentNumbers
<1>9. a.resent <= Resends * i + a.resends BY <1>2, <1>7 DEF Sent
<1>10. x.resent <= Resends * i + x.resends BY <1>4, <1>8, <1>9
<1>11. Sent(x) BY <1>2, <1>4, <1>6, <1>7, <1>10 DEF Sent
<1>12. QED BY <1>5, <1>11, SentStep

\* A step that leaves the request out alone.
LEMMA SentAlone ==
    ASSUME UseInv, AllSent, NEW t \in Threads,
           NEW x, Asks(t, x), x.flex = ask[t].flex, x.key = ask[t].key, x.tries = ask[t].tries,
           x.refusals = ask[t].refusals, x.resends = ask[t].resends, x.resent = ask[t].resent
    PROVE  AllSent'
<1>1. Sent(ask[t]) BY DEF AllSent
<1>2. Sent(x) BY <1>1, SameSent
<1>3. QED BY <1>2, SentStep

LEMMA SentWorking ==
    ASSUME UseInv, AllSent, NEW t \in Threads,
           Working(t) \/ Failing(t)
    PROVE  AllSent'
<1>1. ask[t] \in AskRecords /\ Sent(ask[t]) BY Numbers DEF AllSent
<1>2. CASE UNCHANGED ask BY <1>2 DEF AllSent, Sent, Before, Refusals
<1>3. CASE ReadIndex(t) \/ Send(t) \/ LookupEnds(t) \/ LookupBusy(t) \/ LookupRefused(t)
           \/ Rotate(t)
  BY <1>2, <1>3 DEF ReadIndex, Send, LookupEnds, LookupBusy, LookupRefused, Rotate, usage
<1>4. CASE Asks(t, NoAsk) BY <1>4, NoAskSent, SentStep
<1>5. CASE Asks(t, [ask[t] EXCEPT !.pc = "cleared"])
  <2>1. PICK x : x = [ask[t] EXCEPT !.pc = "cleared"] OBVIOUS
  <2>2. /\ x.flex = ask[t].flex /\ x.key = ask[t].key /\ x.tries = ask[t].tries
        /\ x.refusals = ask[t].refusals /\ x.resends = ask[t].resends
        /\ x.resent = ask[t].resent
    BY <1>1, <2>1 DEF AskRecords
  <2>3. QED BY <1>5, <2>1, <2>2, SentAlone
<1>6. CASE Check(t) \/ CheckUnread(t) BY <1>4, <1>5, <1>6 DEF Check, CheckUnread
<1>7. ASSUME NEW p \in BOOLEAN, Served(t, p) PROVE AllSent'
  <2>1. PICK x : x = [ask[t] EXCEPT !.pc = "answered", !.priced = p, !.bills = @ + 1] OBVIOUS
  <2>2. /\ x.flex = ask[t].flex /\ x.key = ask[t].key /\ x.tries = ask[t].tries
        /\ x.refusals = ask[t].refusals /\ x.resends = ask[t].resends
        /\ x.resent = ask[t].resent
    BY <1>1, <2>1 DEF AskRecords
  <2>3. Asks(t, x) BY <1>7, <2>1 DEF Served
  <2>4. QED BY <2>2, <2>3, SentAlone
<1>8. CASE AnswerLost(t)
  <2>1. PICK b : b = ask[t].bills + 1 OBVIOUS
  <2>2. PICK z : z = [ask[t] EXCEPT !.bills = b] OBVIOUS
  <2>3. b \in Nat BY <1>1, <2>1, AskFields
  <2>4. /\ z \in AskRecords
        /\ z.flex = ask[t].flex /\ z.key = ask[t].key /\ z.tries = ask[t].tries
        /\ z.refusals = ask[t].refusals /\ z.resends = ask[t].resends
        /\ z.resent = ask[t].resent
    BY <1>1, <2>2, <2>3 DEF AskRecords
  <2>5. Sent(z) BY <1>1, <2>4, SameSent
  <2>6. Asks(t, NextAttempt(z)) BY <1>8, <2>1, <2>2 DEF AnswerLost
  <2>7. QED BY <2>4, <2>5, <2>6, NextSent, SentStep
<1>9. CASE AskFails(t) \/ KeyGone(t) \/ WriteRaises(t)
  BY <1>1, <1>9, NextSent, SentStep DEF AskFails, KeyGone, WriteRaises
<1>10. ASSUME NEW d, Asks(t, [ask[t] EXCEPT !.pc = "recording", !.seen = d]) PROVE AllSent'
  <2>1. PICK x : x = [ask[t] EXCEPT !.pc = "recording", !.seen = d] OBVIOUS
  <2>2. /\ x.flex = ask[t].flex /\ x.key = ask[t].key /\ x.tries = ask[t].tries
        /\ x.refusals = ask[t].refusals /\ x.resends = ask[t].resends
        /\ x.resent = ask[t].resent
    BY <1>1, <2>1 DEF AskRecords
  <2>3. QED BY <1>10, <2>1, <2>2, SentAlone
<1>11. CASE Read(t) \/ ReadNothing(t) BY <1>10, <1>11 DEF Read, ReadNothing
<1>12. CASE Write(t) BY <1>4, <1>12 DEF Write
<1>13. CASE FlexRefused(t) BY <1>13, SentFlexRefused
<1>14. CASE Resent(t) BY <1>14, SentResent
<1>15. QED BY <1>3, <1>6, <1>7, <1>8, <1>9, <1>11, <1>12, <1>13, <1>14 DEF Working, Failing

LEMMA SentNext == UseInv /\ AllSent /\ [Next]_vars => AllSent'
<1> SUFFICES ASSUME UseInv, AllSent, [Next]_vars PROVE AllSent' OBVIOUS
<1>1. CASE UNCHANGED ask BY <1>1 DEF AllSent, Sent, Before, Refusals
<1>2. CASE UNCHANGED vars BY <1>1, <1>2 DEF vars, usage
<1>3. ASSUME NEW t \in Threads, StartLookup(t) PROVE AllSent'
  BY <1>1, <1>3 DEF StartLookup, usage
<1>4. ASSUME NEW t \in Threads, NEW flex \in BOOLEAN, NEW keys \in {1, GeminiKeys},
             StartAsk(t, flex, keys)
      PROVE AllSent'
  <2>1. PICK x : x = [NoAsk EXCEPT !.pc = "checking", !.flex = flex, !.keys = keys] OBVIOUS
  <2>2. /\ x.key = 1 /\ x.tries = 0 /\ x.refusals = 0 /\ x.resends = 0 /\ x.resent = 0
    BY <2>1 DEF NoAsk
  <2>3. Before(x) = 0
    <3>1. (1 - 1) * Attempts = 0 OBVIOUS
    <3>2. QED BY <2>2, <3>1 DEF Before
  <2>4. Refusals(x) = 0 BY <2>2, <2>3 DEF Refusals
  <2>5. Resends * (0 + 0) = 0 OBVIOUS
  <2>6. Sent(x) BY <2>2, <2>3, <2>4, <2>5 DEF Sent
  <2>7. Asks(t, x) BY <1>4, <2>1 DEF StartAsk
  <2>8. QED BY <2>6, <2>7, SentStep
<1>5. ASSUME NEW t \in Threads, Working(t) \/ Failing(t) PROVE AllSent'
  BY <1>5, SentWorking
<1>6. ASSUME NEW k \in 0 .. Keys - 1, Drain(k) PROVE AllSent'
  BY <1>1, <1>6 DEF Drain, usage
<1>7. ASSUME NEW p \in Processes, Kill(p) PROVE AllSent'
  <2> SUFFICES ASSUME NEW t \in Threads PROVE Sent(ask'[t])
    BY DEF AllSent, Sent, Before, Refusals
  <2>1. ask'[t] = NoAsk \/ ask'[t] = ask[t] BY <1>7 DEF Kill
  <2>2. QED BY <2>1, NoAskSent DEF AllSent
<1>8. CASE Midnight
  <2> SUFFICES ASSUME NEW t \in Threads PROVE Sent(ask'[t])
    BY DEF AllSent, Sent, Before, Refusals
  <2>1. ask[t] \in AskRecords /\ Sent(ask[t]) BY Numbers DEF AllSent
  <2>2. PICK s : s = (ask[t].stale \/ t \in Pending) OBVIOUS
  <2>3. s \in BOOLEAN BY <2>2
  <2>4. PICK x : x = Overnight(ask[t], s) OBVIOUS
  <2>5. ask'[t] = x BY <1>8, <2>2, <2>4, Zenon DEF Midnight, Overnight
  <2>6. /\ x.flex = ask[t].flex /\ x.refusals = ask[t].refusals
        /\ x.resends = ask[t].resends /\ x.resent = ask[t].resent
    BY <2>1, <2>3, <2>4, OvernightKeepsTier
  <2>7. x.key = ask[t].key /\ x.tries = ask[t].tries BY <2>1, <2>3, <2>4, OvernightKeeps
  <2>8. QED BY <2>1, <2>5, <2>6, <2>7, SameSent
<1>9. QED BY <1>2, <1>3, <1>4, <1>5, <1>6, <1>7, <1>8 DEF Next

\* A call's own requests are charged for at most once an attempt, and what the SDK sends
\* again of them at most max_retries times for each request the loops made.
THEOREM ChargesAreBounded == Spec => []ChargesBounded
<1>1. Init => AllSent
  <2>1. ASSUME Init, NEW t \in Threads PROVE Sent(ask[t]) BY <2>1, NoAskSent DEF Init
  <2>2. QED BY <2>1 DEF AllSent
<1>2. UseInv /\ AllSent => ChargesBounded
  <2> SUFFICES ASSUME UseInv, AllSent, NEW t \in Threads
               PROVE /\ ask[t].bills <= Before(ask[t])
                            + (IF ask[t].pc \in {"answered", "recording"} THEN 1 ELSE 0)
                     /\ ask[t].resent <= Resends * (Before(ask[t]) + Refusals(ask[t]) + 1)
    BY DEF ChargesBounded, Before, Refusals
  <2>1. ask[t] \in AskRecords /\ Accounted(ask[t]) /\ Sent(ask[t]) BY Numbers DEF AllSent
  <2>2. ask[t].bills <= Before(ask[t])
            + (IF ask[t].pc \in {"answered", "recording"} THEN 1 ELSE 0)
    BY <2>1 DEF Accounted, One, Before
  <2>3. PICK i \in Nat : i = Before(ask[t]) + Refusals(ask[t]) BY <2>1, SentNumbers
  <2>4. Resends * i + Resends <= Resends * (i + 1) BY Grows
  <2>5. ask[t].resent <= Resends * i + ask[t].resends BY <2>1, <2>3 DEF Sent
  <2>6. /\ ask[t].resends \in 0 .. Resends /\ ask[t].resent \in Nat
        /\ Resends * i \in Nat /\ Resends * (i + 1) \in Nat
    BY <2>1, SentNumbers
  <2>7. ask[t].resent <= Resends * (i + 1) BY <2>4, <2>5, <2>6
  <2>8. QED BY <2>2, <2>3, <2>7
<1>3. UseInv /\ AllSent /\ [Next]_vars => AllSent' BY SentNext
<1>4. QED BY <1>1, <1>2, <1>3, UseAlways, PTL DEF Spec
=============================================================================
