--------------------------- MODULE OpenCodeProofs ---------------------------
(* Proofs about module OpenCode, for any page size, any number of messages,   *)
(* lost streams and failed wakes.                                             *)
EXTENDS OpenCode, InboxProofs, SequenceTheorems

----------------------------------------------------------------------------
(* A page has an order, and InOrder gives it.                                 *)

Increasing(s) == \A k, l \in DOMAIN s : k < l => s[k] < s[l]

HasOrder(S) == \E s \in [1..Cardinality(S) -> S] : Increasing(s)

Less == {ss \in Nat \X Nat : ss[1] < ss[2]}

LEMMA LeastNat ==
    ASSUME NEW B \in SUBSET Nat, B # {}
    PROVE  \E n \in B : \A m \in B : n <= m
<1>1. Less = OpToRel(<, Nat)
    BY DEF Less, OpToRel
<1>2. IsWellFoundedOn(Less, Nat)
    BY <1>1, NatLessThanWellFounded
<1>3. \E n \in B : \A m \in B : ~(<<m, n>> \in Less)
    BY <1>2, WFMin
<1>4. \A m, n \in Nat : m < n => <<m, n>> \in Less
    BY DEF Less
<1>5. \A m, n \in Nat : ~(m < n) => n <= m
    OBVIOUS
<1> QED
    BY <1>3, <1>4, <1>5

LEMMA OrderGrows ==
    ASSUME NEW n \in Nat, NEW S \in SUBSET (1..(n + 1)), n + 1 \in S,
           HasOrder(S \ {n + 1})
    PROVE  HasOrder(S)
<1>1. IsFiniteSet(S)
    <2>1. IsFiniteSet(1..(n + 1))
        BY FS_Interval
    <2> QED
        BY <2>1, FS_Subset
<1>2. /\ Cardinality(S) \in Nat
      /\ Cardinality(S \ {n + 1}) = Cardinality(S) - 1
      /\ Cardinality(S \ {n + 1}) \in Nat
    BY <1>1, FS_RemoveElement, FS_CardinalityType
<1> DEFINE c == Cardinality(S)
<1> DEFINE rest == S \ {n + 1}
<1>3. PICK s \in [1..(c - 1) -> rest] : Increasing(s)
    BY <1>2 DEF HasOrder
<1> DEFINE t == [k \in 1..c |-> IF k = c THEN n + 1 ELSE s[k]]
<1>4. c \in Nat /\ c - 1 \in Nat
    BY <1>2
<1>5. \A k \in 1..c : k # c => k \in 1..(c - 1) /\ s[k] \in S /\ s[k] < n + 1
    <2> HIDE DEF c
    <2> SUFFICES ASSUME NEW k \in 1..c, k # c
                 PROVE  k \in 1..(c - 1) /\ s[k] \in S /\ s[k] < n + 1
        OBVIOUS
    <2>1. k \in 1..(c - 1)
        BY <1>4
    <2>2. s[k] \in S /\ s[k] # n + 1
        BY <2>1
    <2>3. s[k] \in 1..(n + 1)
        BY <2>2
    <2> QED
        BY <2>1, <2>2, <2>3
<1>6. t \in [1..c -> S]
    <2> HIDE DEF c
    <2> QED BY <1>5
<1>7. Increasing(t)
    <2> HIDE DEF c
    <2> SUFFICES ASSUME NEW k \in 1..c, NEW l \in 1..c, k < l PROVE t[k] < t[l]
        BY DEF Increasing
    <2>1. k # c /\ t[k] = s[k]
        BY <1>4
    <2>2. CASE l = c
        BY <1>5, <2>1, <2>2
    <2>3. CASE l # c
        <3>1. t[l] = s[l] /\ k \in DOMAIN s /\ l \in DOMAIN s
            BY <1>5, <2>1, <2>3
        <3> QED
            BY <1>3, <2>1, <3>1 DEF Increasing
    <2> QED
        BY <2>2, <2>3
<1> QED
    BY <1>6, <1>7 DEF HasOrder

LEMMA EveryPageHasOrder ==
    ASSUME NEW n \in Nat
    PROVE  \A S \in SUBSET (1..n) : HasOrder(S)
<1> DEFINE Bad == {b \in Nat : \E S \in SUBSET (1..b) : ~HasOrder(S)}
<1> SUFFICES ASSUME Bad # {} PROVE FALSE
    OBVIOUS
<1>0. Bad \in SUBSET Nat
    OBVIOUS
<1>1. PICK b \in Bad : \A m \in Bad : b <= m
    BY <1>0, LeastNat
<1>2. PICK S \in SUBSET (1..b) : ~HasOrder(S)
    BY <1>1
<1>3. CASE b = 0
    <2>0. S = {}
        BY <1>2, <1>3
    <2>1. S = {} /\ Cardinality(S) = 0
        BY <2>0, FS_EmptySet
    <2>2. <<>> \in [1..Cardinality(S) -> S] /\ Increasing(<<>>)
        BY <2>1 DEF Increasing
    <2> QED
        BY <1>2, <2>2 DEF HasOrder
<1>4. CASE b # 0
    <2>0. b \in Nat
        BY <1>0, <1>1
    <2>1. b - 1 \in Nat /\ b - 1 \notin Bad
        <3>1. b - 1 \in Nat /\ ~(b <= b - 1)
            BY <1>4, <2>0
        <3> QED
            BY <1>1, <3>1
    <2>2. \A T \in SUBSET (1..(b - 1)) : HasOrder(T)
        BY <2>1
    <2>3. HasOrder(S \ {b})
        BY <1>2, <2>1, <2>2
    <2>4. b \in S
        BY <1>2, <2>1, <2>2
    <2>5. (b - 1) + 1 = b
        BY <2>1
    <2> HIDE DEF Bad
    <2> QED
        BY <1>2, <2>1, <2>3, <2>4, <2>5, OrderGrows
<1> QED
    BY <1>3, <1>4

\* What a drain puts into its queue for a page.
LEMMA InOrderIsPage ==
    ASSUME NEW n \in Nat, NEW S \in SUBSET (1..n)
    PROVE  /\ InOrder(S) \in Seq(S)
           /\ Elements(InOrder(S)) = S
           /\ Increasing(InOrder(S))
<1> DEFINE s == InOrder(S)
<1>1. IsFiniteSet(S)
    <2>1. IsFiniteSet(1..n)
        BY FS_Interval
    <2> QED
        BY <2>1, FS_Subset
<1>2. Cardinality(S) \in Nat
    BY <1>1, FS_CardinalityType
<1>3. s \in [1..Cardinality(S) -> S] /\ Increasing(s)
    <2>1. \E r \in [1..Cardinality(S) -> S] : \A k, l \in DOMAIN r : k < l => r[k] < r[l]
        BY EveryPageHasOrder DEF HasOrder, Increasing
    <2> QED
        BY <2>1 DEF InOrder, Increasing
<1>4. s \in Seq(S)
    BY <1>2, <1>3
<1>5. s \in Injection(1..Cardinality(S), S)
    <2> HIDE DEF s
    <2>1. ASSUME NEW k \in 1..Cardinality(S), NEW l \in 1..Cardinality(S), s[k] = s[l]
          PROVE  k = l
        <3>1. s[k] \in S /\ s[l] \in S /\ k \in DOMAIN s /\ l \in DOMAIN s
            BY <1>3
        <3>a. k \in Int /\ l \in Int
            BY <1>2
        <3>b. s[k] \in Int /\ s[l] \in Int
            <4>1. s[k] \in 1..n /\ s[l] \in 1..n
                BY <3>1
            <4> QED
                BY <4>1
        <3>2. k \in Int /\ l \in Int /\ s[k] \in Int /\ s[l] \in Int
            BY <3>a, <3>b
        <3>3. ~(k < l) /\ ~(l < k)
            BY <1>3, <2>1, <3>1, <3>2 DEF Increasing
        <3> QED
            BY <3>2, <3>3
    <2> QED
        BY <1>3, <2>1 DEF Injection, IsInjective
<1>6. Cardinality(1..Cardinality(S)) = Cardinality(S)
    BY <1>2, FS_Interval
<1>7. s \in Surjection(1..Cardinality(S), S)
    <2> HIDE DEF s
    <2> QED
        BY <1>1, <1>5, <1>6, FS_Injection
<1>8. Elements(s) = S
    <2> HIDE DEF s
    <2> QED
        BY <1>3, <1>7 DEF Elements, Surjection
<1> QED
    BY <1>3, <1>4, <1>8

----------------------------------------------------------------------------
(* The plugin takes the inbox only through the steps of module Inbox, so all  *)
(* that is proved of Inbox holds here.                                        *)

LEMMA RequestFacts == NoRequest \notin Fetchers /\ PageSize \in Limits
BY OpenCodeAssumption DEF OpenCodeAssumption

\* Whose request is whose.
Requests ==
    /\ mine \in Fetchers \cup {NoRequest}
    /\ mine # NoRequest => drain = "fetch" /\ pc[mine] # "idle" /\ mine \notin abandoned
    /\ abandoned \subseteq Fetchers
    /\ \A f \in abandoned : pc[f] # "idle"

LEMMA OpenStepIsInboxStep == Requests /\ [OpenNext]_openVars => [Next]_vars
<1> SUFFICES ASSUME Requests, [OpenNext]_openVars PROVE [Next]_vars
    OBVIOUS
<1>0. /\ PageSize \in Limits
      /\ mine # NoRequest => mine \in Fetchers
      /\ abandoned \subseteq Fetchers
    BY RequestFacts DEF Requests
<1>1. ASSUME NEW trimTo \in 0..lastId, NEW published \in BOOLEAN, Chat(trimTo, published)
      PROVE  Next
    BY <1>1 DEF Chat, Next
<1>2. ASSUME Retention PROVE Next
    BY <1>2 DEF Retention, Next
<1>3. ASSUME Relay \/ Hook \/ Dispose PROVE UNCHANGED vars
    BY <1>3 DEF Relay, Connect, StreamDrops, NudgeHeld, Nudge, Hook, Dispose
<1>4. ASSUME (\E f \in Fetchers : DrainRequests(f)) \/ DrainFetch PROVE Next
    BY <1>0, <1>4 DEF DrainRequests, DrainFetch, Next, Fetch
<1>5. ASSUME (\E messages : DrainAnswered(messages)) \/ DrainFetchFails \/ DrainAnswerTorn
      PROVE  [Next]_vars
    BY <1>0, <1>5 DEF DrainAnswered, Answered, DrainFetchFails, DrainAnswerTorn, Next, Fetch
<1>6. ASSUME SkipSeen \/ WakeStart \/ WakeDone \/ DrainLoops \/ DrainEnds
             \/ \E started \in BOOLEAN : WakeFails(started)
      PROVE  UNCHANGED vars
    BY <1>6 DEF SkipSeen, WakeStart, WakeDone, WakeFails, DrainLoops, DrainEnds
<1>7. ASSUME NEW f \in Fetchers, ToolFetch(f) \/ ToolShows(f) \/ AbandonedFetch(f) PROVE Next
    BY <1>0, <1>7 DEF ToolFetch, ToolShows, AbandonedFetch, Next, Fetch
<1>8. ASSUME UNCHANGED openVars PROVE UNCHANGED vars
    BY <1>8 DEF openVars
<1> QED
    BY <1>1, <1>2, <1>3, <1>4, <1>5, <1>6, <1>7, <1>8 DEF OpenNext, Server, DrainInbox

\* A fetch leaves every other one alone.
LEMMA OneFetchMoves ==
    ASSUME TypeOK, NEW f \in Fetchers, Fetch(f), NEW g \in Fetchers, g # f
    PROVE  pc'[g] = pc[g] /\ start'[g] = start[g] /\ page'[g] = page[g]
BY DEF TypeOK, Fetch, FetchGet, FetchRange, FetchNothing, FetchAdvance, FetchFilter,
       FetchReply, FetchDies

\* What is over stays over.
MailGrows ==
    /\ lastId \in Nat /\ lastId' \in Nat /\ lastId <= lastId'
    /\ expired \subseteq expired'
    /\ lost \subseteq lost' /\ repeated \subseteq repeated'

LEMMA MailGrowsStep ==
    ASSUME TypeOK, TypeOK', [Next]_vars
    PROVE  MailGrows
<1>0. lastId \in Nat /\ lastId' \in Nat
    BY InboxAssumption DEF InboxAssumption, TypeOK
<1>1. ASSUME NEW trimTo \in 0..lastId, AppendMessage(trimTo) PROVE MailGrows
    BY <1>0, <1>1 DEF AppendMessage, history, MailGrows
<1>2. ASSUME NEW i \in 1..lastId, Expire(i) PROVE MailGrows
    BY <1>0, <1>2 DEF Expire, history, MailGrows
<1>3. ASSUME ReaperDelete PROVE MailGrows
    BY <1>0, <1>3 DEF ReaperDelete, history, MailGrows
<1>4. ASSUME NEW f \in Fetchers, Fetch(f) PROVE MailGrows
    <2>1. /\ UNCHANGED <<lastId, expired>>
          /\ lost \subseteq lost' /\ repeated \subseteq repeated'
        BY <1>4 DEF Fetch, FetchGet, FetchRange, FetchNothing, FetchAdvance, FetchFilter,
                    FetchReply, FetchDies, storeVars, history
    <2> QED
        BY <1>0, <2>1 DEF MailGrows
<1>5. ASSUME UNCHANGED vars PROVE MailGrows
    BY <1>0, <1>5 DEF vars, MailGrows
<1> QED
    BY <1>1, <1>2, <1>3, <1>4, <1>5 DEF Next

----------------------------------------------------------------------------
(* Type correctness: flags, where the drain and the reader are, whose each    *)
(* request is, and the ids.                                                   *)

Flags ==
    /\ sessionID \in BOOLEAN /\ disposed \in BOOLEAN
    /\ again \in BOOLEAN /\ full \in BOOLEAN
    /\ connected \in BOOLEAN
    /\ lateFail \in BOOLEAN /\ broken \in BOOLEAN /\ short \in BOOLEAN

Phases ==
    /\ drain \in {"off", "fetch", "empty", "next", "wake"}
    /\ relay \in {"reading", "draining"}
    /\ relay = "draining" => drain # "off"
    /\ drain # "off" => sessionID
    /\ drain \in {"off", "fetch", "empty"} => queue = <<>>
    /\ drain = "wake" => queue # <<>>
    /\ drain \in {"next", "wake"} => pendingWakes = <<>>

IdsKnown ==
    /\ queue \in Seq(1..lastId) /\ pendingWakes \in Seq(1..lastId)
    /\ seen \subseteq 1..lastId /\ drained \subseteq 1..lastId
    /\ woken \subseteq 1..lastId /\ toolShown \subseteq 1..lastId
    /\ twice \subseteq 1..lastId /\ due \subseteq 1..lastId
    /\ spilled \subseteq 1..lastId
    /\ nudges \in 0..(lastId + 1)
    /\ faults \in 0..MaxFaults

Shape == Flags /\ Phases /\ Requests /\ IdsKnown

LEMMA FlagsStep ==
    ASSUME Flags, [OpenNext]_openVars
    PROVE  Flags'
<1> USE DEF Flags, pluginVars, drainVars, streamVars, wakeHistory
<1>1. ASSUME Server PROVE Flags'
    BY <1>1 DEF Server, Chat, Retention
<1>2. ASSUME Relay PROVE Flags'
    BY <1>2 DEF Relay, Connect, StreamDrops, NudgeHeld, Nudge, StartDrain, SkipDrain
<1>3. ASSUME Hook \/ Dispose PROVE Flags'
    BY <1>3 DEF Hook, Dispose, StartDrain
<1>4. ASSUME \/ \E f \in Fetchers : DrainRequests(f)
             \/ DrainFetch \/ DrainFetchFails \/ DrainAnswerTorn
      PROVE  Flags'
    BY <1>4 DEF DrainRequests, DrainFetch, DrainFetchFails, DrainAnswerTorn, Breaks, Finish
<1>5. ASSUME NEW messages, DrainAnswered(messages) PROVE Flags'
    BY <1>5 DEF DrainAnswered
<1>6. ASSUME SkipSeen \/ WakeStart \/ WakeDone \/ DrainLoops \/ DrainEnds
      PROVE  Flags'
    BY <1>6 DEF SkipSeen, WakeStart, WakeDone, DrainLoops, DrainEnds, Finish
<1>7. ASSUME NEW started \in BOOLEAN, WakeFails(started) PROVE Flags'
    BY <1>7 DEF WakeFails, Finish
<1>8. ASSUME NEW f \in Fetchers, ToolFetch(f) \/ ToolShows(f) \/ AbandonedFetch(f)
      PROVE  Flags'
    BY <1>8 DEF ToolFetch, ToolShows, AbandonedFetch
<1>9. ASSUME UNCHANGED openVars PROVE Flags'
    BY <1>9 DEF openVars
<1> QED
    BY <1>1, <1>2, <1>3, <1>4, <1>5, <1>6, <1>7, <1>8, <1>9 DEF OpenNext, DrainInbox

LEMMA PhasesStep ==
    ASSUME Phases, Requests, IdsKnown, [OpenNext]_openVars
    PROVE  Phases'
<1> USE DEF Phases, pluginVars, drainVars
<1>1. ASSUME Server PROVE Phases'
    BY <1>1 DEF Server, Chat, Retention
<1>2. ASSUME Relay PROVE Phases'
    BY <1>2 DEF Relay, Connect, StreamDrops, NudgeHeld, Nudge, StartDrain, SkipDrain, relaying
<1>3. ASSUME Hook \/ Dispose PROVE Phases'
    BY <1>3 DEF Hook, Dispose, StartDrain, relaying
<1>4. ASSUME (\E f \in Fetchers : DrainRequests(f)) \/ DrainFetch PROVE Phases'
    BY <1>4 DEF DrainRequests, DrainFetch, Requests
<1>5. ASSUME NEW messages, DrainAnswered(messages) PROVE Phases'
    BY <1>5 DEF DrainAnswered, Answered, Requests
<1>6. ASSUME DrainFetchFails \/ DrainAnswerTorn PROVE Phases'
    BY <1>6 DEF DrainFetchFails, DrainAnswerTorn, Breaks, Finish
<1>7. ASSUME SkipSeen \/ WakeStart \/ WakeDone \/ DrainLoops \/ DrainEnds
      PROVE  Phases'
    BY <1>7 DEF SkipSeen, WakeStart, WakeDone, DrainLoops, DrainEnds, Finish
<1>8. ASSUME NEW started \in BOOLEAN, WakeFails(started) PROVE Phases'
    BY <1>8 DEF WakeFails, Finish
<1>9. ASSUME NEW f \in Fetchers, ToolFetch(f) \/ ToolShows(f) \/ AbandonedFetch(f)
      PROVE  Phases'
    BY <1>9 DEF ToolFetch, ToolShows, AbandonedFetch
<1>10. ASSUME UNCHANGED openVars PROVE Phases'
    BY <1>10 DEF openVars
<1> QED
    BY <1>1, <1>2, <1>3, <1>4, <1>5, <1>6, <1>7, <1>8, <1>9, <1>10
    DEF OpenNext, DrainInbox

\* The requests of others stay with others, and one that is over is nobody's.
LEMMA RequestsStep ==
    ASSUME TypeOK, Phases, Requests, [OpenNext]_openVars
    PROVE  Requests'
<1> USE DEF Requests, requestVars
<1>0. pc \in [Fetchers -> PcStates] /\ NoRequest \notin Fetchers
    BY RequestFacts DEF TypeOK
<1>q. ASSUME UNCHANGED <<requestVars, pc>>, drain' = drain PROVE Requests'
    BY <1>q
<1>s. ASSUME UNCHANGED <<requestVars, pc>>, drain # "fetch" PROVE Requests'
    BY <1>s
<1>1. ASSUME Server PROVE Requests'
    BY <1>1, <1>q DEF Server, Chat, AppendMessage, Retention, ReaperDelete, Expire, fetchVars,
                      pluginVars, drainVars
<1>2. ASSUME Connect \/ StreamDrops \/ NudgeHeld \/ Dispose PROVE Requests'
    BY <1>2, <1>q DEF Connect, StreamDrops, NudgeHeld, Dispose, pluginVars, drainVars, vars
<1>3. ASSUME Hook \/ Nudge PROVE Requests'
    BY <1>3, <1>q, <1>s DEF Hook, Nudge, StartDrain, SkipDrain, relaying, vars
<1>4. ASSUME NEW f \in Fetchers, DrainRequests(f) PROVE Requests'
    <2>1. pc[f] = "idle" /\ pc' = [pc EXCEPT ![f] = "range"]
        BY <1>4 DEF DrainRequests, FetchGet
    <2>2. /\ drain = "fetch" /\ mine' = f
          /\ UNCHANGED <<abandoned, drain>>
        BY <1>4 DEF DrainRequests, pluginVars, drainVars
    <2> QED
        BY <1>0, <2>1, <2>2
<1>5. ASSUME DrainFetch PROVE Requests'
    <2>1. mine \in Fetchers /\ UNCHANGED abandoned
        BY <1>5 DEF DrainFetch
    <2>2. CASE FetchNothing(mine, PageSize) /\ mine' = NoRequest
        <3>1. pc' = [pc EXCEPT ![mine] = "idle"]
            BY <2>2 DEF FetchNothing
        <3> QED
            BY <1>0, <2>1, <2>2, <3>1
    <2>3. CASE UNCHANGED <<mine, drain>> /\ pc'[mine] # "idle"
                   /\ \A g \in Fetchers : g # mine => pc'[g] = pc[g]
        BY <2>1, <2>3
    <2> QED
        BY <1>0, <1>5, <2>1, <2>2, <2>3 DEF DrainFetch, FetchRange, FetchAdvance, FetchFilter
<1>6. ASSUME NEW messages, DrainAnswered(messages) PROVE Requests'
    <2>1. mine' = NoRequest /\ UNCHANGED abandoned
        BY <1>6 DEF DrainAnswered
    <2>2. CASE mine # NoRequest /\ FetchReply(mine)
        <3>1. pc' = [pc EXCEPT ![mine] = "idle"]
            BY <2>2 DEF FetchReply
        <3> QED
            BY <1>0, <2>1, <2>2, <3>1
    <2>3. CASE UNCHANGED vars
        BY <2>1, <2>3 DEF vars
    <2> QED
        BY <1>6, <2>2, <2>3 DEF DrainAnswered, Answered
<1>7. ASSUME DrainFetchFails PROVE Requests'
    BY <1>7 DEF DrainFetchFails, Breaks, vars
<1>8. ASSUME DrainAnswerTorn PROVE Requests'
    <2>1. mine' = NoRequest /\ UNCHANGED abandoned
        BY <1>8 DEF DrainAnswerTorn, Breaks
    <2>2. CASE mine # NoRequest /\ FetchDies(mine)
        <3>1. pc' = [pc EXCEPT ![mine] = "idle"]
            BY <2>2 DEF FetchDies
        <3> QED
            BY <1>0, <2>1, <2>2, <3>1
    <2>3. CASE UNCHANGED vars
        BY <2>1, <2>3 DEF vars
    <2> QED
        BY <1>8, <2>2, <2>3 DEF DrainAnswerTorn
<1>9. ASSUME SkipSeen \/ WakeStart \/ WakeDone \/ DrainLoops \/ DrainEnds
             \/ \E started \in BOOLEAN : WakeFails(started)
      PROVE  Requests'
    BY <1>9, <1>s DEF SkipSeen, WakeStart, WakeDone, DrainLoops, DrainEnds, WakeFails, vars
<1>10. ASSUME NEW f \in Fetchers, ToolFetch(f) \/ ToolShows(f) PROVE Requests'
    <2>1. Fetch(f) /\ f # mine /\ f \notin abandoned
        BY <1>10 DEF ToolFetch, ToolShows, Fetch
    <2>2. \A g \in Fetchers : g # f => pc'[g] = pc[g]
        BY <2>1, OneFetchMoves
    <2>3. UNCHANGED <<requestVars, drain>>
        BY <1>10 DEF ToolFetch, ToolShows, pluginVars, drainVars
    <2> QED
        BY <2>1, <2>2, <2>3
<1>11. ASSUME NEW f \in Fetchers, AbandonedFetch(f) PROVE Requests'
    <2>1. Fetch(f) /\ f \in abandoned
        BY <1>11, RequestFacts DEF AbandonedFetch, Fetch
    <2>2. \A g \in Fetchers : g # f => pc'[g] = pc[g]
        BY <2>1, OneFetchMoves
    <2>3. /\ UNCHANGED <<mine, drain>>
          /\ abandoned' = {g \in abandoned : pc'[g] # "idle"}
        BY <1>11 DEF AbandonedFetch, pluginVars, drainVars
    <2> QED
        BY <2>1, <2>2, <2>3
<1>12. ASSUME UNCHANGED openVars PROVE Requests'
    BY <1>12, <1>q DEF openVars, vars, pluginVars, drainVars
<1> QED
    BY <1>1, <1>2, <1>3, <1>4, <1>5, <1>6, <1>7, <1>8, <1>9, <1>10, <1>11, <1>12
    DEF OpenNext, Relay, DrainInbox

\* The queue a drain starts with, and what is left of it after its head.
LEMMA QueueOfPage ==
    ASSUME NEW n \in Nat, NEW p \in Seq(1..n), NEW S \in SUBSET (1..n)
    PROVE  LET q == p \o InOrder(S) IN
           /\ q \in Seq(1..n)
           /\ Elements(q) = Elements(p) \cup S
           /\ \A k \in 1..Len(p) : k \in DOMAIN q /\ q[k] = p[k]
           /\ \A l \in DOMAIN q : l \notin 1..Len(p) => q[l] \in S
           /\ \A k, l \in DOMAIN q : k < l /\ k \notin 1..Len(p) => q[k] < q[l]
<1> DEFINE o == InOrder(S)
<1> DEFINE q == p \o o
<1>1. o \in Seq(S) /\ Elements(o) = S /\ Increasing(o)
    BY InOrderIsPage
<1>2. o \in Seq(1..n)
    BY <1>1, SeqMonotonic
<1> HIDE DEF o
<1>3. /\ q \in Seq(1..n)
      /\ Len(q) = Len(p) + Len(o)
      /\ \A i \in 1..(Len(p) + Len(o)) : q[i] = IF i <= Len(p) THEN p[i] ELSE o[i - Len(p)]
    BY <1>2, ConcatProperties
<1>4. /\ Len(p) \in Nat /\ DOMAIN p = 1..Len(p)
      /\ Len(o) \in Nat /\ DOMAIN o = 1..Len(o)
      /\ DOMAIN q = 1..(Len(p) + Len(o))
    BY <1>2, <1>3, LenProperties
<1> HIDE DEF q
<1>5. \A k \in 1..Len(p) : k \in DOMAIN q /\ q[k] = p[k]
    BY <1>3, <1>4
<1>6. \A l \in DOMAIN q : l \notin 1..Len(p) =>
          l - Len(p) \in DOMAIN o /\ q[l] = o[l - Len(p)]
    BY <1>3, <1>4
<1>7. \A l \in DOMAIN q : l \notin 1..Len(p) => q[l] \in S
    BY <1>1, <1>6 DEF Elements
<1>8. \A k, l \in DOMAIN q : k < l /\ k \notin 1..Len(p) => q[k] < q[l]
    <2> SUFFICES ASSUME NEW k \in DOMAIN q, NEW l \in DOMAIN q, k < l, k \notin 1..Len(p)
                 PROVE  q[k] < q[l]
        OBVIOUS
    <2>1. l \notin 1..Len(p) /\ k - Len(p) < l - Len(p)
        BY <1>4
    <2> QED
        BY <1>1, <1>6, <2>1 DEF Increasing
<1>9. Elements(q) = Elements(p) \cup S
    <2>1. ASSUME NEW i \in S PROVE i \in Elements(q)
        <3>1. PICK k \in 1..Len(o) : o[k] = i
            BY <1>1, <1>4 DEF Elements
        <3>2. Len(p) + k \in DOMAIN q /\ q[Len(p) + k] = i
            BY <1>3, <1>4, <3>1
        <3> QED
            BY <3>2 DEF Elements
    <2>2. Elements(p) \subseteq Elements(q)
        BY <1>4, <1>5 DEF Elements
    <2>3. Elements(q) \subseteq Elements(p) \cup S
        BY <1>4, <1>5, <1>7 DEF Elements
    <2> QED
        BY <2>1, <2>2, <2>3
<1> QED
    BY <1>3, <1>5, <1>7, <1>8, <1>9 DEF q, o

LEMMA QueueTail ==
    ASSUME NEW S, NEW q \in Seq(S), q # <<>>
    PROVE  /\ Tail(q) \in Seq(S)
           /\ 1 \in DOMAIN q /\ Head(q) = q[1]
           /\ Elements(q) = {Head(q)} \cup Elements(Tail(q))
           /\ DOMAIN q \subseteq Nat /\ DOMAIN Tail(q) \subseteq Nat
           /\ \A k \in DOMAIN Tail(q) : k + 1 \in DOMAIN q /\ Tail(q)[k] = q[k + 1]
           /\ \A k \in DOMAIN q : k # 1 => k - 1 \in DOMAIN Tail(q) /\ Tail(q)[k - 1] = q[k]
<1>1. /\ Tail(q) \in Seq(S) /\ Len(Tail(q)) = Len(q) - 1
      /\ \A i \in 1..Len(Tail(q)) : Tail(q)[i] = q[i + 1]
    BY HeadTailProperties
<1>2. /\ Len(q) \in Nat /\ Len(q) # 0 /\ DOMAIN q = 1..Len(q)
      /\ DOMAIN Tail(q) = 1..(Len(q) - 1)
    BY <1>1, EmptySeq, LenProperties
<1>3. Head(q) = q[1]
    OBVIOUS
<1> DEFINE t == Tail(q)
<1> HIDE DEF t
<1>4. 1 \in DOMAIN q /\ DOMAIN q \subseteq Nat /\ DOMAIN Tail(q) \subseteq Nat
    BY <1>2
<1>5. \A k \in DOMAIN Tail(q) : k + 1 \in DOMAIN q /\ Tail(q)[k] = q[k + 1]
    BY <1>1, <1>2
<1>6. \A k \in DOMAIN q : k # 1 => k - 1 \in DOMAIN Tail(q) /\ Tail(q)[k - 1] = q[k]
    <2> SUFFICES ASSUME NEW k \in DOMAIN q, k # 1
                 PROVE  k - 1 \in DOMAIN Tail(q) /\ Tail(q)[k - 1] = q[k]
        OBVIOUS
    <2>1. k - 1 \in DOMAIN Tail(q) /\ (k - 1) + 1 = k
        BY <1>2
    <2> QED
        BY <1>5, <2>1
<1>7. Elements(q) = {Head(q)} \cup Elements(Tail(q))
    <2>1. ASSUME NEW k \in DOMAIN q PROVE q[k] \in {Head(q)} \cup Elements(Tail(q))
        BY <1>3, <1>6, <2>1 DEF Elements
    <2>2. ASSUME NEW k \in DOMAIN Tail(q) PROVE Tail(q)[k] \in Elements(q)
        BY <1>5, <2>2 DEF Elements
    <2>3. Head(q) \in Elements(q)
        BY <1>3, <1>4 DEF Elements
    <2> QED
        BY <2>1, <2>2, <2>3 DEF Elements
<1> QED
    BY <1>1, <1>3, <1>4, <1>5, <1>6, <1>7

LEMMA NothingQueued == \A S : <<>> \in Seq(S) /\ Elements(<<>>) = {}
BY EmptySeq DEF Elements

LEMMA ElementsKnown ==
    ASSUME NEW S, NEW q \in Seq(S)
    PROVE  Elements(q) \subseteq S
BY LenProperties, ElementOfSeq DEF Elements

LEMMA IdsStep ==
    ASSUME TypeOK, TypeOK', Phases, Requests, IdsKnown, [OpenNext]_openVars
    PROVE  IdsKnown'
<1> USE DEF IdsKnown, pluginVars, drainVars, streamVars, wakeHistory
<1>0. MailGrows
    BY OpenStepIsInboxStep, MailGrowsStep
<1>a. /\ 1..lastId \subseteq 1..lastId'
      /\ 0..(lastId + 1) \subseteq 0..(lastId' + 1)
      /\ 0 \in 0..(lastId' + 1) /\ 1 \in 0..(lastId' + 1)
      /\ lastId \in Nat /\ MaxFaults \in Nat
    <2>1. lastId \in Nat /\ lastId' \in Nat /\ lastId <= lastId'
        BY <1>0 DEF MailGrows
    <2>2. MaxFaults \in Nat
        BY OpenCodeAssumption DEF OpenCodeAssumption
    <2>3. \A m, n \in Nat : m <= n => /\ 1..m \subseteq 1..n
                                      /\ 0..(m + 1) \subseteq 0..(n + 1)
                                      /\ 0 \in 0..(n + 1) /\ 1 \in 0..(n + 1)
        OBVIOUS
    <2> QED
        BY <2>1, <2>2, <2>3
<1>b. queue \in Seq(1..lastId') /\ pendingWakes \in Seq(1..lastId')
    BY <1>a, SeqMonotonic
<1>c. <<>> \in Seq(1..lastId')
    BY NothingQueued
<1>d. Unread \subseteq 1..lastId
    BY DEF TypeOK, Unread, Waiting, Live
<1>e. \A f \in Fetchers : page[f] \in SUBSET (1..lastId)
    BY DEF TypeOK
<1> DEFINE Still ==
        /\ UNCHANGED <<queue, pendingWakes, seen, drained, woken, toolShown, twice, due, spilled>>
        /\ UNCHANGED <<nudges, faults>>
<1>f. ASSUME Still PROVE IdsKnown'
    BY <1>a, <1>b, <1>f
<1>1. ASSUME NEW trimTo \in 0..lastId, NEW published \in BOOLEAN, Chat(trimTo, published)
      PROVE  IdsKnown'
    <2>1. lastId' = lastId + 1 /\ nudges' \in {nudges, nudges + 1}
        BY <1>1 DEF Chat, AppendMessage
    <2>2. nudges' \in 0..(lastId' + 1)
        BY <1>a, <2>1
    <2> QED
        BY <1>1, <1>a, <1>b, <2>2 DEF Chat
<1>2. ASSUME Retention \/ Dispose PROVE IdsKnown'
    BY <1>2, <1>f DEF Retention, Dispose
<1>3. ASSUME Connect PROVE IdsKnown'
    <2>1. nudges' \in 0..(lastId' + 1)
        BY <1>a, <1>3 DEF Connect
    <2> QED
        BY <1>3, <1>a, <1>b, <2>1 DEF Connect
<1>4. ASSUME StreamDrops PROVE IdsKnown'
    <2>1. nudges' \in 0..(lastId' + 1) /\ faults' \in 0..MaxFaults
        BY <1>4, <1>a DEF StreamDrops
    <2> QED
        BY <1>4, <1>a, <1>b, <2>1 DEF StreamDrops
<1>5. ASSUME Hook \/ NudgeHeld \/ Nudge PROVE IdsKnown'
    <2>1. nudges' \in 0..(lastId' + 1)
        BY <1>0, <1>5, <1>a DEF Hook, NudgeHeld, Nudge, MailGrows
    <2>2. due' \subseteq 1..lastId'
        BY <1>5, <1>a, <1>d DEF Hook, NudgeHeld, Nudge, StartDrain, SkipDrain
    <2> QED
        BY <1>5, <1>a, <1>b, <2>1, <2>2 DEF Hook, NudgeHeld, Nudge
<1>6. ASSUME \/ \E f \in Fetchers : DrainRequests(f) \/ ToolFetch(f) \/ AbandonedFetch(f)
             \/ DrainFetch \/ DrainFetchFails \/ WakeStart \/ DrainLoops \/ DrainEnds
      PROVE  IdsKnown'
    BY <1>6, <1>f DEF DrainRequests, DrainFetch, DrainFetchFails, Breaks, WakeStart, DrainLoops,
                      DrainEnds, ToolFetch, AbandonedFetch
<1>7. ASSUME NEW messages \in {{}} \cup {page[f] : f \in Fetchers}, DrainAnswered(messages)
      PROVE  IdsKnown'
    <2>0. messages \in SUBSET (1..lastId)
        BY <1>e
    <2>1. queue' \in Seq(1..lastId)
        BY <1>7, <1>a, <2>0, QueueOfPage DEF DrainAnswered
    <2>2. queue' \in Seq(1..lastId')
        BY <1>a, <2>1, SeqMonotonic
    <2> QED
        BY <1>7, <1>a, <1>c, <2>0, <2>2 DEF DrainAnswered
<1>8. ASSUME SkipSeen \/ WakeDone PROVE IdsKnown'
    <2>1. queue # <<>>
        BY <1>8 DEF SkipSeen, WakeDone, Phases
    <2>2. Tail(queue) \in Seq(1..lastId') /\ Head(queue) \in 1..lastId
        BY <1>b, <2>1, HeadTailProperties
    <2> QED
        BY <1>8, <1>a, <1>b, <2>2 DEF SkipSeen, WakeDone, Woke
<1>9. ASSUME NEW started \in BOOLEAN, WakeFails(started) PROVE IdsKnown'
    <2>1. queue # <<>> /\ pendingWakes = <<>>
        BY <1>9 DEF WakeFails, Phases
    <2>2. Head(queue) \in 1..lastId
        BY <2>1, HeadTailProperties
    <2>3. pendingWakes' \in Seq(1..lastId') /\ queue' = <<>>
        BY <1>9, <1>b, ConcatProperties DEF WakeFails
    <2>4. faults' \in 0..MaxFaults
        BY <1>9, <1>a DEF WakeFails
    <2>5. woken' \subseteq 1..lastId /\ twice' \subseteq 1..lastId
        BY <1>9, <2>2 DEF WakeFails, Woke
    <2>6. UNCHANGED <<seen, drained, toolShown, due, spilled, nudges>>
        BY <1>9 DEF WakeFails
    <2> QED
        BY <1>a, <1>c, <2>3, <2>4, <2>5, <2>6
<1>10. ASSUME DrainAnswerTorn PROVE IdsKnown'
    <2>1. Elements(pendingWakes) \subseteq 1..lastId
        BY ElementsKnown
    <2> QED
        BY <1>10, <1>a, <1>b, <1>c, <2>1 DEF DrainAnswerTorn, Breaks
<1>11. ASSUME NEW f \in Fetchers, ToolShows(f) PROVE IdsKnown'
    BY <1>11, <1>a, <1>b, <1>e DEF ToolShows
<1>12. ASSUME UNCHANGED openVars PROVE IdsKnown'
    BY <1>12, <1>f DEF openVars
<1> QED
    BY <1>1, <1>2, <1>3, <1>4, <1>5, <1>6, <1>7, <1>8, <1>9, <1>10, <1>11, <1>12
    DEF OpenNext, Server, Relay, DrainInbox

LEMMA ShapeInit == OpenInit => Shape
<1> SUFFICES ASSUME OpenInit PROVE Shape
    OBVIOUS
<1>1. MaxFaults \in Nat /\ lastId = 0
    BY OpenCodeAssumption DEF OpenCodeAssumption, OpenInit, Init
<1>2. Flags /\ Phases /\ Requests
    BY DEF OpenInit, Flags, Phases, Requests
<1>3. 0 \in 0..(lastId + 1) /\ 0 \in 0..MaxFaults
    BY <1>1
<1>4. IdsKnown
    BY <1>3, NothingQueued DEF OpenInit, IdsKnown
<1> QED
    BY <1>2, <1>4 DEF Shape

LEMMA ShapeStep == TypeOK /\ TypeOK' /\ Shape /\ [OpenNext]_openVars => Shape'
BY FlagsStep, PhasesStep, RequestsStep, IdsStep DEF Shape

LEMMA ShapeIsType == TypeOK /\ Shape => OpenTypeOK
<1> SUFFICES ASSUME TypeOK, Shape PROVE OpenTypeOK
    OBVIOUS
<1>1. Elements(queue) \cup Elements(pendingWakes) \subseteq 1..lastId
    BY ElementsKnown DEF Shape, IdsKnown
<1>2. nudges \in 0..(MaxMsgs + 1)
    <2>1. lastId \in Nat /\ MaxMsgs \in Nat /\ lastId <= MaxMsgs
        BY InboxAssumption DEF InboxAssumption, TypeOK
    <2>2. nudges \in 0..(lastId + 1)
        BY DEF Shape, IdsKnown
    <2> QED
        BY <2>1, <2>2
<1>3. /\ mine \in (Fetchers \ abandoned) \cup {NoRequest}
      /\ abandoned \in SUBSET {f \in Fetchers : pc[f] # "idle"}
      /\ mine # NoRequest => drain = "fetch" /\ pc[mine] # "idle"
    BY DEF Shape, Requests
<1>4. Flags /\ Phases
    BY DEF Shape
<1> QED
    BY <1>1, <1>2, <1>3, <1>4 DEF OpenTypeOK, Shape, Flags, Phases, IdsKnown, relaying

\* Everything so far, which is inductive.
Typed == TypeOK /\ Shape

LEMMA TypedStep == Typed /\ [OpenNext]_openVars => Typed' /\ [Next]_vars
BY ShapeStep, TypeStep, OpenStepIsInboxStep DEF Typed, Shape

LEMMA TypedInit == OpenInit => Typed
BY ShapeInit, TypeInit DEF OpenInit, Typed

(* In every reachable state the plugin's variables keep their types, only ids *)
(* the server has given out are queued or remembered, a drain that is off has *)
(* nothing queued and waits for no request, and no request is both waited for *)
(* and given up (muster-chat.js:123-154).                                     *)
THEOREM OpenTypeCorrect == OpenSafety => []OpenTypeOK
BY TypedInit, TypedStep, ShapeIsType, PTL DEF OpenSafety, Typed

(* OpenCode implements Inbox, with any number of the tool's calls and of      *)
(* requests given up beside the drain's (muster-chat.js:128-155, 268-276).    *)
THEOREM OpenCodeImplementsInbox == OpenSafety => Spec
<1>1. OpenInit => Init
    BY DEF OpenInit
<1> QED
    BY <1>1, TypedInit, TypedStep, PTL DEF OpenSafety, Spec

----------------------------------------------------------------------------
(* Handed mail is kept.  All that an answer brought came to the drain or to   *)
(* the tool; what came to the drain is remembered, queued or held, or was     *)
(* spilled.  A message is remembered when its turn has ended or the tool      *)
(* showed it.                                                                 *)

Kept ==
    /\ shown = drained \cup toolShown
    /\ drained \subseteq seen \cup Elements(queue) \cup Elements(pendingWakes) \cup spilled
    /\ Elements(queue) \cup Elements(pendingWakes) \subseteq drained
    /\ toolShown \subseteq seen
    /\ seen \subseteq woken \cup toolShown
    /\ woken \subseteq drained
    /\ drained \cap toolShown \subseteq repeated

\* While no wake has failed late, a turn is started only for what none was
\* started for.
TurnsOnce ==
    ~lateFail =>
        /\ twice = {}
        /\ woken \subseteq seen
        /\ drain = "wake" => Head(queue) \notin woken

handed == <<queue, pendingWakes, seen, drained, woken, toolShown, twice, lateFail, spilled>>

\* A step that hands over, remembers and spills nothing.
HandsNothing == UNCHANGED <<handed, shown>> /\ (drain' = "wake" => drain = "wake")

LEMMA HandsNothingStep ==
    ASSUME Phases, [OpenNext]_openVars,
           ~\E messages \in {{}} \cup {page[f] : f \in Fetchers} : DrainAnswered(messages),
           ~DrainAnswerTorn, ~SkipSeen, ~WakeStart, ~WakeDone,
           ~\E f \in Fetchers : ToolShows(f),
           ~\E started \in BOOLEAN : WakeFails(started)
    PROVE  HandsNothing
<1> USE DEF HandsNothing, handed, pluginVars, drainVars, streamVars, wakeHistory
<1>1. ASSUME Server PROVE HandsNothing
    BY <1>1 DEF Server, Chat, AppendMessage, Retention, ReaperDelete, Expire, history
<1>2. ASSUME Relay PROVE HandsNothing
    BY <1>2 DEF Relay, Connect, StreamDrops, NudgeHeld, Nudge, StartDrain, SkipDrain, vars
<1>3. ASSUME Hook \/ Dispose PROVE HandsNothing
    BY <1>3 DEF Hook, Dispose, StartDrain, vars
<1>4. ASSUME NEW f \in Fetchers, DrainRequests(f) PROVE HandsNothing
    BY <1>4 DEF DrainRequests, FetchGet
<1>5. ASSUME DrainFetch PROVE HandsNothing
    BY <1>5 DEF DrainFetch, FetchRange, FetchNothing, FetchAdvance, FetchFilter, history
<1>6. ASSUME DrainFetchFails PROVE HandsNothing
    BY <1>6 DEF DrainFetchFails, Breaks, Finish, vars
<1>7. ASSUME DrainLoops \/ DrainEnds PROVE HandsNothing
    BY <1>7 DEF DrainLoops, DrainEnds, Finish, vars
<1>8. ASSUME NEW f \in Fetchers, ToolFetch(f) PROVE HandsNothing
    <2>1. shown' = shown
        BY <1>8 DEF ToolFetch, Fetch, FetchGet, FetchRange, FetchNothing, FetchAdvance,
                    FetchFilter, FetchDies, history
    <2> QED
        BY <1>8, <2>1 DEF ToolFetch
<1>9. ASSUME NEW f \in Fetchers, AbandonedFetch(f) PROVE HandsNothing
    <2>1. shown' = shown
        BY <1>9 DEF AbandonedFetch, FetchRange, FetchNothing, FetchAdvance, FetchFilter,
                    FetchDies, history
    <2> QED
        BY <1>9, <2>1 DEF AbandonedFetch
<1>10. ASSUME UNCHANGED openVars PROVE HandsNothing
    BY <1>10 DEF openVars, vars
<1> QED
    BY <1>1, <1>2, <1>3, <1>4, <1>5, <1>6, <1>7, <1>8, <1>9, <1>10 DEF OpenNext, DrainInbox

\* The page the drain's request has read.
MyPage == IF mine = NoRequest THEN {} ELSE page[mine]

LEMMA MyPageKnown == TypeOK /\ Requests => MyPage \in SUBSET (1..lastId)
BY DEF TypeOK, Requests, MyPage

\* What the steps that hand over or remember do to the mail.
LEMMA PageAnswered ==
    ASSUME IInv, Shape, NEW messages, DrainAnswered(messages)
    PROVE  /\ messages = MyPage /\ messages \in SUBSET (1..lastId)
           /\ mine # NoRequest => pc[mine] = "reply"
           /\ queue = <<>> /\ pendingWakes' = <<>>
           /\ queue' = pendingWakes \o InOrder(messages)
           /\ Elements(queue') = Elements(pendingWakes) \cup messages
           /\ shown' = shown \cup messages
           /\ repeated' = repeated \cup (messages \cap shown)
           /\ drained' = drained \cup messages
           /\ drain' = "next"
           /\ UNCHANGED <<seen, woken, toolShown, twice, lateFail, spilled, lost, expired>>
<1>1. /\ messages = MyPage
      /\ mine # NoRequest => pc[mine] = "reply"
      /\ shown' = shown \cup messages
      /\ repeated' = repeated \cup (messages \cap shown)
      /\ UNCHANGED <<lost, expired>>
    <2>1. CASE mine # NoRequest /\ FetchReply(mine) /\ messages = page[mine]
        BY <2>1 DEF FetchReply, MyPage, storeVars
    <2>2. CASE drain = "empty" /\ UNCHANGED vars /\ messages = {}
        BY <2>2 DEF Shape, Requests, MyPage, vars
    <2> QED
        BY <2>1, <2>2 DEF DrainAnswered, Answered
<1>2. messages \in SUBSET (1..lastId) /\ lastId \in Nat
    BY <1>1, MyPageKnown, InboxAssumption DEF InboxAssumption, IInv, TypeOK, Shape
<1>3. queue = <<>>
    BY DEF DrainAnswered, Answered, Shape, Phases, Requests
<1>4. pendingWakes \in Seq(1..lastId)
    BY DEF Shape, IdsKnown
<1>5. /\ queue' = pendingWakes \o InOrder(messages)
      /\ Elements(queue') = Elements(pendingWakes) \cup messages
    BY <1>2, <1>4, QueueOfPage DEF DrainAnswered
<1> QED
    BY <1>1, <1>2, <1>3, <1>5 DEF DrainAnswered, wakeHistory

LEMMA TornSpills ==
    ASSUME Shape, DrainAnswerTorn
    PROVE  /\ queue = <<>> /\ pendingWakes' = <<>>
           /\ spilled' = spilled \cup Elements(pendingWakes)
           /\ drain' = "off"
           /\ UNCHANGED <<queue, seen, drained, woken, toolShown, twice, lateFail, shown>>
<1>1. shown' = shown
    BY DEF DrainAnswerTorn, FetchDies, vars
<1> QED
    BY <1>1 DEF DrainAnswerTorn, Breaks, Finish, Shape, Phases

LEMMA KeptStep ==
    ASSUME IInv, IInv', Shape, Kept, [OpenNext]_openVars
    PROVE  Kept'
<1> USE DEF Kept, wakeHistory
<1>0. MailGrows
    BY OpenStepIsInboxStep, MailGrowsStep DEF IInv, Shape
<1>n. Elements(<<>>) = {}
    BY NothingQueued
<1>1. ASSUME NEW messages, DrainAnswered(messages) PROVE Kept'
    BY <1>1, <1>n, PageAnswered
<1>2. CASE SkipSeen
    <2>1. queue # <<>> /\ Elements(queue) = {Head(queue)} \cup Elements(Tail(queue))
        BY <1>2, QueueTail DEF SkipSeen, Shape, IdsKnown
    <2> QED
        BY <1>2, <2>1 DEF SkipSeen, vars
<1>3. CASE WakeDone
    <2>1. queue # <<>> /\ Elements(queue) = {Head(queue)} \cup Elements(Tail(queue))
        BY <1>3, QueueTail DEF WakeDone, Shape, IdsKnown, Phases
    <2> QED
        BY <1>3, <2>1 DEF WakeDone, Woke, vars
<1>4. ASSUME NEW started \in BOOLEAN, WakeFails(started) PROVE Kept'
    <2>1. /\ queue # <<>> /\ pendingWakes = <<>>
          /\ Elements(queue) = {Head(queue)} \cup Elements(Tail(queue))
        BY <1>4, QueueTail DEF WakeFails, Shape, IdsKnown, Phases
    <2>2. pendingWakes' = queue /\ queue' = <<>>
        BY <1>4, <2>1, ConcatEmptySeq DEF WakeFails, Shape, IdsKnown
    <2>3. woken' \subseteq woken \cup {Head(queue)} /\ woken \subseteq woken'
        BY <1>4 DEF WakeFails, Woke
    <2> QED
        BY <1>4, <1>n, <2>1, <2>2, <2>3 DEF WakeFails, vars
<1>5. ASSUME NEW f \in Fetchers, ToolShows(f) PROVE Kept'
    <2>1. /\ shown' = shown \cup page[f]
          /\ repeated' = repeated \cup (page[f] \cap shown)
        BY <1>5 DEF ToolShows, FetchReply
    <2> QED
        BY <1>5, <2>1 DEF ToolShows
<1>6. CASE WakeStart
    BY <1>6 DEF WakeStart, vars
<1>7. CASE DrainAnswerTorn
    BY <1>0, <1>7, <1>n, TornSpills DEF MailGrows
<1>8. CASE HandsNothing
    <2>1. UNCHANGED <<queue, pendingWakes, seen, drained, woken, toolShown, shown, spilled>>
          /\ repeated \subseteq repeated'
        BY <1>0, <1>8 DEF HandsNothing, handed, MailGrows
    <2> QED
        BY <2>1
<1> QED
    BY <1>1, <1>2, <1>3, <1>4, <1>5, <1>6, <1>7, <1>8, HandsNothingStep DEF Shape

LEMMA TurnsStep ==
    ASSUME IInv, Shape, TurnsOnce, [OpenNext]_openVars
    PROVE  TurnsOnce'
<1> USE DEF TurnsOnce, wakeHistory
<1>1. ASSUME NEW messages, DrainAnswered(messages) PROVE TurnsOnce'
    BY <1>1, PageAnswered
<1>2. CASE SkipSeen
    BY <1>2 DEF SkipSeen
<1>3. CASE WakeDone
    BY <1>3 DEF WakeDone, Woke
<1>4. ASSUME NEW started \in BOOLEAN, WakeFails(started) PROVE TurnsOnce'
    <2>1. CASE started
        BY <1>4, <2>1 DEF WakeFails
    <2>2. CASE ~started
        <3>1. UNCHANGED <<woken, twice, seen>> /\ drain' = "off" /\ lateFail' = lateFail
            BY <1>4, <2>2 DEF WakeFails, Finish, Shape, Flags
        <3> QED
            BY <3>1
    <2> QED
        BY <2>1, <2>2
<1>5. ASSUME NEW f \in Fetchers, ToolShows(f) PROVE TurnsOnce'
    BY <1>5 DEF ToolShows
<1>6. CASE WakeStart
    BY <1>6 DEF WakeStart
<1>7. CASE DrainAnswerTorn
    BY <1>7, TornSpills
<1>8. CASE HandsNothing
    BY <1>8 DEF HandsNothing, handed
<1> QED
    BY <1>1, <1>2, <1>3, <1>4, <1>5, <1>6, <1>7, <1>8, HandsNothingStep DEF Shape

OpenInv == IInv /\ Shape /\ Kept /\ TurnsOnce

LEMMA OpenInvInit == OpenInit => OpenInv
<1> SUFFICES ASSUME OpenInit PROVE OpenInv
    OBVIOUS
<1>1. IInv /\ Shape
    BY InvInit, ShapeInit DEF OpenInit
<1>2. Kept /\ TurnsOnce
    BY NothingQueued DEF OpenInit, Init, Kept, TurnsOnce
<1> QED
    BY <1>1, <1>2 DEF OpenInv

LEMMA OpenInvStep == OpenInv /\ [OpenNext]_openVars => OpenInv'
<1> SUFFICES ASSUME OpenInv, [OpenNext]_openVars PROVE OpenInv'
    OBVIOUS
<1>1. IInv /\ IInv' /\ TypeOK /\ TypeOK'
    BY InvStep, OpenStepIsInboxStep DEF OpenInv, IInv, Shape
<1> QED
    BY <1>1, ShapeStep, KeptStep, TurnsStep DEF OpenInv

THEOREM OpenInvariantHolds == OpenSafety => []OpenInv
BY OpenInvInit, OpenInvStep, PTL DEF OpenSafety

(* "A failed wake does NOT lose mail" (muster-chat.js:120-122): what a drain  *)
(* was handed was woken for, was shown by the tool, or is queued or held; only*)
(* what is held when an answer breaks off behind its headers may be gone.     *)
THEOREM HandedIsKeptHolds == OpenSafety => []HandedIsKept
<1>1. OpenInv => HandedIsKept
    BY DEF OpenInv, Kept, HandedIsKept
<1> QED
    BY <1>1, OpenInvariantHolds, PTL

(* Two turns for one message need a wake that failed after its turn began; a  *)
(* turn and the tool for one message need fetches that overlapped             *)
(* (muster-chat.js:140, 149, 272).                                            *)
THEOREM DoubledOnlyIfHolds == OpenSafety => []DoubledOnlyIf
<1>1. OpenInv /\ RepeatsOnlyAfterOverlap => DoubledOnlyIf
    BY DEF OpenInv, Kept, TurnsOnce, RepeatsOnlyAfterOverlap, DoubledOnlyIf
<1> QED
    BY <1>1, OpenInvariantHolds, OpenCodeImplementsInbox, RepeatsOnlyAfterOverlapHolds, PTL

----------------------------------------------------------------------------
(* Held mail goes first.  The difficulty is a cursor that a stale SET has put *)
(* back, a tool call's or an abandoned request's: what the drain reads then   *)
(* may be older than what it was handed before.  It has been in an answer     *)
(* already, so it was shown, was lost, had expired or is in that answer still.*)

Answering(f) == pc[f] \in {"filter", "reply"}

LEMMA OthersAnswersAre ==
    \A i : i \in OthersAnswers <=>
               \E f \in Fetchers : f # mine /\ Answering(f) /\ i \in page[f]
BY DEF OthersAnswers, Answering

\* Of what is in the answer to another's request, a step shows, loses or finds
\* expired what it does not leave there.
LEMMA OthersAnswersGoOn ==
    ASSUME IInv, Shape, [OpenNext]_openVars
    PROVE  OthersAnswers \subseteq (seen \cup lost \cup expired \cup OthersAnswers)'
<1> DEFINE Rest == (seen \cup lost \cup expired \cup OthersAnswers)'
<1> SUFFICES ASSUME NEW g \in Fetchers, g # mine, Answering(g), NEW i \in page[g]
             PROVE  i \in Rest
    BY OthersAnswersAre
<1>t. pc \in [Fetchers -> PcStates] /\ page \in [Fetchers -> SUBSET (1..lastId)]
    BY DEF IInv, TypeOK
<1>r. ASSUME g # mine', pc'[g] = pc[g], page'[g] = page[g] PROVE i \in Rest
    BY <1>r DEF OthersAnswers, Answering
<1>v. ASSUME UNCHANGED <<pc, page>>, mine' \in {mine, NoRequest} PROVE i \in Rest
    BY <1>r, <1>v, RequestFacts
<1>o. ASSUME NEW f \in Fetchers, f # g, Fetch(f), g # mine' PROVE i \in Rest
    BY <1>o, <1>r, OneFetchMoves DEF IInv
<1>1. ASSUME Server PROVE i \in Rest
    BY <1>1, <1>v DEF Server, Chat, AppendMessage, Retention, ReaperDelete, Expire, fetchVars,
                      requestVars
<1>2. ASSUME Relay \/ Hook \/ Dispose PROVE i \in Rest
    BY <1>2, <1>v DEF Relay, Connect, StreamDrops, NudgeHeld, Nudge, Hook, Dispose, vars,
                      requestVars
<1>3. ASSUME NEW f \in Fetchers, DrainRequests(f) PROVE i \in Rest
    <2>1. f # g /\ mine' = f /\ Fetch(f)
        BY <1>3 DEF DrainRequests, FetchGet, Fetch, Answering
    <2> QED
        BY <1>o, <2>1
<1>4. CASE DrainFetch
    <2>1. mine \in Fetchers /\ Fetch(mine) /\ mine' \in {mine, NoRequest}
        BY <1>4, RequestFacts DEF DrainFetch, Fetch, Shape, Requests
    <2> QED
        BY <1>o, <2>1, RequestFacts
<1>5. ASSUME (\E messages : DrainAnswered(messages)) \/ DrainAnswerTorn PROVE i \in Rest
    <2>1. mine' = NoRequest
        BY <1>5 DEF DrainAnswered, DrainAnswerTorn, Breaks
    <2>2. CASE mine # NoRequest /\ (FetchReply(mine) \/ FetchDies(mine))
        <3>1. mine \in Fetchers /\ Fetch(mine)
            BY <2>2 DEF Fetch, Shape, Requests
        <3> QED
            BY <1>o, <2>1, <3>1, RequestFacts
    <2>3. CASE UNCHANGED vars
        BY <1>v, <2>1, <2>3 DEF vars
    <2> QED
        BY <1>5, <2>2, <2>3 DEF DrainAnswered, Answered, DrainAnswerTorn
<1>6. CASE DrainFetchFails
    BY <1>6, <1>v DEF DrainFetchFails, Breaks, vars
<1>7. ASSUME SkipSeen \/ WakeStart \/ WakeDone \/ DrainLoops \/ DrainEnds
             \/ \E started \in BOOLEAN : WakeFails(started)
      PROVE  i \in Rest
    BY <1>7, <1>v DEF SkipSeen, WakeStart, WakeDone, WakeFails, DrainLoops, DrainEnds, vars,
                      requestVars
<1>8. ASSUME NEW f \in Fetchers, ToolFetch(f) \/ ToolShows(f) \/ AbandonedFetch(f)
      PROVE  i \in Rest
    <2>0. mine' = mine
        BY <1>8 DEF ToolFetch, ToolShows, AbandonedFetch, requestVars
    <2>1. Fetch(f)
        BY <1>8, RequestFacts DEF ToolFetch, ToolShows, AbandonedFetch, Fetch
    <2>2. CASE f # g
        BY <1>o, <2>0, <2>1, <2>2
    <2>3. CASE f = g
        <3>1. CASE FetchFilter(g)
            <4>1. pc'[g] = "reply" /\ page'[g] = page[g] \ expired /\ expired' = expired
                BY <1>t, <3>1 DEF FetchFilter, Live, storeVars
            <4> QED
                BY <2>0, <4>1 DEF OthersAnswers
        <3>2. CASE ToolShows(g)
            BY <3>2 DEF ToolShows
        <3>3. CASE FetchDies(g)
            BY <3>3 DEF FetchDies, Answering
        <3> QED
            BY <1>8, <2>3, <3>1, <3>2, <3>3
            DEF ToolFetch, AbandonedFetch, Fetch, FetchGet, FetchRange, FetchNothing,
                FetchAdvance, Answering
    <2> QED
        BY <2>2, <2>3
<1>9. CASE UNCHANGED openVars
    BY <1>9, <1>v DEF openVars, vars, requestVars
<1> QED
    BY <1>1, <1>2, <1>3, <1>4, <1>5, <1>6, <1>7, <1>8, <1>9 DEF OpenNext, DrainInbox

\* What may come late: it was in an answer before.
Late == seen \cup lost \cup spilled \cup expired \cup OthersAnswers

LEMMA LateGrows ==
    ASSUME IInv, IInv', Shape, [OpenNext]_openVars
    PROVE  Late \subseteq Late'
<1>1. lost \subseteq lost' /\ expired \subseteq expired'
    BY OpenStepIsInboxStep, MailGrowsStep DEF IInv, Shape, MailGrows
<1>2. seen \subseteq seen' /\ spilled \subseteq spilled'
    <2>1. ASSUME NEW messages, DrainAnswered(messages)
          PROVE  seen \subseteq seen' /\ spilled \subseteq spilled'
        BY <2>1, PageAnswered
    <2>2. ASSUME \/ SkipSeen \/ WakeStart \/ WakeDone
                 \/ \E f \in Fetchers : ToolShows(f)
                 \/ \E started \in BOOLEAN : WakeFails(started)
          PROVE  seen \subseteq seen' /\ spilled \subseteq spilled'
        BY <2>2 DEF SkipSeen, WakeStart, WakeDone, ToolShows, WakeFails, wakeHistory
    <2>3. ASSUME DrainAnswerTorn
          PROVE  seen \subseteq seen' /\ spilled \subseteq spilled'
        BY <2>3, TornSpills
    <2>4. ASSUME HandsNothing
          PROVE  seen \subseteq seen' /\ spilled \subseteq spilled'
        BY <2>4 DEF HandsNothing, handed
    <2> QED
        BY <2>1, <2>2, <2>3, <2>4, HandsNothingStep DEF Shape
<1>3. OthersAnswers \subseteq (seen \cup lost \cup expired \cup OthersAnswers)'
    BY OthersAnswersGoOn
<1> QED
    BY <1>1, <1>2, <1>3 DEF Late

\* What is older than something the drain was handed has been handed too, or
\* comes late.
OlderIsSettled ==
    \A i \in inbox \cup MyPage : \A j \in drained : i < j => i \in Late \cup drained

\* What a step leaves to read, unless it appends: no more than before it.
LEMMA NothingOlderComes ==
    ASSUME IInv, Shape, [OpenNext]_openVars, NEW i \in (inbox \cup MyPage)', i \in 1..lastId
    PROVE  i \in inbox \cup MyPage
<1>t. page \in [Fetchers -> SUBSET (1..lastId)] /\ lastId \in Nat
    BY InboxAssumption DEF InboxAssumption, IInv, TypeOK
<1>1. ASSUME UNCHANGED <<page, mine>> PROVE MyPage' = MyPage
    BY <1>1 DEF MyPage
<1>2. ASSUME mine' = NoRequest PROVE MyPage' = {}
    BY <1>2 DEF MyPage
<1>3. ASSUME NEW trimTo \in 0..lastId, NEW published \in BOOLEAN, Chat(trimTo, published)
      PROVE  i \in inbox \cup MyPage
    <2>1. i # lastId + 1
        BY <1>t
    <2> QED
        BY <1>1, <1>3, <2>1 DEF Chat, AppendMessage, fetchVars, requestVars
<1>4. CASE Retention
    BY <1>1, <1>4 DEF Retention, ReaperDelete, Expire, fetchVars, requestVars
<1>5. ASSUME Relay \/ Hook \/ Dispose PROVE i \in inbox \cup MyPage
    BY <1>1, <1>5 DEF Relay, Connect, StreamDrops, NudgeHeld, Nudge, Hook, Dispose, vars,
                      requestVars
<1>6. ASSUME NEW f \in Fetchers, DrainRequests(f) PROVE i \in inbox \cup MyPage
    <2>1. MyPage' = {} /\ inbox' = inbox
        BY <1>6, RequestFacts DEF DrainRequests, FetchGet, MyPage, IInv, EmptyHanded, storeVars
    <2> QED
        BY <2>1
<1>7. CASE DrainFetch
    <2>1. mine \in Fetchers /\ inbox' = inbox
        BY <1>7 DEF DrainFetch, FetchRange, FetchNothing, FetchAdvance, FetchFilter, storeVars,
                    Shape, Requests
    <2>2. MyPage' \subseteq inbox \cup MyPage
        <3>1. CASE FetchRange(mine, PageSize) /\ mine' = mine
            BY <1>t, <2>1, <3>1 DEF FetchRange, MyPage, Page
        <3>2. CASE FetchNothing(mine, PageSize) /\ mine' = NoRequest
            BY <1>2, <3>2
        <3>3. CASE (\E last \in page[mine] : FetchAdvance(mine, last)) /\ mine' = mine
            BY <1>1, <3>3 DEF FetchAdvance
        <3>4. CASE FetchFilter(mine) /\ mine' = mine
            BY <1>t, <2>1, <3>4 DEF FetchFilter, MyPage, Live
        <3> QED
            BY <1>7, <3>1, <3>2, <3>3, <3>4 DEF DrainFetch
    <2> QED
        BY <2>1, <2>2
<1>8. ASSUME (\E messages : DrainAnswered(messages)) \/ DrainFetchFails \/ DrainAnswerTorn
      PROVE  i \in inbox \cup MyPage
    <2>1. mine' = NoRequest /\ inbox' = inbox
        BY <1>8 DEF DrainAnswered, Answered, FetchReply, DrainFetchFails, DrainAnswerTorn, Breaks,
                    FetchDies, storeVars, vars
    <2> QED
        BY <1>2, <2>1
<1>9. ASSUME SkipSeen \/ WakeStart \/ WakeDone \/ DrainLoops \/ DrainEnds
             \/ \E started \in BOOLEAN : WakeFails(started)
      PROVE  i \in inbox \cup MyPage
    BY <1>1, <1>9 DEF SkipSeen, WakeStart, WakeDone, WakeFails, DrainLoops, DrainEnds, vars,
                      requestVars
<1>10. ASSUME NEW f \in Fetchers, ToolFetch(f) \/ ToolShows(f) \/ AbandonedFetch(f)
       PROVE  i \in inbox \cup MyPage
    <2>1. Fetch(f) /\ f # mine /\ mine' = mine
        BY <1>10, RequestFacts
        DEF ToolFetch, ToolShows, AbandonedFetch, Fetch, requestVars, Shape, Requests
    <2>2. mine # NoRequest => page'[mine] = page[mine]
        BY <2>1, OneFetchMoves DEF Shape, Requests, IInv
    <2>3. inbox' = inbox
        BY <2>1 DEF Fetch, FetchGet, FetchRange, FetchNothing, FetchAdvance, FetchFilter,
                    FetchReply, FetchDies, storeVars
    <2> QED
        BY <2>1, <2>2, <2>3 DEF MyPage
<1>11. CASE UNCHANGED openVars
    BY <1>1, <1>11 DEF openVars, vars, requestVars
<1> QED
    BY <1>3, <1>4, <1>5, <1>6, <1>7, <1>8, <1>9, <1>10, <1>11 DEF OpenNext, Server, DrainInbox

LEMMA OlderStep ==
    ASSUME IInv, IInv', Shape, Kept, OlderIsSettled, [OpenNext]_openVars
    PROVE  OlderIsSettled'
<1>0. Late \subseteq Late'
    BY LateGrows
<1>t. /\ lastId \in Nat /\ drained \subseteq 1..lastId
      /\ inbox \subseteq 1..lastId /\ MyPage \subseteq 1..lastId
      /\ inbox' \cup MyPage' \subseteq Nat \ {0}
    <2>1. (TypeOK /\ Requests => MyPage \in SUBSET (1..lastId))'
        BY MyPageKnown, PTL
    <2>2. Requests'
        BY RequestsStep DEF IInv, Shape
    <2>3. lastId' \in Nat
        BY InboxAssumption DEF InboxAssumption, IInv, TypeOK
    <2>4. /\ lastId \in Nat /\ drained \subseteq 1..lastId
          /\ inbox \subseteq 1..lastId /\ MyPage \subseteq 1..lastId
        BY MyPageKnown, InboxAssumption
        DEF InboxAssumption, IInv, TypeOK, Shape, IdsKnown
    <2>5. inbox' \subseteq 1..lastId' /\ MyPage' \subseteq 1..lastId'
        BY <2>1, <2>2 DEF IInv, TypeOK
    <2>6. 1..lastId' \subseteq Nat \ {0}
        BY <2>3
    <2> QED
        BY <2>4, <2>5, <2>6
<1>k. ASSUME NEW i \in (inbox \cup MyPage)', NEW j \in 1..lastId, i < j
      PROVE  i \in inbox \cup MyPage
    <2>1. i \in 1..lastId
        BY <1>k, <1>t
    <2> QED
        BY <2>1, NothingOlderComes
<1>1. ASSUME drained' = drained PROVE OlderIsSettled'
    <2> SUFFICES ASSUME NEW i \in (inbox \cup MyPage)', NEW j \in drained, i < j
                 PROVE  i \in Late' \cup drained
        BY <1>1 DEF OlderIsSettled
    <2>1. i \in inbox \cup MyPage
        BY <1>k, <1>t
    <2> QED
        BY <1>0, <2>1 DEF OlderIsSettled
<1>2. ASSUME NEW messages, DrainAnswered(messages) PROVE OlderIsSettled'
    <2>1. /\ messages = MyPage /\ drained' = drained \cup MyPage
          /\ mine # NoRequest => pc[mine] = "reply"
        BY <1>2, PageAnswered
    <2>2. ASSUME NEW i \in (inbox \cup MyPage)', NEW j \in drained \cup MyPage, i < j
          PROVE  i \in Late' \cup drained'
        <3>1. i \in inbox \cup MyPage
            BY <1>k, <1>t, <2>2
        <3>2. CASE i \in MyPage \/ j \in drained
            BY <1>0, <2>1, <2>2, <3>1, <3>2 DEF OlderIsSettled
        <3>3. CASE i \in inbox /\ i \notin MyPage /\ j \in MyPage
            <4>1. mine # NoRequest /\ mine \in Fetchers /\ page[mine] = MyPage
                BY <3>3 DEF MyPage, Shape, Requests
            <4>2. MyPage \subseteq acked
                BY <2>1, <4>1 DEF IInv, AnswersAcked
            <4>3. i \in acked
                BY <2>2, <3>3, <4>2 DEF IInv, AckedIsPrefix
            <4>4. i \in shown \/ i \in lost \/ InAnswer(i) \/ i \in expired
                BY <4>3 DEF IInv, AckedAccounted
            <4>5. InAnswer(i) => i \in OthersAnswers
                BY <3>3, <4>1 DEF InAnswer, OthersAnswers
            <4>6. i \in shown => i \in drained \cup seen
                BY DEF Kept
            <4> QED
                BY <1>0, <2>1, <4>4, <4>5, <4>6 DEF Late
        <3> QED
            BY <2>2, <3>1, <3>2, <3>3
    <2> QED
        BY <2>1, <2>2 DEF OlderIsSettled
<1>3. \/ drained' = drained
      \/ \E messages : DrainAnswered(messages)
    <2>1. ASSUME \/ SkipSeen \/ WakeStart \/ WakeDone
                 \/ \E f \in Fetchers : ToolShows(f)
                 \/ \E started \in BOOLEAN : WakeFails(started)
          PROVE  drained' = drained
        BY <2>1 DEF SkipSeen, WakeStart, WakeDone, ToolShows, WakeFails
    <2>2. DrainAnswerTorn => drained' = drained
        BY TornSpills
    <2>3. HandsNothing => drained' = drained
        BY DEF HandsNothing, handed
    <2> QED
        BY <2>1, <2>2, <2>3, HandsNothingStep DEF Shape
<1> QED
    BY <1>1, <1>2, <1>3

\* A queue brings older messages first, but for those in done and those it
\* brings twice.
OldestFirst(q, done) ==
    \A k, l \in DOMAIN q :
        k < l /\ q[l] < q[k] => q[l] \in done \/ \E m \in DOMAIN q : m < k /\ q[m] = q[l]

LEMMA TailOldestFirst ==
    ASSUME NEW n \in Nat, NEW q \in Seq(1..n), q # <<>>, NEW done, NEW more,
           OldestFirst(q, done), done \subseteq more, Head(q) \in more
    PROVE  OldestFirst(Tail(q), more)
<1> DEFINE t == Tail(q)
<1>1. /\ 1 \in DOMAIN q /\ Head(q) = q[1]
      /\ DOMAIN q \subseteq Nat /\ DOMAIN t \subseteq Nat
      /\ \A k \in DOMAIN t : k + 1 \in DOMAIN q /\ t[k] = q[k + 1]
      /\ \A k \in DOMAIN q : k # 1 => k - 1 \in DOMAIN t /\ t[k - 1] = q[k]
    BY QueueTail
<1> HIDE DEF t
<1>2. ASSUME NEW k \in DOMAIN t, NEW l \in DOMAIN t, k < l, t[l] < t[k], t[l] \notin more
      PROVE  \E m \in DOMAIN t : m < k /\ t[m] = t[l]
    <2>1. k + 1 \in DOMAIN q /\ l + 1 \in DOMAIN q /\ k + 1 < l + 1 /\ q[l + 1] < q[k + 1]
        BY <1>1, <1>2
    <2>2. q[l + 1] \notin done
        BY <1>1, <1>2
    <2>3. PICK m \in DOMAIN q : m < k + 1 /\ q[m] = q[l + 1]
        BY <2>1, <2>2 DEF OldestFirst
    <2>4. m # 1
        BY <1>1, <1>2, <2>3
    <2>5. m - 1 \in DOMAIN t /\ t[m - 1] = t[l] /\ m - 1 < k
        <3>1. m - 1 \in DOMAIN t /\ t[m - 1] = q[m] /\ t[l] = q[l + 1]
            BY <1>1, <2>4
        <3>2. m \in Nat /\ k \in Nat
            BY <1>1
        <3> QED
            BY <2>3, <3>1, <3>2
    <2> QED
        BY <2>5
<1> QED
    BY <1>2 DEF OldestFirst, t

\* New mail behind what was held.
LEMMA AppendedOldestFirst ==
    ASSUME NEW n \in Nat, NEW p \in Seq(1..n), NEW S \in SUBSET (1..n), NEW done,
           OldestFirst(p, done),
           \A i \in S : \A j \in Elements(p) : i < j => i \in done \cup Elements(p)
    PROVE  OldestFirst(p \o InOrder(S), done)
<1> DEFINE q == p \o InOrder(S)
<1>1. /\ q \in Seq(1..n)
      /\ \A k \in 1..Len(p) : k \in DOMAIN q /\ q[k] = p[k]
      /\ \A l \in DOMAIN q : l \notin 1..Len(p) => q[l] \in S
      /\ \A k, l \in DOMAIN q : k < l /\ k \notin 1..Len(p) => q[k] < q[l]
    BY QueueOfPage
<1> HIDE DEF q
<1>2. /\ DOMAIN p = 1..Len(p) /\ Len(p) \in Nat
      /\ DOMAIN q = 1..Len(q) /\ Len(q) \in Nat
    BY <1>1, LenProperties
<1>3. \A k \in DOMAIN q : q[k] \in Nat
    BY <1>1, <1>2, ElementOfSeq
<1>4. ASSUME NEW k \in DOMAIN q, NEW l \in DOMAIN q, k < l, q[l] < q[k], q[l] \notin done
      PROVE  \E m \in DOMAIN q : m < k /\ q[m] = q[l]
    <2>1. k \in DOMAIN p
        BY <1>1, <1>2, <1>3, <1>4
    <2>2. q[k] = p[k]
        BY <1>1, <1>2, <2>1
    <2>3. \E m \in DOMAIN p : p[m] = q[l]
        <3>1. CASE l \in 1..Len(p)
            BY <1>1, <1>2, <3>1
        <3>2. CASE l \notin 1..Len(p)
            <4>1. q[l] \in S /\ p[k] \in Elements(p) /\ q[l] < p[k]
                BY <1>1, <1>4, <2>1, <2>2, <3>2 DEF Elements
            <4>2. q[l] \in Elements(p)
                BY <1>4, <4>1
            <4> QED
                BY <4>2 DEF Elements
        <3> QED
            BY <3>1, <3>2
    <2>4. PICK m \in DOMAIN p : p[m] = q[l]
        BY <2>3
    <2>5. m \in DOMAIN q /\ q[m] = q[l] /\ m # k
        BY <1>1, <1>2, <1>3, <1>4, <2>2, <2>4
    <2>6. CASE m < k
        BY <2>5, <2>6
    <2>7. CASE ~(m < k)
        <3>1. k < m /\ p[m] < p[k]
            BY <1>2, <1>4, <2>1, <2>2, <2>4, <2>5, <2>7
        <3>2. PICK o \in DOMAIN p : o < k /\ p[o] = p[m]
            BY <1>4, <2>1, <2>4, <3>1 DEF OldestFirst
        <3> QED
            BY <1>1, <1>2, <2>4, <3>2
    <2> QED
        BY <2>6, <2>7
<1> QED
    BY <1>4 DEF OldestFirst, q

LEMMA MoreDone ==
    ASSUME NEW q, NEW done, NEW more, OldestFirst(q, done), done \subseteq more
    PROVE  OldestFirst(q, more)
BY DEF OldestFirst

\* The head of a queue may be woken for.
LEMMA HeadIsOldest ==
    ASSUME NEW n \in Nat, NEW q \in Seq(1..n), q # <<>>, NEW done,
           OldestFirst(q, done), NEW i \in Elements(q), i < Head(q)
    PROVE  i \in done
<1>1. 1 \in DOMAIN q /\ Head(q) = q[1] /\ DOMAIN q \subseteq Nat
    BY QueueTail
<1>2. DOMAIN q = 1..Len(q) /\ Len(q) \in Nat
    BY LenProperties
<1>3. PICK l \in DOMAIN q : q[l] = i
    BY DEF Elements
<1>4. q[1] \in Nat /\ i \in Nat
    BY <1>1, <1>2, <1>3, ElementOfSeq
<1>5. l # 1
    BY <1>1, <1>3, <1>4
<1>6. 1 < l /\ ~\E m \in DOMAIN q : m < 1
    BY <1>2, <1>5
<1> QED
    BY <1>1, <1>3, <1>6 DEF OldestFirst

LEMMA NothingOldestFirst == \A done : OldestFirst(<<>>, done)
BY DEF OldestFirst

QueuesInOrder == OldestFirst(queue, Late) /\ OldestFirst(pendingWakes, Late)

\* HeldGoesFirst with a name for its exceptions.
LEMMA HeldGoesFirstIs ==
    HeldGoesFirst <=>
        \A i \in Elements(queue) \cup Elements(pendingWakes) : \A j \in woken :
            i < j => i \in Late
BY DEF HeldGoesFirst, Late

LEMMA HeldStep ==
    ASSUME IInv, IInv', Shape, Kept, OlderIsSettled, QueuesInOrder, HeldGoesFirst,
           [OpenNext]_openVars
    PROVE  QueuesInOrder' /\ HeldGoesFirst'
<1> USE DEF QueuesInOrder, wakeHistory
<1>a. Late \subseteq Late'
    BY LateGrows
<1>b. /\ lastId \in Nat
      /\ queue \in Seq(1..lastId) /\ pendingWakes \in Seq(1..lastId)
    BY InboxAssumption DEF InboxAssumption, IInv, TypeOK, Shape, IdsKnown
<1>n. Elements(<<>>) = {}
    BY NothingQueued
<1>h. \A i \in Elements(queue) \cup Elements(pendingWakes) : \A j \in woken :
          i < j => i \in Late
    BY HeldGoesFirstIs
<1>g. ASSUME \A i \in Elements(queue') \cup Elements(pendingWakes') : \A j \in woken' :
                 i < j => i \in Late'
      PROVE  HeldGoesFirst'
    <2>1. (Elements(queue) \cup Elements(pendingWakes))'
              = Elements(queue') \cup Elements(pendingWakes')
        BY DEF Elements
    <2> QED
        BY <1>g, <2>1, Zenon DEF HeldGoesFirst, Late
<1>1. ASSUME NEW messages, DrainAnswered(messages)
      PROVE  QueuesInOrder' /\ HeldGoesFirst'
    <2>0. /\ messages = MyPage /\ messages \in SUBSET (1..lastId)
          /\ queue = <<>> /\ pendingWakes' = <<>>
          /\ queue' = pendingWakes \o InOrder(messages)
          /\ Elements(queue') = Elements(pendingWakes) \cup messages
          /\ UNCHANGED woken
        BY <1>1, PageAnswered
    <2>1. ASSUME NEW i \in messages, NEW j \in drained, i < j
          PROVE  i \in Late \cup Elements(pendingWakes)
        <3>1. i \in Late \cup drained
            BY <2>0, <2>1 DEF OlderIsSettled
        <3> QED
            BY <1>n, <2>0, <3>1 DEF Kept, Late
    <2>2. OldestFirst(queue', Late)
        <3>1. \A i \in messages : \A j \in Elements(pendingWakes) :
                  i < j => i \in Late \cup Elements(pendingWakes)
            BY <2>1 DEF Kept
        <3> QED
            BY <1>b, <2>0, <3>1, AppendedOldestFirst
    <2>3. OldestFirst(queue', Late')
        BY <1>a, <2>2, MoreDone
    <2>4. ASSUME NEW i \in Elements(pendingWakes) \cup messages, NEW j \in woken, i < j
          PROVE  i \in Late
        BY <1>h, <2>1, <2>4 DEF Kept
    <2>5. HeldGoesFirst'
        BY <1>a, <1>g, <1>n, <2>0, <2>4
    <2> QED
        BY <2>0, <2>3, <2>5, NothingOldestFirst
<1>2. CASE SkipSeen
    <2>1. /\ queue # <<>> /\ Head(queue) \in Late' /\ queue' = Tail(queue)
          /\ UNCHANGED <<pendingWakes, woken>>
        BY <1>2, <1>a DEF SkipSeen, Late
    <2>2. OldestFirst(Tail(queue), Late')
        BY <1>a, <1>b, <2>1, TailOldestFirst
    <2>3. Elements(Tail(queue)) \subseteq Elements(queue)
        BY <1>b, <2>1, QueueTail
    <2>4. OldestFirst(pendingWakes, Late')
        BY <1>a, MoreDone
    <2> QED
        BY <1>a, <1>g, <1>h, <2>1, <2>2, <2>3, <2>4
<1>3. CASE WakeDone
    <2>1. /\ queue # <<>> /\ queue' = Tail(queue) /\ seen' = seen \cup {Head(queue)}
          /\ woken' = woken \cup {Head(queue)} /\ pendingWakes = <<>>
          /\ UNCHANGED pendingWakes
        BY <1>3 DEF WakeDone, Woke, Shape, Phases
    <2>2. OldestFirst(Tail(queue), Late')
        <3>1. Head(queue) \in Late'
            BY <2>1 DEF Late
        <3> QED
            BY <1>a, <1>b, <2>1, <3>1, TailOldestFirst
    <2>3. Elements(Tail(queue)) \subseteq Elements(queue)
        BY <1>b, <2>1, QueueTail
    <2>4. \A i \in Elements(queue) : i < Head(queue) => i \in Late
        BY <1>b, <2>1, HeadIsOldest
    <2>5. HeldGoesFirst'
        BY <1>a, <1>g, <1>h, <1>n, <2>1, <2>3, <2>4
    <2> QED
        BY <2>1, <2>2, <2>5, NothingOldestFirst
<1>4. ASSUME NEW started \in BOOLEAN, WakeFails(started)
      PROVE  QueuesInOrder' /\ HeldGoesFirst'
    <2>1. /\ queue # <<>> /\ pendingWakes = <<>>
          /\ woken' \subseteq woken \cup {Head(queue)}
        BY <1>4 DEF WakeFails, Woke, Shape, Phases
    <2>2. pendingWakes' = queue /\ queue' = <<>>
        BY <1>4, <1>b, <2>1, ConcatEmptySeq DEF WakeFails
    <2>3. \A i \in Elements(queue) : i < Head(queue) => i \in Late
        BY <1>b, <2>1, HeadIsOldest
    <2>4. HeldGoesFirst'
        BY <1>a, <1>g, <1>h, <1>n, <2>1, <2>2, <2>3
    <2>5. OldestFirst(queue, Late')
        BY <1>a, MoreDone
    <2> QED
        BY <2>2, <2>4, <2>5, NothingOldestFirst
<1>5. CASE DrainAnswerTorn
    <2>1. pendingWakes' = <<>> /\ queue' = <<>>
        BY <1>5, TornSpills
    <2> QED
        BY <1>g, <1>n, <2>1, NothingOldestFirst
<1>6. ASSUME (\E f \in Fetchers : ToolShows(f)) \/ WakeStart \/ HandsNothing
      PROVE  QueuesInOrder' /\ HeldGoesFirst'
    <2>1. UNCHANGED <<queue, pendingWakes, woken>>
        BY <1>6 DEF ToolShows, WakeStart, HandsNothing, handed
    <2>2. OldestFirst(queue, Late') /\ OldestFirst(pendingWakes, Late')
        BY <1>a, MoreDone
    <2> QED
        BY <1>a, <1>g, <1>h, <2>1, <2>2
<1> QED
    BY <1>1, <1>2, <1>3, <1>4, <1>5, <1>6, HandsNothingStep DEF Shape

OrderInv == OpenInv /\ OlderIsSettled /\ QueuesInOrder /\ HeldGoesFirst

LEMMA OrderInit == OpenInit => OrderInv
<1> SUFFICES ASSUME OpenInit PROVE OrderInv
    OBVIOUS
<1>1. OpenInv
    BY OpenInvInit
<1>2. OlderIsSettled
    BY DEF OpenInit, OlderIsSettled
<1>3. QueuesInOrder
    BY NothingOldestFirst DEF OpenInit, QueuesInOrder
<1>4. HeldGoesFirst
    BY DEF OpenInit, HeldGoesFirst
<1> QED
    BY <1>1, <1>2, <1>3, <1>4 DEF OrderInv

(* Held mail is retried ahead of anything newer (muster-chat.js:121, 137):    *)
(* nothing waits for its turn behind something newer that had one, but what a *)
(* stale SET brought back after an answer had brought it, lost it, left it    *)
(* out, or while one still has it.  Any number of the tool's calls and of     *)
(* abandoned requests may move the cursor.                                    *)
THEOREM HeldGoesFirstHolds == OpenSafety => []HeldGoesFirst
<1>1. OrderInv /\ [OpenNext]_openVars => OrderInv'
    <2> SUFFICES ASSUME OrderInv, [OpenNext]_openVars PROVE OrderInv'
        OBVIOUS
    <2>1. OpenInv'
        BY OpenInvStep DEF OrderInv
    <2>2. OlderIsSettled'
        BY <2>1, OlderStep DEF OrderInv, OpenInv
    <2>3. QueuesInOrder' /\ HeldGoesFirst'
        BY <2>1, HeldStep DEF OrderInv, OpenInv
    <2> QED
        BY <2>1, <2>2, <2>3 DEF OrderInv
<1>2. OrderInv => HeldGoesFirst
    BY DEF OrderInv
<1> QED
    BY <1>1, <1>2, OrderInit, PTL DEF OpenSafety

----------------------------------------------------------------------------
(* Triggers.  Mail that was due at one and is still unread is, as long as no  *)
(* further trigger has come, on the page the drain has read, or behind a page *)
(* that is full: then the drain goes on.                                      *)

DueUnread == due \cap Unread

FullPage == Cardinality(page[mine]) = PageSize

DueIsAhead ==
    /\ mine # NoRequest /\ ~again =>
         /\ pc[mine] = "advance" => DueUnread \subseteq page[mine] \/ FullPage
         /\ pc[mine] = "filter" => DueUnread = {} \/ FullPage
         /\ pc[mine] = "reply" /\ ~short => DueUnread = {} \/ FullPage
    /\ drain = "empty" /\ ~again => DueUnread = {}
    /\ drain \in {"next", "wake"} /\ ~again /\ ~short => DueUnread = {} \/ full
    /\ TriggersHonoured

\* A page that leaves entries out is as long as was asked for.
LEMMA PageIsFull ==
    ASSUME TypeOK, NEW cur \in Nat, NEW limit \in Limits,
           NEW out \in inbox, cur < out, out \notin Page(cur, limit)
    PROVE  Cardinality(Page(cur, limit)) = limit /\ limit # 0
<1> DEFINE P == Page(cur, limit)
<1> DEFINE Upto(k) == {m \in inbox : cur < m /\ m <= k}
<1>1. inbox \subseteq Nat /\ limit \in Nat /\ limit # 0 /\ lastId \in Nat
    BY InboxAssumption DEF InboxAssumption, TypeOK
<1>2. /\ P \in SUBSET inbox
      /\ \A i \in inbox : i \in P <=> cur < i /\ Cardinality(Upto(i)) <= limit
      /\ \A i \in inbox : \A j \in P : cur < i /\ i <= j => i \in P
    BY PageIsRun DEF Page
<1>3. IsFiniteSet(P) /\ Cardinality(P) \in Nat
    BY <1>2, InboxFinite
<1>4. \A i \in inbox : Upto(i) \in SUBSET inbox
    OBVIOUS
<1>5. \A i \in inbox : IsFiniteSet(Upto(i)) /\ Cardinality(Upto(i)) \in Nat
    BY <1>4, InboxFinite
<1> HIDE DEF P
<1>6. Cardinality(P) <= limit
    <2>1. CASE P = {}
        BY <1>1, <2>1, FS_EmptySet
    <2>2. CASE P # {}
        <3> DEFINE B == {lastId - j : j \in P}
        <3>1. P \in SUBSET (1..lastId)
            BY <1>2 DEF TypeOK
        <3>2. PICK b \in B : \A c \in B : b <= c
            <4>1. \A j \in P : lastId - j \in Nat
                BY <1>1, <3>1
            <4>2. B \in SUBSET Nat /\ B # {}
                BY <2>2, <4>1
            <4> HIDE DEF B
            <4> QED
                BY <4>2, LeastNat
        <3>3. PICK m \in P : b = lastId - m
            OBVIOUS
        <3>4. \A j \in P : j <= m
            BY <1>1, <3>1, <3>2, <3>3
        <3>5. P \in SUBSET Upto(m)
            <4>1. \A j \in P : j \in inbox /\ cur < j
                BY <1>2
            <4> QED
                BY <3>4, <4>1
        <3>6. m \in inbox /\ Cardinality(Upto(m)) <= limit
            BY <1>2
        <3>7. IsFiniteSet(Upto(m)) /\ Cardinality(Upto(m)) \in Nat
            BY <1>5, <3>6
        <3> HIDE DEF Upto
        <3>8. Cardinality(P) <= Cardinality(Upto(m))
            BY <3>5, <3>7, FS_Subset
        <3> QED
            BY <1>1, <1>3, <3>6, <3>7, <3>8
    <2> QED
        BY <2>1, <2>2
<1>7. limit <= Cardinality(P)
    <2> DEFINE B == {i \in inbox : cur < i /\ i \notin P}
    <2>1. PICK o \in B : \A j \in B : o <= j
        <3>1. B \in SUBSET Nat /\ B # {}
            BY <1>1 DEF P
        <3> HIDE DEF B
        <3> QED
            BY <3>1, LeastNat
    <2>2. o \in inbox /\ cur < o /\ o \notin P
        OBVIOUS
    <2>3. Upto(o) = P \cup {o}
        <3>1. ASSUME NEW j \in Upto(o), j # o PROVE j \in P
            BY <1>1, <2>1, <3>1
        <3>2. ASSUME NEW j \in P PROVE j \in Upto(o)
            <4>1. j \in inbox /\ cur < j /\ j \in Nat /\ o \in Nat
                BY <1>1, <1>2, <2>2
            <4>2. ~(o <= j)
                BY <1>2, <2>2
            <4> QED
                BY <4>1, <4>2
        <3>3. o \in Upto(o)
            BY <1>1, <2>2
        <3> QED
            BY <3>1, <3>2, <3>3
    <2>4. ~(Cardinality(Upto(o)) <= limit)
        BY <1>2, <2>2
    <2>5. Cardinality(P \cup {o}) = Cardinality(P) + 1
        BY <1>3, <2>2, FS_AddElement
    <2> QED
        BY <1>1, <1>3, <2>3, <2>4, <2>5
<1> QED
    BY <1>1, <1>3, <1>6, <1>7 DEF P

\* The cursor never passes anything unacknowledged.
LEMMA UnreadIsUnacked == IInv => Unread = Live(inbox) \ acked
<1> SUFFICES ASSUME IInv PROVE Unread = Live(inbox) \ acked
    OBVIOUS
<1>1. \A i \in inbox : i <= cursor => i \in acked
    BY DEF IInv, CursorCovered
<1>2. inbox \subseteq Nat /\ cursor \in Nat
    BY InboxAssumption DEF InboxAssumption, IInv, TypeOK
<1>3. \A i \in inbox : i \notin acked => cursor < i
    BY <1>1, <1>2
<1> QED
    BY <1>3 DEF Unread, Waiting, Live

\* Only an append makes something unread.
LEMMA UnreadShrinks ==
    ASSUME IInv, IInv', [Next]_vars
    PROVE  \A i \in Unread' : i \in 1..lastId => i \in Unread
<1>0. (IInv => Unread = Live(inbox) \ acked)'
    BY UnreadIsUnacked, PTL
<1>1. Unread = Live(inbox) \ acked /\ Unread' = (Live(inbox) \ acked)'
    BY <1>0, UnreadIsUnacked
<1>2. \A i \in inbox' : i \in 1..lastId => i \in inbox
    <2>1. ASSUME NEW trimTo \in 0..lastId, AppendMessage(trimTo)
          PROVE  \A i \in inbox' : i \in 1..lastId => i \in inbox
        <3>1. lastId \in Nat
            BY InboxAssumption DEF InboxAssumption, IInv, TypeOK
        <3> QED
            BY <2>1, <3>1 DEF AppendMessage
    <2>2. ASSUME NEW f \in Fetchers, Fetch(f) PROVE inbox' = inbox
        BY <2>2 DEF Fetch, FetchGet, FetchRange, FetchNothing, FetchAdvance, FetchFilter,
                    FetchReply, FetchDies, storeVars
    <2> QED
        BY <2>1, <2>2 DEF Next, Expire, ReaperDelete, vars
<1>3. acked \subseteq acked'
    <2>1. ASSUME NEW f \in Fetchers, Fetch(f) PROVE acked \subseteq acked'
        BY <2>1 DEF Fetch, FetchGet, FetchRange, FetchNothing, FetchAdvance, FetchFilter,
                    FetchReply, FetchDies, history
    <2> QED
        BY <2>1 DEF Next, AppendMessage, Expire, ReaperDelete, history, vars
<1>4. expired \subseteq expired'
    BY MailGrowsStep DEF IInv, MailGrows
<1> QED
    BY <1>1, <1>2, <1>3, <1>4 DEF Live

\* A step that is not a trigger's makes no mail due.
LEMMA DueShrinks ==
    ASSUME IInv, IInv', Shape, [OpenNext]_openVars, due' = due
    PROVE  DueUnread' \subseteq DueUnread
<1>1. due \subseteq 1..lastId
    BY DEF Shape, IdsKnown
<1> QED
    BY <1>1, OpenStepIsInboxStep, UnreadShrinks DEF DueUnread, Shape

\* What the drain has yet to read is past the cursor it starts from.
LEMMA UnreadPastStart ==
    ASSUME IInv, NEW f \in Fetchers, pc[f] \in {"range", "advance"}
    PROVE  \A i \in Unread : i \in inbox /\ start[f] < i
<1>1. \A i \in inbox : i <= start[f] => i \in acked
    BY DEF IInv, StartCovered
<1>2. inbox \subseteq Nat /\ start[f] \in Nat
    BY InboxAssumption DEF InboxAssumption, IInv, TypeOK
<1>3. ASSUME NEW i \in inbox, i \notin acked PROVE start[f] < i
    <2>1. i \in Nat /\ ~(i <= start[f])
        BY <1>1, <1>2, <1>3
    <2> QED
        BY <1>2, <2>1
<1> QED
    BY <1>3, UnreadIsUnacked DEF Live

LEMMA DueQuiet ==
    ASSUME IInv, IInv', Shape, DueIsAhead, [OpenNext]_openVars,
           UNCHANGED <<drain, mine, again, full, due, broken, short>>,
           mine # NoRequest => pc'[mine] = pc[mine] /\ page'[mine] = page[mine],
           disposed => disposed'
    PROVE  DueIsAhead'
<1>1. DueUnread' \subseteq DueUnread
    BY DueShrinks
<1>2. mine # NoRequest => (FullPage' <=> FullPage)
    BY DEF FullPage
<1> QED
    BY <1>1, <1>2 DEF DueIsAhead, TriggersHonoured, DueUnread, relaying

LEMMA DueFetch ==
    ASSUME IInv, IInv', Shape, DueIsAhead, DrainFetch
    PROVE  DueIsAhead'
<1>1. /\ drain = "fetch" /\ drain' \in {"fetch", "empty"}
      /\ UNCHANGED <<disposed, again, full, due, broken>>
    BY DEF DrainFetch, Shape, Requests
<1>2. DueUnread' \subseteq DueUnread
    BY <1>1, DueShrinks DEF OpenNext, DrainInbox
<1>3. /\ mine \in Fetchers /\ mine # NoRequest /\ PageSize \in Limits
      /\ pc \in [Fetchers -> PcStates] /\ page \in [Fetchers -> SUBSET (1..lastId)]
    BY RequestFacts DEF DrainFetch, Shape, Requests, IInv, TypeOK
<1>4. start[mine] \in Nat
    BY <1>3, InboxAssumption DEF InboxAssumption, IInv, TypeOK
<1> USE DEF DueIsAhead, TriggersHonoured, relaying
<1>5. CASE FetchRange(mine, PageSize) /\ UNCHANGED <<mine, drain>>
    <2>1. /\ pc'[mine] = "advance" /\ pc[mine] = "range"
          /\ page'[mine] = Page(start[mine], PageSize)
        BY <1>3, <1>5 DEF FetchRange
    <2>2. ASSUME NEW i \in DueUnread, i \notin page'[mine]
          PROVE  Cardinality(page'[mine]) = PageSize
        <3>1. i \in inbox /\ start[mine] < i
            BY <1>3, <2>1, <2>2, UnreadPastStart DEF DueUnread
        <3> QED
            BY <1>3, <1>4, <2>1, <2>2, <3>1, PageIsFull DEF IInv
    <2>3. DueUnread' \subseteq page'[mine] \/ FullPage'
        BY <1>2, <1>5, <2>2 DEF FullPage
    <2> QED
        BY <1>1, <1>5, <2>1, <2>3
<1>6. CASE FetchNothing(mine, PageSize) /\ mine' = NoRequest /\ drain' = "empty"
    <2>1. pc[mine] = "range" /\ Page(start[mine], PageSize) = {}
        BY <1>6 DEF FetchNothing
    <2>2. ASSUME NEW i \in DueUnread PROVE FALSE
        <3>1. i \in inbox /\ start[mine] < i
            BY <1>3, <2>1, UnreadPastStart DEF DueUnread
        <3>2. Cardinality({}) = PageSize /\ PageSize # 0
            BY <1>3, <1>4, <2>1, <3>1, PageIsFull DEF IInv
        <3> QED
            BY <3>2, FS_EmptySet
    <2> QED
        BY <1>2, <1>6, <2>2
<1>7. CASE (\E last \in page[mine] : FetchAdvance(mine, last)) /\ UNCHANGED <<mine, drain>>
    <2>1. /\ pc[mine] = "advance" /\ pc'[mine] = "filter"
          /\ page' = page /\ acked' = acked \cup page[mine]
        BY <1>3, <1>7 DEF FetchAdvance
    <2>2. \A i \in Unread' : i \notin page[mine]
        <3>1. (IInv => Unread = Live(inbox) \ acked)'
            BY UnreadIsUnacked, PTL
        <3> QED
            BY <2>1, <3>1
    <2>3. ~again => DueUnread \subseteq page[mine] \/ FullPage
        BY <1>3, <2>1
    <2>4. ~again => DueUnread' = {} \/ FullPage'
        BY <1>1, <1>2, <1>7, <2>1, <2>2, <2>3 DEF DueUnread, FullPage
    <2> QED
        BY <1>1, <1>7, <2>1, <2>4
<1>8. CASE FetchFilter(mine) /\ short' = (page'[mine] # page[mine]) /\ UNCHANGED <<mine, drain>>
    <2>1. pc[mine] = "filter" /\ pc'[mine] = "reply"
        BY <1>3, <1>8 DEF FetchFilter
    <2>2. ~short' => (FullPage' <=> FullPage)
        BY <1>8 DEF FullPage
    <2> QED
        BY <1>1, <1>2, <1>3, <1>8, <2>1, <2>2
<1> QED
    BY <1>5, <1>6, <1>7, <1>8 DEF DrainFetch

LEMMA DueAnswered ==
    ASSUME IInv, IInv', Shape, DueIsAhead,
           NEW messages \in {{}} \cup {page[f] : f \in Fetchers}, DrainAnswered(messages)
    PROVE  DueIsAhead'
<1>1. /\ drain' = "next" /\ mine' = NoRequest /\ UNCHANGED <<again, due, short>>
      /\ full' = (Cardinality(messages) = PageSize)
    BY DEF DrainAnswered
<1>2. DueUnread' \subseteq DueUnread
    BY <1>1, DueShrinks DEF OpenNext, DrainInbox
<1>3. ~again /\ ~short => DueUnread = {} \/ full'
    BY <1>1 DEF DrainAnswered, Answered, FetchReply, DueIsAhead, FullPage
<1> QED
    BY <1>1, <1>2, <1>3 DEF DueIsAhead, TriggersHonoured, relaying

LEMMA DueStep ==
    ASSUME IInv, IInv', Shape, DueIsAhead, [OpenNext]_openVars
    PROVE  DueIsAhead'
<1> USE DEF pluginVars, drainVars, requestVars, streamVars, fetchVars, vars
<1>1. ASSUME Server PROVE DueIsAhead'
    <2>1. /\ UNCHANGED <<drain, mine, again, full, due, broken, short, disposed>>
          /\ pc' = pc /\ page' = page
        BY <1>1 DEF Server, Chat, AppendMessage, Retention, ReaperDelete, Expire
    <2> QED
        BY <2>1, DueQuiet
<1>2. ASSUME Connect \/ StreamDrops \/ NudgeHeld \/ Dispose PROVE DueIsAhead'
    BY <1>2, DueQuiet DEF Connect, StreamDrops, NudgeHeld, Dispose
<1>3. ASSUME Hook \/ Nudge PROVE DueIsAhead'
    <2>1. CASE StartDrain /\ mine' = mine
        <3>1. drain' = "fetch" /\ mine' = NoRequest
            BY <2>1 DEF StartDrain, relaying, Shape, Requests
        <3> QED
            BY <3>1 DEF DueIsAhead, TriggersHonoured, relaying
    <2>2. CASE SkipDrain
        BY <2>2 DEF SkipDrain, DueIsAhead, TriggersHonoured, relaying
    <2> QED
        BY <1>3, <2>1, <2>2 DEF Hook, Nudge
<1>4. ASSUME NEW f \in Fetchers, DrainRequests(f) PROVE DueIsAhead'
    <2>1. drain' = "fetch" /\ mine' = f /\ pc'[f] = "range"
        BY <1>4 DEF DrainRequests, FetchGet, IInv, TypeOK
    <2> QED
        BY <2>1 DEF DueIsAhead, TriggersHonoured, relaying
<1>5. ASSUME DrainFetch PROVE DueIsAhead'
    BY <1>5, DueFetch
<1>6. ASSUME NEW messages \in {{}} \cup {page[f] : f \in Fetchers}, DrainAnswered(messages)
      PROVE  DueIsAhead'
    BY <1>6, DueAnswered
<1>7. ASSUME DrainFetchFails \/ DrainAnswerTorn PROVE DueIsAhead'
    BY <1>7 DEF DrainFetchFails, DrainAnswerTorn, Breaks, Finish, DueIsAhead, TriggersHonoured,
                relaying
<1>8. ASSUME NEW started \in BOOLEAN, WakeFails(started) PROVE DueIsAhead'
    BY <1>8 DEF WakeFails, Finish, DueIsAhead, TriggersHonoured, relaying, Shape, Requests
<1>9. ASSUME SkipSeen PROVE DueIsAhead'
    BY <1>9, DueQuiet DEF SkipSeen
<1>10. ASSUME WakeStart \/ WakeDone PROVE DueIsAhead'
    <2>1. /\ drain \in {"next", "wake"} /\ drain' \in {"next", "wake"}
          /\ UNCHANGED <<mine, again, full, due, short>>
        BY <1>10 DEF WakeStart, WakeDone
    <2>2. DueUnread' \subseteq DueUnread
        BY <2>1, DueShrinks
    <2> QED
        BY <2>1, <2>2 DEF DueIsAhead, TriggersHonoured, relaying, Shape, Requests
<1>11. ASSUME DrainLoops PROVE DueIsAhead'
    <2>1. drain' = "fetch" /\ mine' = NoRequest
        BY <1>11 DEF DrainLoops, Shape, Requests
    <2> QED
        BY <2>1 DEF DueIsAhead, TriggersHonoured, relaying
<1>12. ASSUME DrainEnds PROVE DueIsAhead'
    <2>1. /\ drain = "next" /\ drain' = "off" /\ UNCHANGED <<mine, disposed, due, short>>
          /\ ~disposed => ~again /\ ~full
        BY <1>12 DEF DrainEnds, Finish
    <2>2. DueUnread' \subseteq DueUnread
        BY <2>1, DueShrinks
    <2> QED
        BY <2>1, <2>2
        DEF DueIsAhead, TriggersHonoured, relaying, DueUnread, Shape, Requests
<1>13. ASSUME NEW f \in Fetchers, ToolFetch(f) \/ ToolShows(f) \/ AbandonedFetch(f)
       PROVE  DueIsAhead'
    <2>1. Fetch(f) /\ f # mine
        BY <1>13, RequestFacts DEF ToolFetch, ToolShows, AbandonedFetch, Fetch, Shape, Requests
    <2>2. mine # NoRequest => pc'[mine] = pc[mine] /\ page'[mine] = page[mine]
        BY <2>1, OneFetchMoves DEF Shape, Requests, IInv
    <2> QED
        BY <1>13, <2>2, DueQuiet DEF ToolFetch, ToolShows, AbandonedFetch
<1>14. ASSUME UNCHANGED openVars PROVE DueIsAhead'
    BY <1>14, DueQuiet DEF openVars
<1> QED
    BY <1>1, <1>2, <1>3, <1>4, <1>5, <1>6, <1>7, <1>8, <1>9, <1>10, <1>11, <1>12, <1>13, <1>14
    DEF OpenNext, Relay, DrainInbox

(* No trigger is dropped (muster-chat.js:118-120, 151): when no drain runs,   *)
(* no mail that was unread at one is still unread, unless the last drain      *)
(* broke off, the plugin was disposed of, or expired entries made its last    *)
(* page look like the end.                                                    *)
THEOREM TriggersHonouredHolds == OpenSafety => []TriggersHonoured
<1>1. OpenInit => DueIsAhead
    BY DEF OpenInit, DueIsAhead, TriggersHonoured
<1>2. OpenInv /\ OpenInv' /\ DueIsAhead /\ [OpenNext]_openVars => DueIsAhead'
    BY DueStep DEF OpenInv
<1>3. DueIsAhead => TriggersHonoured
    BY DEF DueIsAhead
<1> QED
    BY <1>1, <1>2, <1>3, OpenInvariantHolds, PTL DEF OpenSafety
=============================================================================
