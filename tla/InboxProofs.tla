---------------------------- MODULE InboxProofs ----------------------------
(* Proofs about module Inbox, for any number of concurrent fetches, messages, *)
(* page sizes and any MAXLEN.                                                 *)
EXTENDS Inbox, FiniteSetTheorems, TLAPS

----------------------------------------------------------------------------
(* The inductive invariant.  What a fetch has read is good for the SET it     *)
(* will do later because of two facts that survive everything the others do:  *)
(* the entries at or below the cursor it read were acknowledged, and its page *)
(* has no holes.                                                              *)

EmptyHanded == \A f \in Fetchers : pc[f] \in {"idle", "range"} => page[f] = {}

CursorCovered == \A i \in inbox : i <= cursor => i \in acked

StartCovered ==
    \A f \in Fetchers : pc[f] \in {"range", "advance"} =>
        \A i \in inbox : i <= start[f] => i \in acked

PageHasNoHoles ==
    \A f \in Fetchers : pc[f] = "advance" =>
        \A i \in inbox : \A j \in page[f] :
            start[f] < i /\ i <= j => i \in page[f]

\* Acknowledged mail is a prefix of what the stream holds.
AckedIsPrefix == \A i \in inbox : \A j \in acked : i < j => i \in acked

InAnswer(i) ==
    \E f \in Fetchers : pc[f] \in {"filter", "reply"} /\ i \in page[f]

AckedAccounted ==
    \A i \in acked : i \in shown \/ i \in lost \/ InAnswer(i) \/ i \in expired

AnswersAcked ==
    /\ shown \subseteq acked
    /\ \A f \in Fetchers : pc[f] \in {"filter", "reply"} => page[f] \subseteq acked

IInv ==
    /\ TypeOK
    /\ EmptyHanded
    /\ CursorCovered
    /\ StartCovered
    /\ PageHasNoHoles
    /\ AckedIsPrefix
    /\ AckedAccounted
    /\ AnswersAcked

\* While no two fetches have overlapped, what is past a cursor is unread.
Alone ==
    /\ repeated = {}
    /\ \A f, g \in Fetchers : pc[f] # "idle" /\ pc[g] # "idle" => f = g
    /\ \A i \in inbox : cursor < i => i \notin acked
    /\ \A f \in Fetchers : pc[f] \in {"range", "advance"} =>
           \A i \in inbox : start[f] < i => i \notin acked
    /\ \A f \in Fetchers : pc[f] = "advance" =>
           \A i \in page[f] : start[f] < i /\ i \notin acked
    /\ \A f \in Fetchers : pc[f] \in {"filter", "reply"} =>
           \A i \in page[f] : i \notin shown

OnceInv == ~overlap => Alone

----------------------------------------------------------------------------
(* What XRANGE returns.                                                       *)

LEMMA InboxFinite ==
    ASSUME TypeOK, NEW S \in SUBSET inbox
    PROVE  IsFiniteSet(S) /\ Cardinality(S) \in Nat
<1>1. IsFiniteSet(1..lastId)
    BY FS_Interval, InboxAssumption DEF InboxAssumption, TypeOK
<1>2. S \in SUBSET (1..lastId)
    BY DEF TypeOK
<1>3. IsFiniteSet(S)
    BY <1>1, <1>2, FS_Subset
<1> QED
    BY <1>3, FS_CardinalityType

(* A page is a gapless run of the stream that starts right after the cursor   *)
(* (store.py:97-100).                                                         *)
LEMMA PageIsRun ==
    ASSUME TypeOK, NEW cur \in Nat, NEW limit \in Limits
    PROVE  /\ Page(cur, limit) \subseteq inbox
           /\ \A i \in Page(cur, limit) : cur < i
           /\ \A i \in inbox : \A j \in Page(cur, limit) :
                  cur < i /\ i <= j => i \in Page(cur, limit)
<1>1. Page(cur, limit) \subseteq inbox /\ \A i \in Page(cur, limit) : cur < i
    BY DEF Page
<1>2. ASSUME NEW i \in inbox, NEW j \in Page(cur, limit), cur < i, i <= j
      PROVE  i \in Page(cur, limit)
    <2> DEFINE Upto(k) == {m \in inbox : cur < m /\ m <= k}
    <2>0. inbox \subseteq Nat
        BY InboxAssumption DEF TypeOK
    <2>1. i \in Nat /\ j \in Nat /\ j \in inbox
        BY <1>1, <2>0
    <2>9. \A m \in inbox : cur < m /\ m <= i => cur < m /\ m <= j
        BY <1>2, <2>0, <2>1
    <2>2. Upto(i) \in SUBSET Upto(j) /\ Upto(j) \in SUBSET inbox /\ Upto(i) \in SUBSET inbox
        BY <2>9
    <2>3. IsFiniteSet(Upto(j)) /\ Cardinality(Upto(j)) \in Nat /\ Cardinality(Upto(i)) \in Nat
        BY <2>2, InboxFinite
    <2>4. Cardinality(Upto(i)) <= Cardinality(Upto(j))
        BY <2>2, <2>3, FS_Subset
    <2>5. Cardinality(Upto(j)) <= limit
        BY DEF Page
    <2>6. limit \in Nat
        BY InboxAssumption DEF InboxAssumption
    <2>7. Cardinality(Upto(i)) <= limit
        BY <2>3, <2>4, <2>5, <2>6
    <2> QED
        BY <1>2, <2>7 DEF Page
<1> QED
    BY <1>1, <1>2

LEMMA PageType ==
    ASSUME TypeOK, NEW f \in Fetchers, NEW limit \in Limits
    PROVE  Page(start[f], limit) \in SUBSET (1..lastId)
BY DEF TypeOK, Page

----------------------------------------------------------------------------
(* Type correctness: in every reachable state each variable is what the code  *)
(* keeps in it, and no id below any of them is one Valkey never gave out      *)
(* (store.py:86-113).                                                         *)

LEMMA TypeInit == Init => TypeOK
<1> SUFFICES ASSUME Init PROVE TypeOK
    OBVIOUS
<1>1. lastId \in 0..MaxMsgs
    BY InboxAssumption DEF InboxAssumption, Init
<1>2. /\ inbox \in SUBSET (1..lastId)
      /\ acked \in SUBSET (1..lastId)
      /\ shown \in SUBSET (1..lastId)
      /\ repeated \in SUBSET (1..lastId)
      /\ lost \in SUBSET (1..lastId)
    BY DEF Init
<1>3. cursor \in 0..lastId /\ expired \in SUBSET (1..lastId)
    BY DEF Init
<1>4. pc \in [Fetchers -> PcStates]
    BY DEF Init, PcStates
<1>5. start \in [Fetchers -> 0..lastId]
    BY DEF Init
<1>6. page \in [Fetchers -> SUBSET (1..lastId)]
    BY DEF Init
<1>7. overlap \in BOOLEAN
    BY DEF Init
<1> QED
    BY <1>1, <1>2, <1>3, <1>4, <1>5, <1>6, <1>7 DEF TypeOK

LEMMA TypeStep == TypeOK /\ [Next]_vars => TypeOK'
<1> SUFFICES ASSUME TypeOK, [Next]_vars PROVE TypeOK'
    OBVIOUS
<1> USE InboxAssumption DEF InboxAssumption, TypeOK, PcStates, storeVars, fetchVars, history
<1>1. ASSUME NEW trimTo \in 0..lastId, AppendMessage(trimTo) PROVE TypeOK'
    <2>1. lastId' \in 0..MaxMsgs /\ lastId' = lastId + 1 /\ lastId \in Nat
        BY <1>1 DEF AppendMessage
    <2>2. 0..lastId \subseteq 0..lastId' /\ 1..lastId \subseteq 1..lastId'
        BY <2>1
    <2>3. inbox' \in SUBSET (1..lastId')
        <3>1. inbox' \subseteq inbox \cup {lastId'}
            BY <1>1 DEF AppendMessage
        <3>2. lastId' \in 1..lastId'
            BY <2>1
        <3> QED
            BY <2>2, <3>1, <3>2
    <2>4. UNCHANGED <<cursor, expired, fetchVars, history>>
        BY <1>1 DEF AppendMessage
    <2>5. start' \in [Fetchers -> 0..lastId'] /\ page' \in [Fetchers -> SUBSET (1..lastId')]
        BY <2>2, <2>4
    <2> QED
        BY <2>1, <2>2, <2>3, <2>4, <2>5
<1>2. ASSUME NEW t \in 1..lastId, Expire(t) PROVE TypeOK'
    BY <1>2 DEF Expire
<1>3. CASE ReaperDelete
    BY <1>3 DEF ReaperDelete
<1>4. ASSUME NEW f \in Fetchers, FetchGet(f) PROVE TypeOK'
    BY <1>4 DEF FetchGet
<1>5. ASSUME NEW f \in Fetchers, NEW limit \in Limits, FetchRange(f, limit) PROVE TypeOK'
    BY <1>5, PageType DEF FetchRange
<1>6. ASSUME NEW f \in Fetchers, NEW limit \in Limits, FetchNothing(f, limit) PROVE TypeOK'
    BY <1>6 DEF FetchNothing
<1>7. ASSUME NEW f \in Fetchers, NEW last \in page[f], FetchAdvance(f, last) PROVE TypeOK'
    <2>1. page[f] \in SUBSET (1..lastId)
        OBVIOUS
    <2>2. cursor' \in 0..lastId'
        BY <1>7, <2>1 DEF FetchAdvance
    <2>3. acked' \in SUBSET (1..lastId')
        BY <1>7, <2>1 DEF FetchAdvance
    <2> QED
        BY <1>7, <2>2, <2>3 DEF FetchAdvance
<1>8. ASSUME NEW f \in Fetchers, FetchFilter(f) PROVE TypeOK'
    BY <1>8 DEF FetchFilter, Live
<1>9. ASSUME NEW f \in Fetchers, FetchReply(f) PROVE TypeOK'
    <2>1. start' \in [Fetchers -> 0..lastId'] /\ page' \in [Fetchers -> SUBSET (1..lastId')]
        BY <1>9 DEF FetchReply
    <2>2. page[f] \in SUBSET (1..lastId)
        OBVIOUS
    <2> QED
        BY <1>9, <2>1, <2>2 DEF FetchReply
<1>10. ASSUME NEW f \in Fetchers, FetchDies(f) PROVE TypeOK'
    <2>1. start' \in [Fetchers -> 0..lastId'] /\ page' \in [Fetchers -> SUBSET (1..lastId')]
        BY <1>10 DEF FetchDies
    <2>2. page[f] \in SUBSET (1..lastId)
        OBVIOUS
    <2> QED
        BY <1>10, <2>1, <2>2 DEF FetchDies
<1>11. CASE UNCHANGED vars
    BY <1>11 DEF vars
<1> QED
    BY <1>1, <1>2, <1>3, <1>4, <1>5, <1>6, <1>7, <1>8, <1>9, <1>10, <1>11 DEF Next, Fetch

THEOREM TypeCorrect == Spec => []TypeOK
BY TypeInit, TypeStep, PTL DEF Spec

----------------------------------------------------------------------------
(* IInv is inductive.                                                         *)

LEMMA InvInit == Init => IInv
BY TypeInit DEF Init, IInv, EmptyHanded, CursorCovered, StartCovered, PageHasNoHoles,
                AckedIsPrefix, AckedAccounted, AnswersAcked

LEMMA InvStep == IInv /\ [Next]_vars => IInv'
<1> SUFFICES ASSUME IInv, [Next]_vars PROVE IInv'
    OBVIOUS
<1> USE DEF IInv, PcStates, storeVars, fetchVars, history
<1>a. TypeOK /\ TypeOK'
    BY TypeStep
<1>b. /\ inbox \subseteq Nat /\ inbox' \subseteq Nat /\ acked \subseteq Nat
      /\ cursor \in Nat /\ lastId \in Nat
      /\ \A f \in Fetchers : start[f] \in Nat /\ page[f] \subseteq Nat
    BY <1>a, InboxAssumption DEF InboxAssumption, TypeOK
<1>c. pc \in [Fetchers -> PcStates] /\ DOMAIN start = Fetchers /\ DOMAIN page = Fetchers
    BY <1>a DEF TypeOK
<1>1. ASSUME NEW trimTo \in 0..lastId, AppendMessage(trimTo) PROVE IInv'
    <2>1. /\ inbox' \subseteq inbox \cup {lastId + 1}
          /\ UNCHANGED <<cursor, expired, fetchVars, history>>
        BY <1>1 DEF AppendMessage
    <2>2. /\ cursor < lastId + 1
          /\ \A j \in acked : j < lastId + 1
          /\ \A f \in Fetchers : start[f] < lastId + 1
          /\ \A f \in Fetchers : \A j \in page[f] : j < lastId + 1
        BY <1>a, <1>b DEF TypeOK
    <2>3. CursorCovered'
        <3> SUFFICES ASSUME NEW i \in inbox', i <= cursor PROVE i \in acked
            BY <2>1 DEF CursorCovered
        <3>1. i # lastId + 1
            BY <1>b, <2>2
        <3> QED
            BY <2>1, <3>1 DEF CursorCovered
    <2>4. StartCovered'
        <3> SUFFICES ASSUME NEW f \in Fetchers, pc[f] \in {"range", "advance"},
                            NEW i \in inbox', i <= start[f]
                     PROVE  i \in acked
            BY <2>1 DEF StartCovered
        <3>1. i # lastId + 1
            BY <1>b, <2>2
        <3> QED
            BY <2>1, <3>1 DEF StartCovered
    <2>5. PageHasNoHoles'
        <3> SUFFICES ASSUME NEW f \in Fetchers, pc[f] = "advance",
                            NEW i \in inbox', NEW j \in page[f], start[f] < i, i <= j
                     PROVE  i \in page[f]
            BY <2>1 DEF PageHasNoHoles
        <3>1. i # lastId + 1
            BY <1>b, <2>2
        <3> QED
            BY <2>1, <3>1 DEF PageHasNoHoles
    <2>6. AckedIsPrefix'
        <3> SUFFICES ASSUME NEW i \in inbox', NEW j \in acked, i < j PROVE i \in acked
            BY <2>1 DEF AckedIsPrefix
        <3>1. i # lastId + 1
            BY <1>b, <2>2
        <3> QED
            BY <2>1, <3>1 DEF AckedIsPrefix
    <2>7. EmptyHanded' /\ AckedAccounted' /\ AnswersAcked'
        BY <2>1 DEF EmptyHanded, AckedAccounted, AnswersAcked, InAnswer
    <2> QED
        BY <1>a, <2>3, <2>4, <2>5, <2>6, <2>7
<1>4. ASSUME NEW f \in Fetchers, FetchGet(f) PROVE IInv'
    <2>1. StartCovered'
        <3> SUFFICES ASSUME NEW g \in Fetchers, pc'[g] \in {"range", "advance"},
                            NEW i \in inbox, i <= start'[g]
                     PROVE  i \in acked
            BY <1>4 DEF FetchGet, StartCovered
        <3>1. CASE g = f
            BY <1>4, <1>c, <3>1 DEF FetchGet, CursorCovered
        <3>2. CASE g # f
            BY <1>4, <1>c, <3>2 DEF FetchGet, StartCovered
        <3> QED
            BY <3>1, <3>2
    <2>2. EmptyHanded' /\ CursorCovered' /\ PageHasNoHoles' /\ AckedIsPrefix'
        BY <1>c, <1>4 DEF FetchGet, EmptyHanded, CursorCovered, PageHasNoHoles, AckedIsPrefix
    <2>3. AckedAccounted' /\ AnswersAcked'
        BY <1>c, <1>4 DEF FetchGet, AckedAccounted, AnswersAcked, InAnswer
    <2> QED
        BY <1>a, <2>1, <2>2, <2>3
<1>5. ASSUME NEW f \in Fetchers, NEW limit \in Limits, FetchRange(f, limit) PROVE IInv'
    <2>1. PageHasNoHoles'
        <3> SUFFICES ASSUME NEW g \in Fetchers, pc'[g] = "advance",
                            NEW i \in inbox, NEW j \in page'[g], start[g] < i, i <= j
                     PROVE  i \in page'[g]
            BY <1>5 DEF FetchRange, PageHasNoHoles
        <3>1. CASE g = f
            BY <1>5, <1>a, <1>b, <1>c, <3>1, PageIsRun DEF FetchRange
        <3>2. CASE g # f
            BY <1>5, <1>c, <3>2 DEF FetchRange, PageHasNoHoles
        <3> QED
            BY <3>1, <3>2
    <2>2. EmptyHanded' /\ CursorCovered' /\ StartCovered' /\ AckedIsPrefix'
        BY <1>c, <1>5 DEF FetchRange, EmptyHanded, CursorCovered, StartCovered, AckedIsPrefix
    <2>3. AckedAccounted' /\ AnswersAcked'
        BY <1>c, <1>5 DEF FetchRange, AckedAccounted, AnswersAcked, InAnswer
    <2> QED
        BY <1>a, <2>1, <2>2, <2>3
<1>7. ASSUME NEW f \in Fetchers, NEW last \in page[f], FetchAdvance(f, last) PROVE IInv'
    <2>1. /\ pc[f] = "advance" /\ cursor' = last /\ acked' = acked \cup page[f]
          /\ \A j \in page[f] : j <= last
          /\ pc' = [pc EXCEPT ![f] = "filter"]
          /\ UNCHANGED <<inbox, start, page, shown, lost, expired>>
        BY <1>7 DEF FetchAdvance, IsLast
    <2>2. \A i \in inbox : i <= last => i \in acked'
        <3> SUFFICES ASSUME NEW i \in inbox, i <= last PROVE i \in acked'
            OBVIOUS
        <3>1. i <= start[f] \/ start[f] < i
            BY <1>b
        <3>2. CASE i <= start[f]
            BY <2>1, <3>2 DEF StartCovered
        <3>3. CASE start[f] < i
            BY <2>1, <3>3 DEF PageHasNoHoles
        <3> QED
            BY <3>1, <3>2, <3>3
    <2>3. CursorCovered'
        BY <2>1, <2>2 DEF CursorCovered
    <2>4. AckedIsPrefix'
        <3> SUFFICES ASSUME NEW i \in inbox, NEW j \in acked \cup page[f], i < j
                     PROVE  i \in acked'
            BY <2>1 DEF AckedIsPrefix
        <3>1. CASE j \in acked
            BY <2>1, <3>1 DEF AckedIsPrefix
        <3>2. CASE j \in page[f]
            BY <1>b, <2>1, <2>2, <3>2
        <3> QED
            BY <3>1, <3>2
    <2>5. EmptyHanded' /\ StartCovered' /\ PageHasNoHoles'
        BY <1>c, <2>1 DEF EmptyHanded, StartCovered, PageHasNoHoles
    <2>6. AckedAccounted'
        BY <1>c, <2>1 DEF AckedAccounted, InAnswer
    <2>7. AnswersAcked'
        BY <1>c, <2>1 DEF AnswersAcked
    <2> QED
        BY <1>a, <2>3, <2>4, <2>5, <2>6, <2>7
<1>2. ASSUME NEW t \in 1..lastId, Expire(t) PROVE IInv'
    <2>1. EmptyHanded' /\ CursorCovered' /\ StartCovered'
        BY <1>b, <1>c, <1>2 DEF Expire, EmptyHanded, CursorCovered, StartCovered
    <2>2. PageHasNoHoles' /\ AckedIsPrefix'
        BY <1>c, <1>2 DEF Expire, PageHasNoHoles, AckedIsPrefix
    <2>3. AckedAccounted'
        BY <1>b, <1>c, <1>2 DEF Expire, AckedAccounted, InAnswer
    <2>4. AnswersAcked'
        BY <1>c, <1>2 DEF Expire, AnswersAcked
    <2> QED
        BY <1>a, <2>1, <2>2, <2>3, <2>4
<1>3. CASE ReaperDelete
    <2>1. EmptyHanded' /\ CursorCovered' /\ StartCovered'
        BY <1>b, <1>c, <1>3 DEF ReaperDelete, EmptyHanded, CursorCovered, StartCovered
    <2>2. PageHasNoHoles' /\ AckedIsPrefix'
        BY <1>c, <1>3 DEF ReaperDelete, PageHasNoHoles, AckedIsPrefix
    <2>3. AckedAccounted'
        BY <1>b, <1>c, <1>3 DEF ReaperDelete, AckedAccounted, InAnswer
    <2>4. AnswersAcked'
        BY <1>c, <1>3 DEF ReaperDelete, AnswersAcked
    <2> QED
        BY <1>a, <2>1, <2>2, <2>3, <2>4
<1>6. ASSUME NEW f \in Fetchers, NEW limit \in Limits, FetchNothing(f, limit) PROVE IInv'
    <2>1. EmptyHanded' /\ CursorCovered' /\ StartCovered'
        BY <1>b, <1>c, <1>6 DEF FetchNothing, EmptyHanded, CursorCovered, StartCovered
    <2>2. PageHasNoHoles' /\ AckedIsPrefix'
        BY <1>c, <1>6 DEF FetchNothing, PageHasNoHoles, AckedIsPrefix
    <2>3. AckedAccounted'
        BY <1>b, <1>c, <1>6 DEF FetchNothing, AckedAccounted, InAnswer
    <2>4. AnswersAcked'
        BY <1>c, <1>6 DEF FetchNothing, AnswersAcked
    <2> QED
        BY <1>a, <2>1, <2>2, <2>3, <2>4
<1>8. ASSUME NEW f \in Fetchers, FetchFilter(f) PROVE IInv'
    <2>1. EmptyHanded' /\ CursorCovered' /\ StartCovered'
        BY <1>b, <1>c, <1>8 DEF FetchFilter, EmptyHanded, CursorCovered, StartCovered, Live
    <2>2. PageHasNoHoles' /\ AckedIsPrefix'
        BY <1>c, <1>8 DEF FetchFilter, PageHasNoHoles, AckedIsPrefix
    <2>3. AckedAccounted'
        BY <1>b, <1>c, <1>8 DEF FetchFilter, AckedAccounted, InAnswer, Live
    <2>4. AnswersAcked'
        BY <1>c, <1>8 DEF FetchFilter, AnswersAcked, Live
    <2> QED
        BY <1>a, <2>1, <2>2, <2>3, <2>4
<1>9. ASSUME NEW f \in Fetchers, FetchReply(f) PROVE IInv'
    <2>1. EmptyHanded' /\ CursorCovered' /\ StartCovered'
        BY <1>b, <1>c, <1>9 DEF FetchReply, EmptyHanded, CursorCovered, StartCovered
    <2>2. PageHasNoHoles' /\ AckedIsPrefix'
        BY <1>c, <1>9 DEF FetchReply, PageHasNoHoles, AckedIsPrefix
    <2>3. AckedAccounted'
        BY <1>b, <1>c, <1>9 DEF FetchReply, AckedAccounted, InAnswer
    <2>4. AnswersAcked'
        BY <1>c, <1>9 DEF FetchReply, AnswersAcked
    <2> QED
        BY <1>a, <2>1, <2>2, <2>3, <2>4
<1>10. ASSUME NEW f \in Fetchers, FetchDies(f) PROVE IInv'
    <2>1. EmptyHanded' /\ CursorCovered' /\ StartCovered'
        BY <1>b, <1>c, <1>10 DEF FetchDies, EmptyHanded, CursorCovered, StartCovered
    <2>2. PageHasNoHoles' /\ AckedIsPrefix'
        BY <1>c, <1>10 DEF FetchDies, PageHasNoHoles, AckedIsPrefix
    <2>3. AckedAccounted'
        BY <1>b, <1>c, <1>10 DEF FetchDies, AckedAccounted, InAnswer
    <2>4. AnswersAcked'
        BY <1>c, <1>10 DEF FetchDies, AnswersAcked
    <2> QED
        BY <1>a, <2>1, <2>2, <2>3, <2>4
<1>11. CASE UNCHANGED vars
    BY <1>11 DEF vars, TypeOK, EmptyHanded, CursorCovered, StartCovered, PageHasNoHoles,
                 AckedIsPrefix, AckedAccounted, AnswersAcked, InAnswer
<1> QED
    BY <1>1, <1>2, <1>3, <1>4, <1>5, <1>6, <1>7, <1>8, <1>9, <1>10, <1>11 DEF Next, Fetch

THEOREM InvariantHolds == Spec => []IInv
BY InvInit, InvStep, PTL DEF Spec

----------------------------------------------------------------------------
(* The cursor never moves over good mail that nobody was handed, whatever     *)
(* fetches, XADD's trimming and the reaper do in between (store.py:97-113).   *)

LEMMA InReplyIsAnswer == \A i : InAnswer(i) => i \in InReply
BY DEF InAnswer, InReply

LEMMA InvNoSilentSkip == IInv => NoSilentSkip
<1> SUFFICES ASSUME IInv, NEW i \in inbox, i \notin expired, i <= cursor
             PROVE  i \in shown \cup lost \cup InReply
    BY DEF NoSilentSkip, Live
<1>1. i \in acked
    BY DEF IInv, CursorCovered
<1> QED
    BY <1>1, InReplyIsAnswer DEF IInv, AckedAccounted

THEOREM NoSilentSkipHolds == Spec => []NoSilentSkip
BY InvariantHolds, InvNoSilentSkip, PTL

(* No message overtakes an older one that could still be read, even after a   *)
(* stale SET moved the cursor back (store.py:109).                            *)

LEMMA InvNothingOvertakes == IInv => NothingOvertakes
<1> SUFFICES ASSUME IInv, NEW i \in inbox, i \notin expired, NEW j \in shown, i < j
             PROVE  i \in shown \cup lost \cup InReply
    BY DEF NothingOvertakes, Live
<1>1. i \in acked
    BY DEF IInv, AckedIsPrefix, AnswersAcked
<1> QED
    BY <1>1, InReplyIsAnswer DEF IInv, AckedAccounted

THEOREM NothingOvertakesHolds == Spec => []NothingOvertakes
BY InvariantHolds, InvNothingOvertakes, PTL

----------------------------------------------------------------------------
(* A message comes again only by fetches that overlap.                        *)

LEMMA OnceInit == Init => OnceInv
BY DEF Init, OnceInv, Alone

LEMMA OnceStep == IInv /\ OnceInv /\ [Next]_vars => OnceInv'
<1> SUFFICES ASSUME IInv, OnceInv, [Next]_vars, ~overlap' PROVE Alone'
    BY DEF OnceInv
<1> USE DEF PcStates, storeVars, fetchVars, history
<1>a. TypeOK /\ AnswersAcked
    BY DEF IInv
<1>b. /\ inbox \subseteq Nat /\ acked \subseteq Nat /\ cursor \in Nat /\ lastId \in Nat
      /\ \A f \in Fetchers : start[f] \in Nat /\ page[f] \subseteq Nat
    BY <1>a, InboxAssumption DEF InboxAssumption, TypeOK
<1>c. pc \in [Fetchers -> PcStates] /\ DOMAIN start = Fetchers /\ DOMAIN page = Fetchers
    BY <1>a DEF TypeOK
<1>d. ~overlap
    BY <1>a DEF TypeOK, Next, Fetch, vars, AppendMessage, Expire, ReaperDelete, FetchGet, FetchRange,
           FetchNothing, FetchAdvance, FetchFilter, FetchReply, FetchDies
<1>e. Alone
    BY <1>d DEF OnceInv
<1>1. ASSUME NEW trimTo \in 0..lastId, AppendMessage(trimTo) PROVE Alone'
    <2>1. /\ inbox' \subseteq inbox \cup {lastId + 1}
          /\ UNCHANGED <<cursor, expired, fetchVars, history>>
        BY <1>1 DEF AppendMessage
    <2>2. lastId + 1 \notin acked
        BY <1>a, <1>b DEF TypeOK
    <2> QED
        BY <1>e, <2>1, <2>2 DEF Alone
<1>2. ASSUME NEW t \in 1..lastId, Expire(t) PROVE Alone'
    BY <1>2, <1>e DEF Expire, Alone
<1>3. CASE ReaperDelete
    BY <1>3, <1>e DEF ReaperDelete, Alone
<1>4. ASSUME NEW f \in Fetchers, FetchGet(f) PROVE Alone'
    <2>1. \A g \in Fetchers : pc[g] = "idle"
        BY <1>4 DEF FetchGet
    <2>2. \A g \in Fetchers : pc'[g] = IF g = f THEN "range" ELSE "idle"
        BY <1>4, <1>c, <2>1 DEF FetchGet
    <2>3. start'[f] = cursor /\ UNCHANGED <<inbox, cursor, page, acked, shown, repeated>>
        BY <1>4, <1>c DEF FetchGet
    <2> QED
        BY <1>e, <2>2, <2>3 DEF Alone
<1>5. ASSUME NEW f \in Fetchers, NEW limit \in Limits, FetchRange(f, limit) PROVE Alone'
    <2>1. /\ pc[f] = "range" /\ pc' = [pc EXCEPT ![f] = "advance"]
          /\ page' = [page EXCEPT ![f] = Page(start[f], limit)]
          /\ UNCHANGED <<inbox, cursor, start, acked, shown, repeated>>
        BY <1>5 DEF FetchRange
    <2>2. \A i \in Page(start[f], limit) : i \in inbox /\ start[f] < i
        BY <1>a, <1>b, PageIsRun
    <2>3. \A i \in page'[f] : start[f] < i /\ i \notin acked
        BY <1>c, <1>e, <2>1, <2>2 DEF Alone
    <2> QED
        BY <1>c, <1>e, <2>1, <2>3 DEF Alone
<1>6. ASSUME NEW f \in Fetchers, NEW limit \in Limits, FetchNothing(f, limit) PROVE Alone'
    BY <1>6, <1>c, <1>e DEF FetchNothing, Alone
<1>7. ASSUME NEW f \in Fetchers, NEW last \in page[f], FetchAdvance(f, last) PROVE Alone'
    <2>1. /\ pc[f] = "advance" /\ cursor' = last /\ acked' = acked \cup page[f]
          /\ \A j \in page[f] : j <= last
          /\ pc' = [pc EXCEPT ![f] = "filter"]
          /\ UNCHANGED <<inbox, start, page, shown, repeated>>
        BY <1>7 DEF FetchAdvance, IsLast
    <2>2. start[f] < last
        BY <1>e, <2>1 DEF Alone
    <2>3. \A i \in inbox : last < i => i \notin acked'
        BY <1>b, <1>e, <2>1, <2>2 DEF Alone
    <2>4. \A i \in page[f] : i \notin shown
        BY <1>a, <1>e, <2>1 DEF Alone, AnswersAcked
    <2>5. \A g \in Fetchers : g # f => pc[g] = "idle"
        BY <1>c, <1>e, <2>1 DEF Alone
    <2> QED
        BY <1>c, <1>e, <2>1, <2>3, <2>4, <2>5 DEF Alone
<1>8. ASSUME NEW f \in Fetchers, FetchFilter(f) PROVE Alone'
    BY <1>8, <1>c, <1>e DEF FetchFilter, Alone, Live
<1>9. ASSUME NEW f \in Fetchers, FetchReply(f) PROVE Alone'
    BY <1>9, <1>c, <1>e DEF FetchReply, Alone
<1>10. ASSUME NEW f \in Fetchers, FetchDies(f) PROVE Alone'
    BY <1>10, <1>c, <1>e DEF FetchDies, Alone
<1>11. CASE UNCHANGED vars
    BY <1>11, <1>e DEF vars, Alone
<1> QED
    BY <1>1, <1>2, <1>3, <1>4, <1>5, <1>6, <1>7, <1>8, <1>9, <1>10, <1>11 DEF Next, Fetch

(* Death, trimming, expiry and the reaper alone never repeat a message: it    *)
(* takes two fetches in flight together (store.py:97-113).                    *)
THEOREM RepeatsOnlyAfterOverlapHolds == Spec => []RepeatsOnlyAfterOverlap
<1>1. OnceInv => RepeatsOnlyAfterOverlap
    BY DEF OnceInv, Alone, RepeatsOnlyAfterOverlap
<1> QED
    BY <1>1, InvariantHolds, OnceInit, OnceStep, PTL DEF Spec

----------------------------------------------------------------------------
(* The inbox implements the contract of module Mailbox.                       *)

LEMMA ContractInit == Init => Contract!Init
BY DEF Init, Contract!Init, Waiting, Gone, Live

LEMMA ContractStep == IInv /\ [Next]_vars => [Contract!Next]_(Contract!vars)
<1> SUFFICES ASSUME IInv, [Next]_vars PROVE [Contract!Next]_(Contract!vars)
    OBVIOUS
<1> USE DEF storeVars, fetchVars, history
<1> DEFINE Same == UNCHANGED <<1..lastId, Waiting, acked, Gone>>
<1>0. Same => UNCHANGED Contract!vars
    BY DEF Contract!vars
<1>a. TypeOK /\ TypeOK'
    BY TypeStep DEF IInv
<1>b. /\ inbox \subseteq Nat /\ acked \subseteq 1..lastId /\ inbox \subseteq 1..lastId
      /\ cursor \in 0..lastId /\ lastId \in Nat /\ expired \subseteq 1..lastId /\ MaxMsgs \in Nat
    BY <1>a, InboxAssumption DEF InboxAssumption, TypeOK
<1>1. ASSUME NEW trimTo \in 0..lastId, AppendMessage(trimTo) PROVE Contract!Next
    <2> DEFINE new == lastId + 1
               D   == {i \in 1..lastId : i \notin inbox' \/ i \in expired}
    <2>1. /\ inbox' = {i \in inbox \cup {new} : trimTo < i}
          /\ new \in inbox' /\ lastId' = new /\ lastId < MaxMsgs
          /\ UNCHANGED <<cursor, expired, acked>>
        BY <1>1 DEF AppendMessage
    <2>2. new \in Ids /\ new \notin 1..lastId
        BY <1>b, <2>1 DEF Ids
    <2>3. 1..lastId' = (1..lastId) \cup {new}
        BY <1>b, <2>1
    <2>4. \A i \in 1..lastId : i \in inbox' => i \in inbox
        BY <1>b, <2>1
    <2>5. new \notin expired /\ cursor < new
        BY <1>b
    <2>7. Gone' = Gone \cup D
        BY <2>1, <2>2, <2>3, <2>4, <2>5 DEF Gone, Live
    <2>8. Waiting' = (Waiting \ D) \cup {new}
        <3>1. ASSUME NEW i \in Waiting' PROVE i \in (Waiting \ D) \cup {new}
            BY <1>b, <2>1, <2>4, <3>1 DEF Waiting, Live
        <3>2. ASSUME NEW i \in Waiting, i \notin D PROVE i \in Waiting'
            BY <1>b, <2>1, <3>2 DEF Waiting, Live
        <3>3. new \in Waiting'
            BY <2>1, <2>5 DEF Waiting, Live
        <3> QED
            BY <3>1, <3>2, <3>3
    <2>9. Contract!Accept(new, D)
        BY <2>1, <2>2, <2>3, <2>7, <2>8 DEF Contract!Accept
    <2> QED
        BY <2>2, <2>9 DEF Contract!Next
<1>2. ASSUME NEW t \in 1..lastId, Expire(t) PROVE Contract!Next
    <2> DEFINE D == {t}
    <2>1. expired' = expired \cup {t} /\ UNCHANGED <<inbox, lastId, cursor, acked>>
        BY <1>2 DEF Expire
    <2>2. D \in SUBSET (1..lastId)
        BY <1>b
    <2>3. Gone' = Gone \cup D
        <3>1. ASSUME NEW i \in Gone' PROVE i \in Gone \cup D
            BY <1>b, <2>1, <3>1 DEF Gone, Live
        <3>2. ASSUME NEW i \in Gone \cup D PROVE i \in Gone'
            BY <1>b, <2>1, <2>2, <3>2 DEF Gone, Live
        <3> QED
            BY <3>1, <3>2
    <2>4. Waiting' = Waiting \ D
        <3>1. ASSUME NEW i \in inbox PROVE i \notin expired' <=> (i \notin expired /\ i \notin D)
            BY <1>b, <2>1
        <3> QED
            BY <2>1, <3>1 DEF Waiting, Live
    <2>5. Contract!Drop(D)
        BY <2>1, <2>3, <2>4 DEF Contract!Drop
    <2> QED
        BY <2>2, <2>5 DEF Contract!Next
<1>3. CASE ReaperDelete
    <2>1. inbox' = {} /\ UNCHANGED <<lastId, expired, acked>>
        BY <1>3 DEF ReaperDelete
    <2>2. Waiting' = {} /\ Gone' = 1..lastId
        BY <2>1 DEF Waiting, Gone, Live
    <2>3. Waiting \subseteq 1..lastId /\ Gone \subseteq 1..lastId
        BY <1>b DEF Waiting, Gone, Live
    <2>4. Contract!Drop(1..lastId)
        BY <2>1, <2>2, <2>3 DEF Contract!Drop
    <2> QED
        BY <2>4 DEF Contract!Next
<1>4. ASSUME NEW f \in Fetchers, NEW last \in page[f], FetchAdvance(f, last) PROVE Contract!Next
    <2>1. /\ pc[f] = "advance" /\ cursor' = last /\ acked' = acked \cup page[f]
          /\ UNCHANGED <<inbox, lastId, expired>>
        BY <1>4 DEF FetchAdvance
    <2>2. page[f] \in SUBSET (1..lastId)
        BY <1>a DEF TypeOK
    <2>3. CursorCovered /\ CursorCovered'
        BY InvStep DEF IInv
    <2>4. Waiting' \in SUBSET ((1..lastId) \ Gone)
        BY <1>b, <2>1 DEF Waiting, Gone, Live
    <2>5. last \in Nat /\ cursor \in Nat
        BY <1>b, <2>2
    <2>6. Waiting' \ acked' = Waiting \ acked'
        <3>1. ASSUME NEW i \in inbox, i \notin acked' PROVE cursor < i /\ last < i
            BY <1>b, <2>1, <2>3, <2>5, <3>1 DEF CursorCovered
        <3> QED
            BY <2>1, <3>1 DEF Waiting, Live
    <2>7. Contract!Answer(page[f], Waiting')
        BY <2>1, <2>6 DEF Contract!Answer, Gone, Live
    <2> QED
        BY <2>2, <2>4, <2>7 DEF Contract!Next
<1>5. ASSUME NEW f \in Fetchers,
             \/ FetchGet(f)
             \/ \E limit \in Limits : FetchRange(f, limit) \/ FetchNothing(f, limit)
             \/ FetchFilter(f) \/ FetchReply(f) \/ FetchDies(f)
      PROVE  Same
    BY <1>5 DEF FetchGet, FetchRange, FetchNothing, FetchFilter, FetchReply, FetchDies,
                Waiting, Gone, Live
<1>6. CASE UNCHANGED vars
    BY <1>6, <1>0 DEF vars, Waiting, Gone, Live
<1> QED
    BY <1>0, <1>1, <1>2, <1>3, <1>4, <1>5, <1>6 DEF Next, Fetch

(* The stream, cursor and four-step fetches implement the contract: a message *)
(* that no fetch was handed leaves the unread mail only by expiry, trimming   *)
(* or the reaper (store.py:86-113, reaper.py:16).                             *)
THEOREM InboxKeepsContract == Spec => KeepsContract
<1>1. Init => Contract!Init
    BY ContractInit
<1>2. IInv /\ [Next]_vars => [Contract!Next]_(Contract!vars)
    BY ContractStep
<1> QED
    BY <1>1, <1>2, InvariantHolds, PTL DEF Spec, KeepsContract, Contract!Spec

(* Hence every message ever stored is unread, was handed to a fetch, or was   *)
(* dropped by retention (spec-v2:216 lists the same three ends).              *)
THEOREM NothingVanishesHolds == Spec => []Contract!NothingVanishes
<1> DEFINE Inv == Contract!NothingVanishes
<1>1. Contract!Init => Inv
    BY DEF Contract!Init, Contract!NothingVanishes
<1>2. Inv /\ [Contract!Next]_(Contract!vars) => Inv'
    <2> SUFFICES ASSUME Inv, [Contract!Next]_(Contract!vars) PROVE Inv'
        OBVIOUS
    <2> USE DEF Contract!NothingVanishes
    <2>1. ASSUME NEW m \in Ids, NEW D \in SUBSET (1..lastId), Contract!Accept(m, D) PROVE Inv'
        BY <2>1 DEF Contract!Accept
    <2>2. ASSUME NEW D \in SUBSET (1..lastId), Contract!Drop(D) PROVE Inv'
        BY <2>2 DEF Contract!Drop
    <2>3. ASSUME NEW S \in SUBSET (1..lastId), NEW W \in SUBSET ((1..lastId) \ Gone),
                 Contract!Answer(S, W)
          PROVE  Inv'
        BY <2>3 DEF Contract!Answer
    <2>4. CASE UNCHANGED Contract!vars
        BY <2>4 DEF Contract!vars
    <2> QED
        BY <2>1, <2>2, <2>3, <2>4 DEF Contract!Next
<1> QED
    BY <1>1, <1>2, InboxKeepsContract, PTL DEF KeepsContract, Contract!Spec
=============================================================================
