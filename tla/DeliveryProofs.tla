--------------------------- MODULE DeliveryProofs ---------------------------
(* Proofs about module Delivery, for any number of chats, fetches, messages   *)
(* and lost connections, and any size of the unread check's window.           *)
EXTENDS Delivery, InboxProofs

----------------------------------------------------------------------------
(* Delivery takes the inbox only through the steps of module Inbox, so all    *)
(* that is proved of Inbox holds here.                                        *)

LEMMA DeliveryStepIsInboxStep == [DeliveryNext]_deliveryVars => [Next]_vars
<1> SUFFICES ASSUME [DeliveryNext]_deliveryVars PROVE [Next]_vars
    OBVIOUS
<1>1. ASSUME NEW s \in Senders, NEW trimTo \in 0..lastId, ChatStore(s, trimTo)
      PROVE  Next
    BY <1>1 DEF ChatStore, Next
<1>2. ASSUME NEW s \in Senders, ChatPublish(s) \/ ChatDies(s) PROVE UNCHANGED vars
    BY <1>2 DEF ChatPublish, ChatDies, inboxVars
<1>3. ASSUME Stream PROVE UNCHANGED vars
    BY <1>3 DEF Stream, StreamSubscribe, StreamCountGet, StreamCountRange, StreamForward,
                inboxVars
<1>4. ASSUME Shim \/ StreamDrops \/ ShimRestarts PROVE UNCHANGED vars
    BY <1>4 DEF Shim, ShimReceives, ShimReceivesUnread, StreamDrops, ShimRestarts, inboxVars
<1>5. ASSUME NEW f \in Fetchers, AgentFetch(f) PROVE Next
    BY <1>5 DEF AgentFetch, Next
<1>6. ASSUME Retention PROVE Next
    BY <1>6 DEF Retention, Next
<1>7. ASSUME UNCHANGED deliveryVars PROVE UNCHANGED vars
    BY <1>7 DEF deliveryVars, inboxVars
<1> QED
    BY <1>1, <1>2, <1>3, <1>4, <1>5, <1>6, <1>7 DEF DeliveryNext, Chat

(* Delivery implements Inbox: chats, streams and shims add nothing to what    *)
(* can happen to the inbox and the cursor (stream.py:30-71, store.py:92-94).  *)
THEOREM DeliveryImplementsInbox == DeliverySafety => Spec
<1>1. DeliveryInit => Init
    BY DEF DeliveryInit
<1> QED
    BY <1>1, DeliveryStepIsInboxStep, PTL DEF DeliverySafety, Spec

----------------------------------------------------------------------------
(* What any step may do to the mail.                                          *)

MailMoves ==
    /\ \A i \in inbox' : i \in inbox \/ i = lastId + 1
    /\ lastId' = lastId \/ lastId' = lastId + 1
    /\ \A i \in acked : i \in acked'
    /\ \A i \in expired : i \in expired'

LEMMA MailMovesStep ==
    ASSUME TypeOK, [Next]_vars
    PROVE  MailMoves
<1>0. lastId \in Nat
    BY InboxAssumption DEF InboxAssumption, TypeOK
<1>1. ASSUME NEW trimTo \in 0..lastId, AppendMessage(trimTo) PROVE MailMoves
    BY <1>0, <1>1 DEF AppendMessage, history, MailMoves
<1>2. ASSUME NEW t \in 1..lastId, Expire(t) PROVE MailMoves
    BY <1>0, <1>2 DEF Expire, history, MailMoves
<1>3. ASSUME ReaperDelete PROVE MailMoves
    BY <1>0, <1>3 DEF ReaperDelete, history, MailMoves
<1>4. ASSUME NEW f \in Fetchers, Fetch(f) PROVE MailMoves
    <2>1. UNCHANGED <<inbox, lastId, expired>> /\ \A i \in acked : i \in acked'
        BY <1>4 DEF Fetch, FetchGet, FetchRange, FetchNothing, FetchAdvance, FetchFilter,
                    FetchReply, FetchDies, storeVars, history
    <2> QED
        BY <1>0, <2>1 DEF MailMoves
<1>5. ASSUME UNCHANGED vars PROVE MailMoves
    BY <1>0, <1>5 DEF vars, MailMoves
<1> QED
    BY <1>1, <1>2, <1>3, <1>4, <1>5 DEF Next

----------------------------------------------------------------------------
(* Type correctness.                                                          *)

LEMMA DeliveryTypeInit == DeliveryInit => DeliveryTypeOK
<1> SUFFICES ASSUME DeliveryInit PROVE DeliveryTypeOK
    OBVIOUS
<1>1. TypeOK
    BY TypeInit DEF DeliveryInit
<1>2. lastId = 0
    BY DEF DeliveryInit, Init
<1>3. toPublish \in [Senders -> 0..lastId] /\ countFrom \in 0..lastId
    BY <1>2 DEF DeliveryInit
<1>4. drops \in 0..MaxDrops
    BY DeliveryAssumption DEF DeliveryAssumption, DeliveryInit
<1> QED
    BY <1>1, <1>3, <1>4 DEF DeliveryTypeOK, DeliveryInit

LEMMA DeliveryTypeStep == DeliveryTypeOK /\ [DeliveryNext]_deliveryVars => DeliveryTypeOK'
<1> SUFFICES ASSUME DeliveryTypeOK, [DeliveryNext]_deliveryVars PROVE DeliveryTypeOK'
    OBVIOUS
<1>1. TypeOK /\ TypeOK'
    BY TypeStep, DeliveryStepIsInboxStep DEF DeliveryTypeOK
<1>2. MailMoves
    BY <1>1, MailMovesStep, DeliveryStepIsInboxStep
<1>3. /\ lastId \in Nat /\ lastId' \in Nat /\ lastId <= lastId'
      /\ inbox \subseteq 1..lastId /\ cursor \in 0..lastId /\ MaxDrops \in Nat
    BY <1>1, <1>2, InboxAssumption, DeliveryAssumption
       DEF TypeOK, MailMoves, InboxAssumption, DeliveryAssumption
<1>4. /\ \A i \in 0..lastId : i \in 0..lastId'
      /\ \A i \in 1..lastId : i \in 1..lastId'
    BY <1>3
<1>5. ASSUME NEW s \in Senders, NEW trimTo \in 0..lastId, ChatStore(s, trimTo)
      PROVE  DeliveryTypeOK'
    <2>1. lastId' = lastId + 1
        BY <1>5 DEF ChatStore, AppendMessage
    <2>2. toPublish' = [toPublish EXCEPT ![s] = lastId + 1]
        BY <1>5 DEF ChatStore
    <2>3. toPublish' \in [Senders -> 0..lastId']
        BY <1>3, <1>4, <2>1, <2>2 DEF DeliveryTypeOK
    <2>4. UNCHANGED <<streamVars, shimVars, faultVars>>
        BY <1>5 DEF ChatStore
    <2> QED
        BY <1>1, <1>4, <2>3, <2>4 DEF DeliveryTypeOK, streamVars, shimVars, faultVars
<1>6. ASSUME NEW s \in Senders, ChatPublish(s) \/ ChatDies(s) PROVE DeliveryTypeOK'
    <2>1. /\ toPublish' = [toPublish EXCEPT ![s] = 0] /\ toPublish[s] # 0
          /\ UNCHANGED <<vars, stream, countFrom, wire, backlog, seen, told, uncounted,
                         orphans, drops>>
        BY <1>6 DEF ChatPublish, ChatDies, inboxVars, streamVars, shimVars, faultVars
    <2>2. toPublish[s] \in 1..lastId /\ lastId' = lastId
        BY <1>3, <2>1 DEF DeliveryTypeOK, vars
    <2>3. toPublish' \in [Senders -> 0..lastId']
        BY <1>3, <2>1, <2>2 DEF DeliveryTypeOK
    <2>4. channel' \subseteq 1..lastId' /\ missed' \subseteq 1..lastId'
        BY <1>6, <2>2 DEF ChatPublish, ChatDies, DeliveryTypeOK, streamVars, shimVars
    <2>5. stream = "down" => channel' = channel
        BY <1>6 DEF ChatPublish, ChatDies, streamVars
    <2> QED
        BY <1>1, <2>1, <2>2, <2>3, <2>4, <2>5 DEF DeliveryTypeOK
<1>7. ASSUME StreamSubscribe \/ StreamCountGet PROVE DeliveryTypeOK'
    <2>1. /\ UNCHANGED <<vars, toPublish, channel, wire, backlog, shimVars, faultVars>>
          /\ stream # "up" /\ stream' \in {"subscribed", "counting"}
          /\ countFrom' \in {countFrom, cursor}
        BY <1>7 DEF StreamSubscribe, StreamCountGet, inboxVars
    <2>2. lastId' = lastId
        BY <2>1 DEF vars
    <2> QED
        BY <1>1, <1>3, <2>1, <2>2 DEF DeliveryTypeOK, shimVars, faultVars
<1>8. ASSUME StreamCountRange PROVE DeliveryTypeOK'
    <2>1. /\ UNCHANGED <<vars, toPublish, channel, wire, seen, told, faultVars>>
          /\ stream' = "up" /\ countFrom' = 0 /\ missed' = {}
        BY <1>8 DEF StreamCountRange, inboxVars
    <2>2. backlog' \subseteq inbox /\ uncounted' \subseteq inbox
        BY <1>8 DEF StreamCountRange, Live
    <2>3. lastId' = lastId
        BY <2>1 DEF vars
    <2>4. stream = "counting" /\ countFrom' \in 0..lastId'
        BY <1>3, <1>8, <2>1 DEF StreamCountRange
    <2>5. backlog' \subseteq 1..lastId' /\ uncounted' \subseteq 1..lastId'
        BY <1>3, <2>2, <2>3
    <2>6. channel' \cup wire' \cup backlog' \subseteq 1..lastId'
        BY <2>1, <2>3, <2>5 DEF DeliveryTypeOK
    <2>7. seen' \cup told' \cup missed' \cup uncounted' \subseteq 1..lastId'
        BY <2>1, <2>3, <2>5 DEF DeliveryTypeOK
    <2>8. /\ toPublish' \in [Senders -> 0..lastId']
          /\ orphans' \in SUBSET Fetchers /\ drops' \in 0..MaxDrops
        BY <2>1, <2>3 DEF DeliveryTypeOK, faultVars
    <2> QED
        BY <1>1, <2>1, <2>4, <2>6, <2>7, <2>8 DEF DeliveryTypeOK
<1>9. ASSUME NEW i \in channel, StreamForward(i) PROVE DeliveryTypeOK'
    <2>1. /\ UNCHANGED <<vars, toPublish, stream, countFrom, backlog, shimVars, faultVars>>
          /\ stream = "up" /\ channel' = channel \ {i} /\ wire' = wire \cup {i}
        BY <1>9 DEF StreamForward, inboxVars
    <2>2. lastId' = lastId
        BY <2>1 DEF vars
    <2> QED
        BY <1>1, <1>9, <2>1, <2>2 DEF DeliveryTypeOK, shimVars, faultVars
<1>10. ASSUME NEW i \in wire, NEW pushed \in BOOLEAN, ShimReceives(i, pushed)
       PROVE  DeliveryTypeOK'
    <2>1. /\ UNCHANGED <<vars, toPublish, stream, countFrom, channel, backlog, uncounted,
                         faultVars>>
          /\ wire' = wire \ {i} /\ seen' = seen \cup {i}
          /\ told' \subseteq told \cup {i} /\ missed' \subseteq missed \cup {i}
        BY <1>10 DEF ShimReceives, inboxVars
    <2>2. lastId' = lastId
        BY <2>1 DEF vars
    <2> QED
        BY <1>1, <1>10, <2>1, <2>2 DEF DeliveryTypeOK, faultVars
<1>11. ASSUME NEW pushed \in BOOLEAN, ShimReceivesUnread(pushed) PROVE DeliveryTypeOK'
    <2>1. /\ UNCHANGED <<vars, toPublish, stream, countFrom, channel, wire, seen, uncounted,
                         faultVars>>
          /\ backlog' = {}
          /\ told' \subseteq told \cup backlog /\ missed' \subseteq missed \cup backlog
        BY <1>11 DEF ShimReceivesUnread, inboxVars
    <2>2. lastId' = lastId
        BY <2>1 DEF vars
    <2> QED
        BY <1>1, <2>1, <2>2 DEF DeliveryTypeOK, faultVars
<1>12. ASSUME StreamDrops PROVE DeliveryTypeOK'
    <2>1. /\ UNCHANGED <<vars, toPublish, seen, told, uncounted, orphans>>
          /\ stream' = "down" /\ countFrom' = 0
          /\ channel' = {} /\ wire' = {} /\ backlog' = {}
          /\ missed' = missed \cup channel \cup wire \cup backlog
          /\ drops < MaxDrops /\ drops' = drops + 1
        BY <1>12 DEF StreamDrops, inboxVars
    <2>2. lastId' = lastId /\ drops' \in 0..MaxDrops
        BY <1>3, <2>1 DEF vars, DeliveryTypeOK
    <2> QED
        BY <1>1, <1>3, <2>1, <2>2 DEF DeliveryTypeOK
<1>13. ASSUME ShimRestarts PROVE DeliveryTypeOK'
    <2>1. /\ UNCHANGED <<vars, toPublish>>
          /\ stream' = "down" /\ countFrom' = 0
          /\ channel' = {} /\ wire' = {} /\ backlog' = {}
          /\ seen' = {} /\ told' = {} /\ missed' = {} /\ uncounted' = {}
          /\ orphans' \subseteq Fetchers
          /\ drops < MaxDrops /\ drops' = drops + 1
        BY <1>13 DEF ShimRestarts, inboxVars
    <2>2. lastId' = lastId /\ drops' \in 0..MaxDrops
        BY <1>3, <2>1 DEF vars, DeliveryTypeOK
    <2> QED
        BY <1>1, <1>3, <2>1, <2>2 DEF DeliveryTypeOK
<1>14. ASSUME NEW f \in Fetchers, AgentFetch(f) PROVE DeliveryTypeOK'
    <2>1. /\ UNCHANGED <<toPublish, streamVars, shimVars, drops>>
          /\ orphans' \subseteq orphans
        BY <1>14 DEF AgentFetch
    <2>2. toPublish' \in [Senders -> 0..lastId']
        BY <1>4, <2>1 DEF DeliveryTypeOK
    <2> QED
        BY <1>1, <1>4, <2>1, <2>2 DEF DeliveryTypeOK, streamVars, shimVars
<1>15. ASSUME Retention PROVE DeliveryTypeOK'
    <2>1. UNCHANGED <<toPublish, streamVars, shimVars, faultVars>>
        BY <1>15 DEF Retention
    <2>2. toPublish' \in [Senders -> 0..lastId']
        BY <1>4, <2>1 DEF DeliveryTypeOK
    <2> QED
        BY <1>1, <1>4, <2>1, <2>2 DEF DeliveryTypeOK, streamVars, shimVars, faultVars
<1>16. ASSUME UNCHANGED deliveryVars PROVE DeliveryTypeOK'
    <2>1. UNCHANGED <<lastId, toPublish, streamVars, shimVars, faultVars>>
        BY <1>16 DEF deliveryVars, inboxVars, vars
    <2> QED
        BY <1>1, <2>1 DEF DeliveryTypeOK, streamVars, shimVars, faultVars
<1> QED
    BY <1>5, <1>6, <1>7, <1>8, <1>9, <1>10, <1>11, <1>12, <1>13, <1>14, <1>15, <1>16
       DEF DeliveryNext, Chat, Stream, Shim

(* Every nudge, event and history variable speaks of messages that were       *)
(* stored, a stream that is down has no subscription, and only one that is up *)
(* has anything on the wire (stream.py:36-71).                                *)
THEOREM DeliveryTypeCorrect == DeliverySafety => []DeliveryTypeOK
BY DeliveryTypeInit, DeliveryTypeStep, PTL DEF DeliverySafety

----------------------------------------------------------------------------
(* What makes the unread check sound: between its two awaits the mail at or   *)
(* below the cursor it has read stays acknowledged, wherever the cursor goes. *)

CountCovered ==
    stream = "counting" => \A i \in inbox : i <= countFrom => i \in acked

Reported(i) ==
    \/ i \in told \/ i \in missed \/ i \in uncounted
    \/ i \in channel \/ i \in wire \/ i \in backlog
    \/ i \in Publishing

NudgeCovered ==
    stream = "up" =>
        \A i \in inbox : i \notin expired /\ i \notin acked => Reported(i)

\* A nudge is at one place only, so the shim's LRU never swallows a fresh one.
NudgeOnce ==
    /\ \A i \in wire : i \notin seen /\ i \notin channel
    /\ \A i \in channel : i \notin seen
    /\ \A s \in Senders : toPublish[s] # 0 =>
           toPublish[s] \notin channel \cup wire \cup seen
    /\ \A r, s \in Senders : toPublish[r] = toPublish[s] /\ toPublish[s] # 0 => r = s

DeliveryInv ==
    /\ IInv
    /\ DeliveryTypeOK
    /\ NudgeOnce
    /\ CountCovered
    /\ NudgeCovered

\* The unread mail of the inbox is its unacknowledged live mail.
LEMMA UnreadMail ==
    ASSUME IInv
    PROVE  \A i : i \in Waiting \ acked <=> i \in inbox /\ i \notin expired /\ i \notin acked
<1>1. /\ cursor \in Nat /\ \A i \in inbox : i \in Nat
      /\ \A i \in inbox : i <= cursor => i \in acked
    BY InboxAssumption DEF InboxAssumption, IInv, TypeOK, CursorCovered
<1> QED
    BY <1>1 DEF Waiting, Live

LEMMA DeliveryInvInit == DeliveryInit => DeliveryInv
<1> SUFFICES ASSUME DeliveryInit PROVE DeliveryInv
    OBVIOUS
<1>1. IInv /\ DeliveryTypeOK
    BY InvInit, DeliveryTypeInit DEF DeliveryInit
<1>2. stream = "down"
    BY DEF DeliveryInit
<1> QED
    BY <1>1, <1>2 DEF DeliveryInv, DeliveryInit, NudgeOnce, CountCovered, NudgeCovered

LEMMA CountCoveredStep ==
    ASSUME DeliveryInv, [DeliveryNext]_deliveryVars
    PROVE  CountCovered'
<1>1. IInv /\ DeliveryTypeOK /\ TypeOK /\ CountCovered
    BY DEF DeliveryInv, IInv
<1>2. MailMoves
    BY <1>1, MailMovesStep, DeliveryStepIsInboxStep
<1>3. /\ lastId \in Nat /\ cursor \in Nat /\ countFrom \in Nat
      /\ countFrom <= lastId /\ cursor <= lastId
    BY <1>1, InboxAssumption DEF InboxAssumption, TypeOK, DeliveryTypeOK
<1>4. ASSUME UNCHANGED <<stream, countFrom>> PROVE CountCovered'
    BY <1>1, <1>2, <1>3, <1>4 DEF CountCovered, MailMoves
<1>5. ASSUME stream' # "counting" PROVE CountCovered'
    BY <1>5 DEF CountCovered
<1>6. ASSUME StreamCountGet PROVE CountCovered'
    <2>1. countFrom' = cursor /\ inbox' = inbox /\ acked' = acked
        BY <1>6 DEF StreamCountGet, inboxVars, vars
    <2>2. \A i \in inbox : i <= cursor => i \in acked
        BY <1>1 DEF IInv, CursorCovered
    <2> QED
        BY <2>1, <2>2 DEF CountCovered
<1>7. StreamCountGet \/ stream' # "counting" \/ UNCHANGED <<stream, countFrom>>
    <2>1. ASSUME NEW s \in Senders, Chat(s) PROVE UNCHANGED <<stream, countFrom>>
        BY <2>1 DEF Chat, ChatStore, ChatPublish, ChatDies, streamVars
    <2>2. ASSUME Stream
          PROVE  StreamCountGet \/ stream' # "counting" \/ UNCHANGED <<stream, countFrom>>
        BY <2>2 DEF Stream, StreamSubscribe, StreamCountRange, StreamForward
    <2>3. ASSUME Shim PROVE UNCHANGED <<stream, countFrom>>
        BY <2>3 DEF Shim, ShimReceives, ShimReceivesUnread
    <2>4. ASSUME StreamDrops \/ ShimRestarts PROVE stream' # "counting"
        BY <2>4 DEF StreamDrops, ShimRestarts
    <2>5. ASSUME NEW f \in Fetchers, AgentFetch(f) PROVE UNCHANGED <<stream, countFrom>>
        BY <2>5 DEF AgentFetch, streamVars
    <2>6. ASSUME Retention PROVE UNCHANGED <<stream, countFrom>>
        BY <2>6 DEF Retention, streamVars
    <2>7. ASSUME UNCHANGED deliveryVars PROVE UNCHANGED <<stream, countFrom>>
        BY <2>7 DEF deliveryVars, streamVars
    <2> QED
        BY <2>1, <2>2, <2>3, <2>4, <2>5, <2>6, <2>7 DEF DeliveryNext
<1> QED
    BY <1>4, <1>5, <1>6, <1>7

\* The unread check reports or overlooks every unread message.
LEMMA CountReportsAll ==
    ASSUME DeliveryInv, StreamCountRange
    PROVE  \A i \in inbox : i \notin expired /\ i \notin acked =>
               i \in backlog' \/ i \in uncounted'
<1>1. /\ countFrom \in Nat /\ \A i \in inbox : i \in Nat
      /\ \A i \in inbox : i <= countFrom => i \in acked
    BY InboxAssumption
       DEF InboxAssumption, DeliveryInv, IInv, TypeOK, DeliveryTypeOK, CountCovered,
           StreamCountRange
<1>2. SUFFICES ASSUME NEW i \in inbox, i \notin expired, i \notin acked
               PROVE  i \in backlog' \/ i \in uncounted'
    OBVIOUS
<1>3. i \in Live({j \in inbox : countFrom < j})
    BY <1>1, <1>2 DEF Live
<1> QED
    BY <1>3 DEF StreamCountRange

LEMMA NudgeOnceStep ==
    ASSUME DeliveryTypeOK, NudgeOnce, [DeliveryNext]_deliveryVars
    PROVE  NudgeOnce'
<1>1. /\ toPublish \in [Senders -> 0..lastId]
      /\ lastId \in Nat /\ \A i \in 0..lastId : i # lastId + 1
      /\ lastId + 1 \notin channel \cup wire \cup seen
    BY InboxAssumption DEF InboxAssumption, DeliveryTypeOK, TypeOK
<1>2. ASSUME NEW s \in Senders, NEW trimTo \in 0..lastId, ChatStore(s, trimTo)
      PROVE  NudgeOnce'
    <2>1. /\ toPublish' = [toPublish EXCEPT ![s] = lastId + 1]
          /\ UNCHANGED <<channel, wire, seen>>
        BY <1>2 DEF ChatStore, streamVars, shimVars
    <2>2. /\ toPublish'[s] = lastId + 1
          /\ \A r \in Senders : r # s => toPublish'[r] = toPublish[r] /\ toPublish[r] # lastId + 1
        BY <1>1, <2>1
    <2> QED
        BY <1>1, <2>1, <2>2 DEF NudgeOnce
<1>3. ASSUME NEW s \in Senders, ChatPublish(s) \/ ChatDies(s) PROVE NudgeOnce'
    <2>1. /\ toPublish' = [toPublish EXCEPT ![s] = 0] /\ toPublish[s] # 0
          /\ channel' \subseteq channel \cup {toPublish[s]}
          /\ UNCHANGED <<wire, seen>>
        BY <1>3 DEF ChatPublish, ChatDies, streamVars, shimVars
    <2>2. /\ toPublish'[s] = 0
          /\ \A r \in Senders : r # s => toPublish'[r] = toPublish[r]
        BY <1>1, <2>1
    <2> QED
        BY <2>1, <2>2 DEF NudgeOnce
<1>4. ASSUME toPublish' = toPublish,
             channel' \subseteq channel, wire' \subseteq wire, seen' \subseteq seen
      PROVE  NudgeOnce'
    BY <1>4 DEF NudgeOnce
<1>5. ASSUME NEW i \in channel, StreamForward(i) PROVE NudgeOnce'
    BY <1>5 DEF StreamForward, shimVars, NudgeOnce
<1>6. ASSUME NEW i \in wire, NEW pushed \in BOOLEAN, ShimReceives(i, pushed)
      PROVE  NudgeOnce'
    BY <1>6 DEF ShimReceives, NudgeOnce
<1>7. ASSUME NEW pushed \in BOOLEAN, ShimReceivesUnread(pushed) PROVE NudgeOnce'
    BY <1>4, <1>7 DEF ShimReceivesUnread
<1>8. ASSUME StreamSubscribe \/ StreamCountGet \/ StreamCountRange PROVE NudgeOnce'
    BY <1>4, <1>8 DEF StreamSubscribe, StreamCountGet, StreamCountRange, shimVars
<1>9. ASSUME StreamDrops \/ ShimRestarts PROVE NudgeOnce'
    BY <1>4, <1>9 DEF StreamDrops, ShimRestarts
<1>10. ASSUME Retention \/ \E f \in Fetchers : AgentFetch(f) PROVE NudgeOnce'
    BY <1>4, <1>10 DEF Retention, AgentFetch, streamVars, shimVars
<1>11. ASSUME UNCHANGED deliveryVars PROVE NudgeOnce'
    BY <1>4, <1>11 DEF deliveryVars, streamVars, shimVars
<1> QED
    BY <1>2, <1>3, <1>5, <1>6, <1>7, <1>8, <1>9, <1>10, <1>11
       DEF DeliveryNext, Chat, Stream, Shim

----------------------------------------------------------------------------
(* No step drops a report.                                                    *)

\* A stream that stays up keeps every report, and has one for what is stored.
ReportsKept ==
    /\ \A i \in 1..lastId : Reported(i) => Reported(i)'
    /\ lastId' = lastId + 1 => Reported(lastId)'

LEMMA ReportsKeptStep ==
    ASSUME DeliveryTypeOK, NudgeOnce, [DeliveryNext]_deliveryVars,
           stream = "up", stream' = "up"
    PROVE  ReportsKept
<1>1. /\ lastId \in Nat /\ lastId # lastId + 1
      /\ \A i \in 1..lastId : i # 0
      /\ toPublish \in [Senders -> 0..lastId]
    BY InboxAssumption DEF InboxAssumption, DeliveryTypeOK, TypeOK
<1>2. ASSUME NEW s \in Senders, NEW trimTo \in 0..lastId, ChatStore(s, trimTo)
      PROVE  ReportsKept
    <2>1. /\ toPublish[s] = 0
          /\ toPublish' = [toPublish EXCEPT ![s] = lastId + 1]
          /\ lastId' = lastId + 1
          /\ UNCHANGED <<channel, wire, backlog, told, missed, uncounted>>
        BY <1>2 DEF ChatStore, AppendMessage, streamVars, shimVars
    <2>2. toPublish'[s] = lastId'
        BY <1>1, <2>1
    <2>3. Reported(lastId)'
        BY <2>2 DEF Reported, Publishing
    <2>4. ASSUME NEW i \in 1..lastId, i \in Publishing PROVE i \in Publishing'
        <3>1. PICK r \in Senders : toPublish[r] = i
            BY <2>4 DEF Publishing
        <3>2. toPublish'[r] = i
            BY <1>1, <2>1, <3>1
        <3> QED
            BY <3>2 DEF Publishing
    <2> QED
        BY <2>1, <2>3, <2>4 DEF ReportsKept, Reported
<1>3. ASSUME NEW s \in Senders, ChatPublish(s) \/ ChatDies(s) PROVE ReportsKept
    <2>1. /\ toPublish' = [toPublish EXCEPT ![s] = 0]
          /\ UNCHANGED <<lastId, wire, backlog, told, uncounted>>
        BY <1>3 DEF ChatPublish, ChatDies, inboxVars, vars, streamVars, shimVars
    <2>2. /\ \A i \in channel : i \in channel'
          /\ \A i \in missed : i \in missed'
          /\ toPublish[s] \in channel' \/ toPublish[s] \in missed'
        BY <1>3 DEF ChatPublish, ChatDies, streamVars, shimVars
    <2>3. ASSUME NEW i \in 1..lastId, i \in Publishing
          PROVE  i \in Publishing' \/ i \in channel' \/ i \in missed'
        <3>1. PICK r \in Senders : toPublish[r] = i
            BY <2>3 DEF Publishing
        <3>2. CASE r = s
            BY <2>2, <3>1, <3>2
        <3>3. CASE r # s
            <4>1. toPublish'[r] = i
                BY <1>1, <2>1, <3>1, <3>3
            <4> QED
                BY <4>1 DEF Publishing
        <3> QED
            BY <3>2, <3>3
    <2>4. lastId' # lastId + 1
        BY <1>1, <2>1
    <2> QED
        BY <2>1, <2>2, <2>3, <2>4 DEF ReportsKept, Reported
<1>4. ASSUME UNCHANGED <<lastId, toPublish>>,
             \A i \in 1..lastId :
                 i \in told \cup missed \cup uncounted \cup channel \cup wire \cup backlog =>
                 i \in told' \cup missed' \cup uncounted' \cup channel' \cup wire' \cup backlog'
      PROVE  ReportsKept
    <2>1. Publishing' = Publishing /\ lastId' # lastId + 1
        BY <1>1, <1>4 DEF Publishing
    <2> QED
        BY <1>4, <2>1 DEF ReportsKept, Reported
<1>5. ASSUME NEW i \in channel, StreamForward(i) PROVE ReportsKept
    <2>1. /\ UNCHANGED <<lastId, toPublish, backlog, told, missed, uncounted>>
          /\ channel' = channel \ {i} /\ wire' = wire \cup {i}
        BY <1>5 DEF StreamForward, inboxVars, vars, shimVars
    <2> QED
        BY <1>4, <2>1
<1>6. ASSUME NEW i \in wire, NEW pushed \in BOOLEAN, ShimReceives(i, pushed),
             i \notin seen
      PROVE  ReportsKept
    <2>1. /\ UNCHANGED <<lastId, toPublish, channel, backlog, uncounted>>
          /\ wire' = wire \ {i}
        BY <1>6 DEF ShimReceives, inboxVars, vars
    <2>2. /\ \A j \in told : j \in told'
          /\ \A j \in missed : j \in missed'
          /\ i \in told' \/ i \in missed'
        BY <1>6 DEF ShimReceives
    <2> QED
        BY <1>4, <2>1, <2>2
<1>7. ASSUME NEW pushed \in BOOLEAN, ShimReceivesUnread(pushed) PROVE ReportsKept
    <2>1. UNCHANGED <<lastId, toPublish, channel, wire, uncounted>>
        BY <1>7 DEF ShimReceivesUnread, inboxVars, vars
    <2>2. /\ \A j \in told : j \in told'
          /\ \A j \in missed : j \in missed'
          /\ \A j \in backlog : j \in told' \/ j \in missed'
        BY <1>7 DEF ShimReceivesUnread
    <2> QED
        BY <1>4, <2>1, <2>2
<1>8. ASSUME UNCHANGED <<lastId, toPublish, streamVars, shimVars>> PROVE ReportsKept
    <2>1. UNCHANGED <<channel, wire, backlog, told, missed, uncounted>>
        BY <1>8 DEF streamVars, shimVars
    <2> QED
        BY <1>4, <1>8, <2>1
<1>9. ASSUME NEW f \in Fetchers, AgentFetch(f) PROVE ReportsKept
    <2>1. UNCHANGED <<lastId, toPublish, streamVars, shimVars>>
        BY <1>9 DEF AgentFetch, Fetch, FetchGet, FetchRange, FetchNothing, FetchAdvance,
                    FetchFilter, FetchReply, FetchDies, storeVars
    <2> QED
        BY <1>8, <2>1
<1>10. ASSUME Retention PROVE ReportsKept
    <2>1. UNCHANGED <<lastId, toPublish, streamVars, shimVars>>
        BY <1>10 DEF Retention, ReaperDelete, Expire
    <2> QED
        BY <1>8, <2>1
<1>11. ASSUME UNCHANGED deliveryVars PROVE ReportsKept
    BY <1>8, <1>11 DEF deliveryVars, inboxVars, vars
<1>12. ASSUME Shim PROVE ReportsKept
    <2>1. \A i \in wire : i \notin seen
        BY DEF NudgeOnce
    <2> QED
        BY <1>6, <1>7, <1>12, <2>1 DEF Shim
<1>13. ASSUME Stream PROVE ReportsKept
    BY <1>5, <1>13 DEF Stream, StreamSubscribe, StreamCountGet, StreamCountRange
<1> QED
    BY <1>2, <1>3, <1>9, <1>10, <1>11, <1>12, <1>13
       DEF DeliveryNext, Chat, StreamDrops, ShimRestarts

LEMMA NudgeCoveredStep ==
    ASSUME DeliveryInv, [DeliveryNext]_deliveryVars
    PROVE  NudgeCovered'
<1>1. IInv /\ TypeOK /\ DeliveryTypeOK /\ NudgeOnce /\ NudgeCovered
    BY DEF DeliveryInv, IInv
<1>2. MailMoves
    BY <1>1, MailMovesStep, DeliveryStepIsInboxStep
<1>3. /\ lastId \in Nat
      /\ \A i \in inbox : i \in 1..lastId
      /\ \A i \in inbox' : i \in 1..lastId'
    BY <1>1, TypeStep, DeliveryStepIsInboxStep, InboxAssumption
       DEF InboxAssumption, TypeOK
<1>4. CASE stream' # "up"
    BY <1>4 DEF NudgeCovered
<1>5. CASE stream' = "up" /\ stream = "up"
    <2>1. ReportsKept
        BY <1>1, <1>5, ReportsKeptStep
    <2>2. ASSUME NEW i \in inbox', i \notin expired', i \notin acked'
          PROVE  Reported(i)'
        <3>1. CASE i \in inbox
            <4>1. i \notin expired /\ i \notin acked
                BY <1>2, <1>3, <2>2, <3>1 DEF MailMoves
            <4>2. Reported(i)
                BY <1>1, <1>5, <3>1, <4>1 DEF NudgeCovered
            <4> QED
                BY <1>3, <2>1, <3>1, <4>2 DEF ReportsKept
        <3>2. CASE i \notin inbox
            <4>1. i = lastId + 1 /\ lastId' = lastId + 1
                BY <1>2, <1>3, <2>2, <3>2 DEF MailMoves
            <4> QED
                BY <2>1, <4>1 DEF ReportsKept, Reported
        <3> QED
            BY <3>1, <3>2
    <2> QED
        BY <2>2 DEF NudgeCovered
<1>6. CASE stream' = "up" /\ stream # "up"
    <2>1. StreamCountRange
        BY <1>6 DEF DeliveryNext, Chat, ChatStore, ChatPublish, ChatDies, Stream,
                    StreamSubscribe, StreamCountGet, StreamForward, Shim, ShimReceives,
                    ShimReceivesUnread, StreamDrops, ShimRestarts, AgentFetch, Retention,
                    deliveryVars, streamVars
    <2>2. UNCHANGED <<inbox, expired, acked>>
        BY <2>1 DEF StreamCountRange, inboxVars, vars
    <2> QED
        BY <2>1, <2>2, CountReportsAll DEF NudgeCovered, Reported
<1> QED
    BY <1>4, <1>5, <1>6

LEMMA DeliveryInvStep ==
    DeliveryInv /\ [DeliveryNext]_deliveryVars => DeliveryInv'
BY InvStep, DeliveryTypeStep, DeliveryStepIsInboxStep, NudgeOnceStep, CountCoveredStep,
   NudgeCoveredStep
   DEF DeliveryInv

(* The invariant holds in every state: a nudge is at one place, the unread    *)
(* check in progress is sound, and each unread message has a report while the *)
(* stream is up (stream.py:36-48, muster_channel.py:272-278).                 *)
THEOREM DeliveryInvariantHolds == DeliverySafety => []DeliveryInv
BY DeliveryInvInit, DeliveryInvStep, PTL DEF DeliverySafety

----------------------------------------------------------------------------
LEMMA InvNoLostNudge == DeliveryInv => NoLostNudge
BY UnreadMail DEF DeliveryInv, NudgeCovered, NoLostNudge, Reported

(* While the stream is up, every unread message was told, is on its way, or   *)
(* is one of the named losses (stream.py:36-38, ops.py:59-60).                *)
THEOREM NoLostNudgeHolds == DeliverySafety => []NoLostNudge
BY DeliveryInvariantHolds, InvNoLostNudge, PTL

LEMMA StepReconnectCovers ==
    ASSUME DeliveryInv, DeliveryInv', [DeliveryNext]_deliveryVars,
           stream # "up", stream' = "up"
    PROVE  Waiting' \ acked' \subseteq backlog' \cup uncounted'
<1>1. StreamCountRange
    BY DEF DeliveryNext, Chat, ChatStore, ChatPublish, ChatDies, Stream, StreamSubscribe,
           StreamCountGet, StreamForward, Shim, ShimReceives, ShimReceivesUnread,
           StreamDrops, ShimRestarts, AgentFetch, Retention, deliveryVars, streamVars
<1>2. UNCHANGED <<inbox, expired, acked, cursor>>
    BY <1>1 DEF StreamCountRange, inboxVars, vars
<1>3. Waiting' = Waiting
    BY <1>2 DEF Waiting, Live
<1>4. \A i : i \in Waiting \ acked => i \in backlog' \/ i \in uncounted'
    BY <1>1, CountReportsAll, UnreadMail DEF DeliveryInv
<1> QED
    BY <1>2, <1>3, <1>4

(* A reconnect forgives: right after the unread check, the unread mail is in  *)
(* the event, or the check overlooked it (stream.py:36-38, store.py:115-122). *)
THEOREM ReconnectCoversHolds == DeliverySafety => ReconnectCovers
<1>1. /\ DeliveryInv /\ DeliveryInv' /\ [DeliveryNext]_deliveryVars
      => [stream' = "up" /\ stream # "up" =>
             Waiting' \ acked' \subseteq backlog' \cup uncounted']_deliveryVars
    BY StepReconnectCovers
<1> QED
    BY <1>1, DeliveryInvariantHolds, PTL DEF DeliverySafety, ReconnectCovers

=============================================================================
