------------------------------ MODULE Delivery ------------------------------
(* How an agent learns of its mail: chats store a message and then publish a  *)
(* nudge for it; the agent's event stream subscribes, reports the backlog     *)
(* once, and forwards the nudges; the shim turns both into notifications.     *)
(* The inbox and the agent's fetches are those of module Inbox.  A nudge      *)
(* never moves the cursor and a fetch never waits for a nudge, so the two     *)
(* halves meet only in the order of their steps.                              *)
EXTENDS Inbox

CONSTANTS Senders,     \* chat requests to this agent that may be in flight
          CountLimit,  \* entries unread_count looks at (1000 in the code)
          MaxDrops     \* bound: how often the stream or the shim dies

ASSUME DeliveryAssumption ==
    /\ CountLimit \in Nat \ {0}
    /\ MaxDrops \in Nat

VARIABLES
    toPublish,  \* toPublish[s]: the message chat s has stored and not published
    stream,     \* where the serving pod is with the shim's current stream
    countFrom,  \* the cursor unread_count has read, 0 when it is done
    channel,    \* nudges in the stream's pub/sub connection
    wire,       \* nudges sent to the shim, unread by it
    backlog,    \* the mail an "unread" event on its way to the shim speaks of
    seen,       \* the shim's msg_id LRU (256 entries: none is evicted here)
    told,       \* history: mail this session of the agent was notified of
    missed,     \* history: nudges lost since the stream's unread check
    uncounted,  \* history: live mail the stream's unread check overlooked
    orphans,    \* fetches whose shim has died
    drops       \* bounded by MaxDrops

inboxVars   == vars
streamVars  == <<stream, countFrom, channel, wire, backlog>>
shimVars    == <<seen, told, missed, uncounted>>
faultVars   == <<orphans, drops>>
deliveryVars == <<inboxVars, toPublish, streamVars, shimVars, faultVars>>

DeliveryTypeOK ==
    /\ TypeOK
    /\ toPublish \in [Senders -> 0..lastId]
    /\ stream \in {"down", "subscribed", "counting", "up"}
    /\ countFrom \in 0..lastId
    /\ channel \cup wire \cup backlog \subseteq 1..lastId
    /\ seen \cup told \cup missed \cup uncounted \subseteq 1..lastId
    /\ orphans \in SUBSET Fetchers
    /\ drops \in 0..MaxDrops
    /\ stream = "down" => channel = {}
    /\ stream # "up" => wire = {} /\ backlog = {}

DeliveryInit ==
    /\ Init
    /\ toPublish = [s \in Senders |-> 0]
    /\ stream = "down"
    /\ countFrom = 0
    /\ channel = {} /\ wire = {} /\ backlog = {}
    /\ seen = {} /\ told = {} /\ missed = {} /\ uncounted = {}
    /\ orphans = {}
    /\ drops = 0

-----------------------------------------------------------------------------
(* The sender's side of op_chat, from the moment its checks have passed.      *)

ChatStore(s, trimTo) ==
    /\ toPublish[s] = 0
    /\ AppendMessage(trimTo)
    /\ toPublish' = [toPublish EXCEPT ![s] = lastId + 1]
    /\ UNCHANGED <<streamVars, shimVars, faultVars>>

\* PUBLISH reaches whoever is subscribed at that moment, and nobody later.
ChatPublish(s) ==
    /\ toPublish[s] # 0
    /\ toPublish' = [toPublish EXCEPT ![s] = 0]
    /\ channel' = IF stream = "down" THEN channel ELSE channel \cup {toPublish[s]}
    /\ UNCHANGED <<inboxVars, stream, countFrom, wire, backlog, shimVars, faultVars>>

\* The sender's pod stops, or Valkey fails, between XADD and PUBLISH.
ChatDies(s) ==
    /\ toPublish[s] # 0
    /\ toPublish' = [toPublish EXCEPT ![s] = 0]
    /\ missed' = missed \cup {toPublish[s]}
    /\ UNCHANGED <<inboxVars, streamVars, seen, told, uncounted, faultVars>>

-----------------------------------------------------------------------------
(* The stream's generator, one action per await that matters to mail          *)
(* (registration and presence are module Presence's).                         *)

StreamSubscribe ==
    /\ stream = "down"
    /\ stream' = "subscribed"
    /\ UNCHANGED <<inboxVars, toPublish, countFrom, channel, wire, backlog,
                   shimVars, faultVars>>

\* unread_count, first await: GET cursor.
StreamCountGet ==
    /\ stream = "subscribed"
    /\ stream' = "counting"
    /\ countFrom' = cursor
    /\ UNCHANGED <<inboxVars, toPublish, channel, wire, backlog, shimVars, faultVars>>

\* Mutant: "if count > 1".
CountRangeOffByOne ==
    LET unread  == Live({i \in inbox : countFrom < i})
        counted == Live(Page(countFrom, CountLimit))
    IN /\ stream = "counting"
       /\ stream' = "up"
       /\ backlog' = IF Cardinality(counted) > 1 THEN unread ELSE {}
       /\ uncounted' = IF counted = {} THEN unread ELSE {}
       /\ missed' = {}
       /\ countFrom' = 0
       /\ UNCHANGED <<inboxVars, toPublish, channel, wire, seen, told, faultVars>>

\* unread_count, second await: XRANGE with its COUNT, expired entries left out.
\* One event stands for all the mail; without live entries there is none.
StreamCountRange ==
    LET unread  == Live({i \in inbox : countFrom < i})
        counted == Live(Page(countFrom, CountLimit))
    IN /\ stream = "counting"
       /\ stream' = "up"
       /\ backlog' = IF counted = {} THEN {} ELSE unread
       /\ uncounted' = IF counted = {} THEN unread ELSE {}
       /\ missed' = {}
       /\ countFrom' = 0
       /\ UNCHANGED <<inboxVars, toPublish, channel, wire, seen, told, faultVars>>

\* get_message: forward verbatim.
StreamForward(i) ==
    /\ stream = "up"
    /\ i \in channel
    /\ channel' = channel \ {i}
    /\ wire' = wire \cup {i}
    /\ UNCHANGED <<inboxVars, toPublish, stream, countFrom, backlog, shimVars, faultVars>>

\* Mutant: the pub/sub connection is not closed with the stream.
StreamDropsSubscribed ==
    /\ stream # "down"
    /\ drops < MaxDrops
    /\ drops' = drops + 1
    /\ stream' = "down"
    /\ countFrom' = 0
    /\ wire' = {} /\ backlog' = {}
    /\ missed' = missed \cup wire \cup backlog
    /\ UNCHANGED <<inboxVars, toPublish, channel, seen, told, uncounted, orphans>>

\* The connection ends, whoever ends it: network, pod, refused key at a ping.
StreamDrops ==
    /\ stream # "down"
    /\ drops < MaxDrops
    /\ drops' = drops + 1
    /\ stream' = "down"
    /\ countFrom' = 0
    /\ channel' = {} /\ wire' = {} /\ backlog' = {}
    /\ missed' = missed \cup channel \cup wire \cup backlog
    /\ UNCHANGED <<inboxVars, toPublish, seen, told, uncounted, orphans>>

-----------------------------------------------------------------------------
(* The shim's relay loop.                                                     *)

\* A nudge is marked seen before it is pushed; a push that fails loses it.
ShimReceives(i, pushed) ==
    /\ i \in wire
    /\ wire' = wire \ {i}
    /\ seen' = seen \cup {i}
    /\ told' = IF pushed /\ i \notin seen THEN told \cup {i} ELSE told
    /\ missed' = IF ~pushed /\ i \notin seen THEN missed \cup {i} ELSE missed
    /\ UNCHANGED <<inboxVars, toPublish, stream, countFrom, channel, backlog,
                   uncounted, faultVars>>

\* Mutant: the shim has no text for kind "unread".
ShimIgnoresUnread(pushed) ==
    /\ backlog # {}
    /\ backlog' = {}
    /\ UNCHANGED <<inboxVars, toPublish, stream, countFrom, channel, wire,
                   seen, told, missed, uncounted, faultVars>>

\* The "unread" event carries no msg_id and is never deduplicated.
ShimReceivesUnread(pushed) ==
    /\ backlog # {}
    /\ backlog' = {}
    /\ told' = IF pushed THEN told \cup backlog ELSE told
    /\ missed' = IF pushed THEN missed ELSE missed \cup backlog
    /\ UNCHANGED <<inboxVars, toPublish, stream, countFrom, channel, wire,
                   seen, uncounted, faultVars>>

\* The agent's session ends and a later one has the same address (pids repeat,
\* in a restarted container at once): it knows nothing, and answers to the old
\* one's fetches reach nobody.
ShimRestarts ==
    /\ drops < MaxDrops
    /\ drops' = drops + 1
    /\ stream' = "down"
    /\ countFrom' = 0
    /\ channel' = {} /\ wire' = {} /\ backlog' = {}
    /\ seen' = {} /\ told' = {} /\ missed' = {} /\ uncounted' = {}
    /\ orphans' = {f \in Fetchers : pc[f] # "idle"}
    /\ UNCHANGED <<inboxVars, toPublish>>

-----------------------------------------------------------------------------
(* The steps of module Inbox: the agent's fetches, expiry and the reaper.     *)

AgentFetch(f) ==
    /\ Fetch(f)
    /\ f \in orphans => ~FetchReply(f)
    /\ orphans' = {g \in orphans : pc'[g] # "idle"}
    /\ UNCHANGED <<toPublish, streamVars, shimVars, drops>>

Retention ==
    /\ ReaperDelete \/ \E i \in 1..lastId : Expire(i)
    /\ UNCHANGED <<toPublish, streamVars, shimVars, faultVars>>

Chat(s) ==
    \/ \E trimTo \in 0..lastId : ChatStore(s, trimTo)
    \/ ChatPublish(s)
    \/ ChatDies(s)

\* Mutant: the stream subscribes after it has counted.
StreamSubscribesLast ==
    \/ StreamSubscribe
    \/ StreamCountGet
    \/ LET unread  == Live({i \in inbox : countFrom < i})
           counted == Live(Page(countFrom, CountLimit))
       IN /\ stream = "counting"
          /\ stream' = "late"
          /\ backlog' = IF counted = {} THEN {} ELSE unread
          /\ uncounted' = IF counted = {} THEN unread ELSE {}
          /\ missed' = {}
          /\ countFrom' = 0
          /\ UNCHANGED <<inboxVars, toPublish, channel, wire, seen, told, faultVars>>
    \/ /\ stream = "late"
       /\ stream' = "up"
       /\ channel' = {}
       /\ UNCHANGED <<inboxVars, toPublish, countFrom, wire, backlog, shimVars, faultVars>>
    \/ \E i \in channel : StreamForward(i)

Stream ==
    \/ StreamSubscribe
    \/ StreamCountGet
    \/ StreamCountRange
    \/ \E i \in channel : StreamForward(i)

Shim ==
    \/ \E i \in wire, pushed \in BOOLEAN : ShimReceives(i, pushed)
    \/ \E pushed \in BOOLEAN : ShimReceivesUnread(pushed)

DeliveryNext ==
    \/ \E s \in Senders : Chat(s)
    \/ Stream
    \/ Shim
    \/ StreamDrops
    \/ ShimRestarts
    \/ \E f \in Fetchers : AgentFetch(f)
    \/ Retention

(* A chat either goes on or dies; the pod's event loop and the shim's relay   *)
(* keep running and reconnect for ever (muster_channel.py:261).  Nothing      *)
(* makes the agent fetch.                                                     *)
Fairness ==
    /\ \A s \in Senders : WF_deliveryVars(ChatPublish(s) \/ ChatDies(s))
    /\ WF_deliveryVars(StreamSubscribe \/ StreamCountGet \/ StreamCountRange)
    /\ \A i \in Ids : WF_deliveryVars(StreamForward(i))
    /\ WF_deliveryVars(Shim)

DeliverySafety == DeliveryInit /\ [][DeliveryNext]_deliveryVars
DeliverySpec   == DeliverySafety /\ Fairness

-----------------------------------------------------------------------------
Publishing == {toPublish[s] : s \in Senders}

(* While the stream is up, no unread message is forgotten: the agent was told *)
(* of it, a nudge or the unread event is on its way, its chat has still to    *)
(* publish, or it is one of the named losses (a chat that died between XADD   *)
(* and PUBLISH, a push that failed, an unread check that looked only at       *)
(* expired entries, although docs/ARCHITECTURE.md:58 has it cover "any        *)
(* backlog").  It rests on the subscribe-then-count order of stream.py:36-38  *)
(* and the store-then-publish order of ops.py:59-60.                          *)
NoLostNudge ==
    stream = "up" =>
        Waiting \ acked \subseteq
            told \cup channel \cup wire \cup backlog \cup Publishing
                 \cup missed \cup uncounted

(* A reconnect forgives: right after the unread check the only mail the agent *)
(* has neither been told of nor will be is mail the check overlooked; losses  *)
(* of earlier streams and dead chats are covered ("pod dies after inbox write *)
(* but before nudge -> covered by the unread check on next connect",          *)
(* spec-v2:286).                                                              *)
ReconnectCovers ==
    [][stream' = "up" /\ stream # "up" =>
        Waiting' \ acked' \subseteq backlog' \cup uncounted']_deliveryVars

(* Every stored message sooner or later reaches the agent's attention, or is  *)
(* read, or falls to retention or to one of the named losses: no step of the  *)
(* pods or the shim is stuck behind another (stream.py:36-48).                *)
EventuallyTold ==
    \A i \in Ids :
        i \in Waiting ~> i \in told \cup missed \cup uncounted \cup acked \cup Gone
=============================================================================
