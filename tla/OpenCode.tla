------------------------------ MODULE OpenCode ------------------------------
(* The OpenCode plugin: deliver events, and the first session of a process,   *)
(* start a drain, which fetches page after page (module Inbox) and wakes the  *)
(* session for every message, one whole agent turn each.  The agent's         *)
(* muster_fetch tool reads the same inbox beside it, any number of calls at   *)
(* once, for it takes no lock.                                                *)
(*                                                                            *)
(* A request is more than its caller: when the caller's connection breaks,    *)
(* the pod goes on, and its SET lands without anybody reading the answer.     *)
(*                                                                            *)
(* JavaScript runs one callback at a time, so a step ends at an await: the    *)
(* fetch (whose own awaits are Inbox's) and the wake.                         *)
EXTENDS Inbox, Sequences

CONSTANTS NoRequest,
          PageSize,      \* what a drain asks for (20 in the code)
          MaxFaults      \* bound: lost streams and failed wakes

ASSUME OpenCodeAssumption ==
    /\ NoRequest \notin Fetchers
    /\ PageSize \in Limits
    /\ MaxFaults \in Nat

VARIABLES
    sessionID,  \* the plugin has learned a session to wake
    disposed,
    drain,      \* the await the drain is at ("empty": an empty answer is on its
                \* way); "off" is relaying = false
    mine,       \* the request the drain waits for, once it has reached a pod
    abandoned,  \* requests of drains that gave up, with which a pod goes on
    relay,      \* the stream's reader, which awaits the handlers it calls
    again,      \* a trigger came during the drain
    full,       \* the drain's last answer was as long as a page
    queue,      \* what the drain has yet to wake the session for
    pendingWakes,
    seen,       \* the msg_id LRU (256 entries: none is evicted here)
    connected,  \* the plugin has an event stream
    nudges,     \* deliver events on it that mean "inbox has mail"
    faults,     \* bounded by MaxFaults
    drained,    \* history: messages a drain was handed
    woken,      \* history: messages a turn was started for
    toolShown,  \* history: messages the tool has shown
    twice,      \* history: messages more than one turn was started for
    lateFail,   \* history: a wake failed after its turn had started
    due,        \* history: mail that was unread when a trigger was taken
    broken,     \* history: the last drain ended in a failure
    short,      \* history: its last page held entries that had expired
    spilled     \* history: held messages that a torn answer took along

requestVars == <<mine, abandoned>>
drainVars   == <<drain, relay, again, full, queue, pendingWakes, seen>>
pluginVars  == <<sessionID, disposed, drainVars>>
streamVars  == <<connected, nudges>>
wakeHistory == <<woken, twice, lateFail, spilled>>
openVars    == <<vars, pluginVars, requestVars, streamVars, faults, drained, toolShown,
                 wakeHistory, due, broken, short>>

Elements(s) == {s[k] : k \in DOMAIN s}
relaying    == drain # "off"

OpenTypeOK ==
    /\ TypeOK
    /\ sessionID \in BOOLEAN /\ disposed \in BOOLEAN
    /\ again \in BOOLEAN /\ full \in BOOLEAN
    /\ drain \in {"off", "fetch", "empty", "next", "wake"}
    /\ relay \in {"reading", "draining"}
    /\ Elements(queue) \cup Elements(pendingWakes) \cup seen \subseteq 1..lastId
    /\ drained \cup woken \cup toolShown \cup twice \cup due \cup spilled \subseteq 1..lastId
    /\ connected \in BOOLEAN
    /\ nudges \in 0..(MaxMsgs + 1)
    /\ faults \in 0..MaxFaults
    /\ lateFail \in BOOLEAN /\ broken \in BOOLEAN /\ short \in BOOLEAN
    /\ mine \in (Fetchers \ abandoned) \cup {NoRequest}
    /\ abandoned \in SUBSET {f \in Fetchers : pc[f] # "idle"}
    /\ mine # NoRequest => drain = "fetch" /\ pc[mine] # "idle"
    /\ relay = "draining" => relaying
    /\ relaying => sessionID
    /\ ~relaying => queue = <<>>
    /\ drain \in {"next", "wake"} => pendingWakes = <<>>

OpenInit ==
    /\ Init
    /\ sessionID = FALSE /\ disposed = FALSE
    /\ drain = "off" /\ relay = "reading" /\ again = FALSE /\ full = FALSE
    /\ mine = NoRequest /\ abandoned = {}
    /\ queue = <<>> /\ pendingWakes = <<>> /\ seen = {}
    /\ connected = FALSE /\ nudges = 0
    /\ faults = 0
    /\ drained = {} /\ toolShown = {}
    /\ woken = {} /\ twice = {} /\ lateFail = FALSE
    /\ due = {} /\ broken = FALSE /\ short = FALSE /\ spilled = {}

Unread == Waiting \ acked

\* A page in the order of its ids.
InOrder(S) ==
    CHOOSE s \in [1..Cardinality(S) -> S] :
        \A k, l \in DOMAIN s : k < l => s[k] < s[l]

-----------------------------------------------------------------------------
(* The event stream.  How nudges and the unread check fit together is module  *)
(* Delivery's matter: here a nudge arrives or it does not.                    *)

Chat(trimTo, published) ==
    /\ AppendMessage(trimTo)
    /\ nudges' = IF connected /\ published THEN nudges + 1 ELSE nudges
    /\ UNCHANGED <<pluginVars, requestVars, connected, faults, drained, toolShown, wakeHistory,
                   due, broken, short>>

Connect ==
    /\ ~connected /\ ~disposed /\ relay = "reading"
    /\ connected' = TRUE
    /\ nudges' = IF Waiting = {} THEN 0 ELSE 1
    /\ UNCHANGED <<vars, pluginVars, requestVars, faults, drained, toolShown, wakeHistory,
                   due, broken, short>>

StreamDrops ==
    /\ connected /\ faults < MaxFaults
    /\ faults' = faults + 1
    /\ connected' = FALSE
    /\ nudges' = 0
    /\ UNCHANGED <<vars, pluginVars, requestVars, drained, toolShown, wakeHistory,
                   due, broken, short>>

\* Messages expire; the reaper may find even a connected agent expired, whose
\* stream outlived the hash (module Presence).
Retention ==
    /\ ReaperDelete \/ \E i \in 1..lastId : Expire(i)
    /\ UNCHANGED <<pluginVars, requestVars, streamVars, faults, drained, toolShown, wakeHistory,
                   due, broken, short>>

-----------------------------------------------------------------------------
(* Triggers: drainInbox up to its first await.                                *)

StartDrain ==
    /\ ~relaying
    /\ drain' = "fetch"
    /\ again' = FALSE
    /\ due' = due \cup Unread
    /\ broken' = FALSE

SkipDrain ==
    /\ relaying
    /\ again' = TRUE
    /\ due' = due \cup Unread
    /\ UNCHANGED <<drain, broken>>

\* The first turn of a session; that trigger has no event behind it.
Hook ==
    /\ ~sessionID
    /\ sessionID' = TRUE
    /\ StartDrain
    /\ UNCHANGED <<vars, requestVars, disposed, relay, full, queue, pendingWakes, seen, streamVars,
                   faults, drained, toolShown, wakeHistory, short>>

\* "drain HOLD": without a session the mail stays unread on the server.
NudgeHeld ==
    /\ relay = "reading" /\ nudges > 0 /\ ~sessionID
    /\ nudges' = nudges - 1
    /\ UNCHANGED <<vars, pluginVars, requestVars, connected, faults, drained, toolShown,
                   wakeHistory, due, broken, short>>

\* The reader waits for the drain it starts, but not for one it finds running.
\* An announce has its turn at once and keeps the reader from its next event
\* until that is over; nothing here makes the reader go on before.
Nudge ==
    /\ relay = "reading" /\ nudges > 0 /\ sessionID
    /\ nudges' = nudges - 1
    /\ \/ StartDrain /\ relay' = "draining"
       \/ SkipDrain /\ UNCHANGED relay
    /\ UNCHANGED <<vars, requestVars, sessionID, disposed, full, queue, pendingWakes, seen,
                   connected, faults, drained, toolShown, wakeHistory, short>>

Dispose ==
    /\ ~disposed
    /\ disposed' = TRUE
    /\ UNCHANGED <<vars, requestVars, sessionID, drainVars, streamVars, faults, drained, toolShown,
                   wakeHistory, due, broken, short>>

-----------------------------------------------------------------------------
(* The drain.                                                                 *)

\* The drain is over, and with it the reader's wait for it.
Finish ==
    /\ drain' = "off"
    /\ relay' = "reading"

\* The request reaches a pod; what follows there is Inbox's.
DrainRequests(f) ==
    /\ drain = "fetch" /\ mine = NoRequest
    /\ FetchGet(f)
    /\ mine' = f
    /\ short' = FALSE
    /\ UNCHANGED <<pluginVars, abandoned, streamVars, faults, drained, toolShown,
                   wakeHistory, due, broken>>

DrainFetch ==
    /\ mine # NoRequest
    /\ \/ FetchRange(mine, PageSize) /\ UNCHANGED <<mine, drain, short>>
       \/ FetchNothing(mine, PageSize) /\ mine' = NoRequest /\ drain' = "empty" /\ UNCHANGED short
       \/ (\E last \in page[mine] : FetchAdvance(mine, last)) /\ UNCHANGED <<mine, drain, short>>
       \/ FetchFilter(mine) /\ short' = (page'[mine] # page[mine]) /\ UNCHANGED <<mine, drain>>
    /\ UNCHANGED <<sessionID, disposed, abandoned, relay, again, full, queue, pendingWakes,
                   seen, streamVars, faults, drained, toolShown, wakeHistory, due, broken>>

\* The answer is there, with the messages that are left of the page.
Answered(messages) ==
    \/ mine # NoRequest /\ FetchReply(mine) /\ messages = page[mine]
    \/ drain = "empty" /\ UNCHANGED vars /\ messages = {}

\* Mutant: again = false comes after the fetch.
DrainAnsweredResets(messages) ==
    /\ Answered(messages)
    /\ mine' = NoRequest
    /\ queue' = pendingWakes \o InOrder(messages)
    /\ pendingWakes' = <<>>
    /\ full' = (Cardinality(messages) = PageSize)
    /\ drained' = drained \cup messages
    /\ drain' = "next"
    /\ again' = FALSE
    /\ UNCHANGED <<sessionID, disposed, abandoned, relay, seen, streamVars, faults,
                   toolShown, wakeHistory, due, broken, short>>

\* Mutant: new mail goes ahead of what was held.
DrainAnsweredNewFirst(messages) ==
    /\ Answered(messages)
    /\ mine' = NoRequest
    /\ queue' = InOrder(messages) \o pendingWakes
    /\ pendingWakes' = <<>>
    /\ full' = (Cardinality(messages) = PageSize)
    /\ drained' = drained \cup messages
    /\ drain' = "next"
    /\ UNCHANGED <<sessionID, disposed, abandoned, relay, again, seen, streamVars, faults,
                   toolShown, wakeHistory, due, broken, short>>

DrainAnswered(messages) ==
    /\ Answered(messages)
    /\ mine' = NoRequest
    /\ queue' = pendingWakes \o InOrder(messages)
    /\ pendingWakes' = <<>>
    /\ full' = (Cardinality(messages) = PageSize)
    /\ drained' = drained \cup messages
    /\ drain' = "next"
    /\ UNCHANGED <<sessionID, disposed, abandoned, relay, again, seen, streamVars, faults,
                   toolShown, wakeHistory, due, broken, short>>

\* The drain ends by an error before it has read its next page; again is not
\* looked at.
Breaks ==
    /\ drain \in {"fetch", "empty"}
    /\ mine' = NoRequest
    /\ Finish
    /\ broken' = TRUE
    /\ UNCHANGED <<sessionID, disposed, again, full, queue, seen, streamVars, faults,
                   drained, toolShown, woken, twice, lateFail, due, short>>

\* rpc throws: no pod was reached, the pod failed, or the connection broke.
\* What is held stays held.  What a pod still does with the request is not the
\* drain's to know.
DrainFetchFails ==
    /\ Breaks
    /\ abandoned' = abandoned \cup ({mine} \ {NoRequest})
    /\ UNCHANGED <<vars, pendingWakes, spilled>>

\* The answer breaks off behind its headers: rpc returns an object without
\* messages, and spreading them throws when pendingWakes has been emptied.
DrainAnswerTorn ==
    /\ \/ mine # NoRequest /\ pc[mine] = "reply" /\ FetchDies(mine)
       \/ drain = "empty" /\ UNCHANGED vars
    /\ Breaks
    /\ pendingWakes' = <<>>
    /\ spilled' = spilled \cup Elements(pendingWakes)
    /\ UNCHANGED abandoned

SkipSeen ==
    /\ drain = "next" /\ queue # <<>> /\ Head(queue) \in seen
    /\ queue' = Tail(queue)
    /\ UNCHANGED <<vars, requestVars, sessionID, disposed, drain, relay, again, full,
                   pendingWakes, seen, streamVars, faults, drained, toolShown, wakeHistory,
                   due, broken, short>>

WakeStart ==
    /\ drain = "next" /\ queue # <<>> /\ Head(queue) \notin seen
    /\ drain' = "wake"
    /\ UNCHANGED <<vars, requestVars, sessionID, disposed, relay, again, full, queue,
                   pendingWakes, seen, streamVars, faults, drained, toolShown, wakeHistory,
                   due, broken, short>>

Woke(m) ==
    /\ woken' = woken \cup {m}
    /\ twice' = twice \cup ({m} \cap woken)

\* Mutant: the message is not remembered.
WakeForgets ==
    /\ drain = "wake"
    /\ drain' = "next"
    /\ Woke(Head(queue))
    /\ queue' = Tail(queue)
    /\ UNCHANGED <<vars, requestVars, sessionID, disposed, relay, again, full, pendingWakes, seen,
                   streamVars, faults, drained, toolShown, lateFail, spilled, due, broken, short>>

WakeDone ==
    /\ drain = "wake"
    /\ drain' = "next"
    /\ Woke(Head(queue))
    /\ seen' = seen \cup {Head(queue)}
    /\ queue' = Tail(queue)
    /\ UNCHANGED <<vars, requestVars, sessionID, disposed, relay, again, full, pendingWakes,
                   streamVars, faults, drained, toolShown, lateFail, spilled, due, broken, short>>

\* Mutant: the message whose wake failed is not held.
WakeFailsDropsHead(started) ==
    /\ drain = "wake" /\ faults < MaxFaults
    /\ faults' = faults + 1
    /\ Finish
    /\ broken' = TRUE
    /\ pendingWakes' = pendingWakes \o Tail(queue)
    /\ queue' = <<>>
    /\ IF started THEN Woke(Head(queue)) ELSE UNCHANGED <<woken, twice>>
    /\ lateFail' = (lateFail \/ started)
    /\ UNCHANGED <<vars, requestVars, sessionID, disposed, again, full, seen, streamVars, drained,
                   toolShown, spilled, due, short>>

\* Mutant: the queue is held but not left.
WakeFailsKeepsQueue(started) ==
    /\ drain = "wake" /\ faults < MaxFaults
    /\ faults' = faults + 1
    /\ Finish
    /\ broken' = TRUE
    /\ pendingWakes' = pendingWakes \o queue
    /\ IF started THEN Woke(Head(queue)) ELSE UNCHANGED <<woken, twice>>
    /\ lateFail' = (lateFail \/ started)
    /\ UNCHANGED <<vars, requestVars, sessionID, disposed, again, full, queue, seen, streamVars,
                   drained, toolShown, spilled, due, short>>

\* The prompt fails -- the session is gone, or the call broke off with the
\* turn already started: this message and all behind it are held.
WakeFails(started) ==
    /\ drain = "wake" /\ faults < MaxFaults
    /\ faults' = faults + 1
    /\ Finish
    /\ broken' = TRUE
    /\ pendingWakes' = pendingWakes \o queue
    /\ queue' = <<>>
    /\ IF started THEN Woke(Head(queue)) ELSE UNCHANGED <<woken, twice>>
    /\ lateFail' = (lateFail \/ started)
    /\ UNCHANGED <<vars, requestVars, sessionID, disposed, again, full, seen, streamVars, drained,
                   toolShown, spilled, due, short>>

DrainLoops ==
    /\ drain = "next" /\ queue = <<>>
    /\ again \/ full
    /\ ~disposed
    /\ drain' = "fetch"
    /\ again' = FALSE
    /\ UNCHANGED <<vars, requestVars, sessionID, disposed, relay, full, queue, pendingWakes, seen,
                   streamVars, faults, drained, toolShown, wakeHistory, due, broken, short>>

DrainEnds ==
    /\ drain = "next" /\ queue = <<>>
    /\ (again \/ full) => disposed
    /\ again' = (again \/ full)
    /\ Finish
    /\ UNCHANGED <<vars, requestVars, sessionID, disposed, full, queue, pendingWakes, seen,
                   streamVars, faults, drained, toolShown, wakeHistory, due, broken, short>>

-----------------------------------------------------------------------------
(* muster_fetch: what the tool shows is remembered when its answer comes.     *)

\* The pod's steps for a call of the tool; a call whose client gives up is one
\* that dies at its end.
ToolFetch(f) ==
    /\ f # mine /\ f \notin abandoned
    /\ Fetch(f)
    /\ ~FetchReply(f)
    /\ UNCHANGED <<pluginVars, requestVars, streamVars, faults, drained, toolShown,
                   wakeHistory, due, broken, short>>

ToolShows(f) ==
    /\ f # mine /\ f \notin abandoned
    /\ FetchReply(f)
    /\ seen' = seen \cup page[f]
    /\ toolShown' = toolShown \cup page[f]
    /\ UNCHANGED <<sessionID, disposed, requestVars, drain, relay, again, full, queue,
                   pendingWakes, streamVars, faults, drained, wakeHistory, due, broken, short>>

\* A pod goes on with a request whose drain has given up.
AbandonedFetch(f) ==
    /\ f \in abandoned
    /\ \/ FetchRange(f, PageSize)
       \/ FetchNothing(f, PageSize)
       \/ \E last \in page[f] : FetchAdvance(f, last)
       \/ FetchFilter(f)
       \/ FetchDies(f)
    /\ abandoned' = {g \in abandoned : pc'[g] # "idle"}
    /\ UNCHANGED <<pluginVars, mine, streamVars, faults, drained, toolShown, wakeHistory,
                   due, broken, short>>

-----------------------------------------------------------------------------
Server ==
    \/ \E trimTo \in 0..lastId, published \in BOOLEAN : Chat(trimTo, published)
    \/ Retention

Relay ==
    \/ Connect
    \/ StreamDrops
    \/ NudgeHeld
    \/ Nudge

DrainInbox ==
    \/ \E f \in Fetchers : DrainRequests(f)
    \/ DrainFetch
    \/ \E messages \in {{}} \cup {page[f] : f \in Fetchers} : DrainAnswered(messages)
    \/ DrainFetchFails
    \/ DrainAnswerTorn
    \/ SkipSeen
    \/ WakeStart
    \/ WakeDone
    \/ \E started \in BOOLEAN : WakeFails(started)
    \/ DrainLoops
    \/ DrainEnds

OpenNext ==
    \/ Server
    \/ Relay
    \/ Hook
    \/ Dispose
    \/ DrainInbox
    \/ \E f \in Fetchers : ToolFetch(f) \/ ToolShows(f) \/ AbandonedFetch(f)

OpenSafety == OpenInit /\ [][OpenNext]_openVars

-----------------------------------------------------------------------------
(* "A failed wake does NOT lose mail" (muster-chat.js:120-122): whatever a    *)
(* drain was handed -- the cursor has passed it, no reconnect brings it back  *)
(* -- was woken for or shown by the tool, or is still queued or held, also    *)
(* across failing drains, failing fetches and tool calls in between.  Only an *)
(* answer that breaks off behind its headers takes held mail along (line 137).*)
HandedIsKept ==
    drained \subseteq woken \cup toolShown \cup spilled
                       \cup Elements(queue) \cup Elements(pendingWakes)

(* Two turns are started for one message only if a wake failed after its turn *)
(* had begun; a message is woken for and shown by the tool only if the two    *)
(* fetches overlapped (muster-chat.js:140, 149, 272).                         *)
DoubledOnlyIf ==
    /\ twice # {} => lateFail
    /\ woken \cap toolShown # {} => overlap

\* In the answers to all requests but the one the drain waits for.
OthersAnswers ==
    UNION {page[f] : f \in {g \in Fetchers \ {mine} : pc[g] \in {"filter", "reply"}}}

(* Held mail is retried ahead of anything newer (muster-chat.js:121, 137):    *)
(* nothing still to be woken for is older than something already woken for,   *)
(* also across failing wakes and while calls of the tool and abandoned        *)
(* requests move the cursor.  What a stale SET brings back late is the        *)
(* exception: the agent's process was sent it before, and that answer was     *)
(* shown, was lost, is on its way, or left it out as expired.                 *)
HeldGoesFirst ==
    \A i \in Elements(queue) \cup Elements(pendingWakes) : \A j \in woken :
        i < j => i \in seen \cup lost \cup spilled \cup expired \cup OthersAnswers

(* "Events arriving while relaying set again so the in-flight drain loops     *)
(* once more instead of dropping the trigger" (muster-chat.js:118-120): when  *)
(* no drain runs, no mail that was unread at a trigger is still unread --     *)
(* unless the last drain broke off, the plugin was disposed of, or expired    *)
(* entries made its last page look like the end (line 151).                   *)
TriggersHonoured ==
    ~relaying /\ ~broken /\ ~disposed /\ ~short => due \cap Unread = {}
=============================================================================
