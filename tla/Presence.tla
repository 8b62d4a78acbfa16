------------------------------ MODULE Presence ------------------------------
(* One agent address in Valkey -- its row in the directory, its presence key, *)
(* its inbox key -- under the streams the agent opens one after the other,    *)
(* the chats sent to it, and the reapers of several pods.                     *)
(*                                                                            *)
(* The shim reads one stream at a time, but a stream that lost its reader     *)
(* lives on in its pod until the pod notices: old streams ping and clean up   *)
(* next to the current one.  Streams are numbered in the order they open.     *)
(* Every TTL is counted in ticks.                                             *)
EXTENDS Integers

CONSTANTS MaxConns,     \* bound: streams the agent ever opens
          Reapers,      \* pods whose reaper runs
          PingEvery,    \* ping_interval
          PingSlack,    \* how late a ping of a healthy pod may be
          PresenceTtl,  \* presence_ttl
          Retention     \* agent_retention

\* The defaults are 15 s, 60 s and 7 d (config.py); nothing in the code checks
\* that a presence outlives the gap between two pings.
ASSUME PresenceAssumption ==
    /\ MaxConns \in Nat /\ PingEvery \in Nat /\ PingSlack \in Nat
    /\ PresenceTtl \in Nat /\ Retention \in Nat \ {0}
    /\ 2 * (PingEvery + PingSlack) < PresenceTtl

Conns == 1..MaxConns

VARIABLES
    inAgents,    \* the address is in the AGENTS set
    agentTtl,    \* life left in the agent hash, 0 when there is none
    owner,       \* connection_id in the presence key, 0 when there is no key
    presenceTtl, \* life left in the presence key
    inboxKey,    \* the inbox stream exists
    opened,      \* streams opened so far
    current,     \* the stream the shim is reading, 0 when it reads none
    pc,          \* pc[c]: the await stream c is at
    sincePing,   \* sincePing[c]: ticks since c last touched presence
    reaper,      \* reaper[r]: the await reaper r is at
    resolved,    \* a chat has resolved the address and not yet stored
    lastTouch,   \* history: the stream that wrote presence last
    pinged,      \* history: a ping wrote it, not a stream's first touch
    struck,      \* history: since then a reaper has deleted it by accident
    hiddenFor,   \* history: ticks the current stream has had no presence
    raced,       \* history: last registered while a reaper was past its EXISTS
    outlived,    \* history: since then the hash ran out under a running stream
    lateStore    \* history: stored for an agent whose hash was gone

directory == <<inAgents, agentTtl>>
presence  == <<owner, presenceTtl>>
streams   == <<opened, current, pc, sincePing>>
history   == <<lastTouch, pinged, struck, hiddenFor, raced, outlived, lateStore>>
vars == <<inAgents, agentTtl, owner, presenceTtl, inboxKey, opened, current, pc,
          sincePing, reaper, resolved,
          lastTouch, pinged, struck, hiddenFor, raced, outlived, lateStore>>

SetupStates == {"register", "touch", "subscribe"}
LoopStates  == {"loop", "reregister", "retouch"}
PcStates    == SetupStates \cup LoopStates \cup {"unopened", "closing", "gone"}

TypeOK ==
    /\ inAgents \in BOOLEAN
    /\ agentTtl \in 0..Retention
    /\ owner \in 0..MaxConns
    /\ presenceTtl \in 0..PresenceTtl
    /\ owner = 0 <=> presenceTtl = 0
    /\ inboxKey \in BOOLEAN
    /\ opened \in 0..MaxConns
    /\ current \in 0..opened
    /\ pc \in [Conns -> PcStates]
    /\ sincePing \in [Conns -> 0..(PingEvery + PingSlack)]
    /\ reaper \in [Reapers -> {"idle", "listed", "found", "deleted"}]
    /\ resolved \in BOOLEAN
    /\ lastTouch \in 0..MaxConns
    /\ pinged \in BOOLEAN /\ struck \in BOOLEAN
    /\ hiddenFor \in Nat
    /\ raced \in BOOLEAN /\ outlived \in BOOLEAN
    /\ lateStore \in BOOLEAN

Init ==
    /\ inAgents = FALSE
    /\ agentTtl = 0
    /\ owner = 0
    /\ presenceTtl = 0
    /\ inboxKey = FALSE
    /\ opened = 0
    /\ current = 0
    /\ pc = [c \in Conns |-> "unopened"]
    /\ sincePing = [c \in Conns |-> 0]
    /\ reaper = [r \in Reapers |-> "idle"]
    /\ resolved = FALSE
    /\ lastTouch = 0
    /\ pinged = FALSE /\ struck = FALSE
    /\ hiddenFor = 0
    /\ raced = FALSE /\ outlived = FALSE
    /\ lateStore = FALSE

InLoop(c) == c \in Conns /\ pc[c] \in LoopStates

-----------------------------------------------------------------------------
(* What the streams do to the keys.                                           *)

\* Some reaper has seen the hash missing and is about to delete and unlist.
ReaperBusy == \E r \in Reapers : reaper[r] \in {"found", "deleted"}

WriteAgent ==
    /\ inAgents' = TRUE
    /\ agentTtl' = Retention
    /\ raced' = ReaperBusy
    /\ outlived' = FALSE

\* Mutant: HSET without EXPIRE.
WritePresenceForGood(c, ping) ==
    /\ owner' = c
    /\ sincePing' = [sincePing EXCEPT ![c] = 0]
    /\ lastTouch' = c
    /\ pinged' = ping
    /\ struck' = FALSE
    /\ hiddenFor' = 0
    /\ UNCHANGED presenceTtl

WritePresence(c, ping) ==
    /\ owner' = c
    /\ presenceTtl' = PresenceTtl
    /\ sincePing' = [sincePing EXCEPT ![c] = 0]
    /\ lastTouch' = c
    /\ pinged' = ping
    /\ struck' = FALSE
    /\ hiddenFor' = 0

-----------------------------------------------------------------------------
(* A stream's life.                                                           *)

\* The relay loop opens a stream when it reads none.
Open ==
    /\ current = 0
    /\ opened < MaxConns
    /\ opened' = opened + 1
    /\ current' = opened + 1
    /\ pc' = [pc EXCEPT ![opened + 1] = "register"]
    /\ UNCHANGED <<directory, presence, inboxKey, sincePing, reaper,
                   resolved, history>>

Register(c) ==
    /\ pc[c] = "register"
    /\ pc' = [pc EXCEPT ![c] = "touch"]
    /\ WriteAgent
    /\ UNCHANGED <<presence, inboxKey, opened, current, sincePing, reaper, resolved,
                   lastTouch, pinged, struck, hiddenFor, lateStore>>

Touch(c) ==
    /\ pc[c] = "touch"
    /\ pc' = [pc EXCEPT ![c] = "subscribe"]
    /\ WritePresence(c, FALSE)
    /\ UNCHANGED <<directory, inboxKey, opened, current, reaper, resolved,
                   raced, outlived, lateStore>>

\* Subscribed and counted (module Delivery); from here the finally clause runs.
EnterLoop(c) ==
    /\ pc[c] = "subscribe"
    /\ pc' = [pc EXCEPT ![c] = "loop"]
    /\ sincePing' = [sincePing EXCEPT ![c] = 0]
    /\ UNCHANGED <<directory, presence, inboxKey, opened, current,
                   reaper, resolved, history>>

\* A ping asks the resolver first: other groups mean a new registration.
PingResolved(c, groupsChanged) ==
    /\ pc[c] = "loop"
    /\ sincePing[c] >= PingEvery
    /\ pc' = [pc EXCEPT ![c] = IF groupsChanged THEN "reregister" ELSE "retouch"]
    /\ UNCHANGED <<directory, presence, inboxKey, opened, current, sincePing, reaper,
                   resolved, history>>

PingRegister(c) ==
    /\ pc[c] = "reregister"
    /\ pc' = [pc EXCEPT ![c] = "retouch"]
    /\ WriteAgent
    /\ UNCHANGED <<presence, inboxKey, opened, current, sincePing, reaper, resolved,
                   lastTouch, pinged, struck, hiddenFor, lateStore>>

\* Mutant: a ping only renews the TTL of a key that is still there.
PingRenews(c) ==
    /\ pc[c] = "retouch"
    /\ pc' = [pc EXCEPT ![c] = "loop"]
    /\ sincePing' = [sincePing EXCEPT ![c] = 0]
    /\ presenceTtl' = IF owner = 0 THEN 0 ELSE PresenceTtl
    /\ UNCHANGED <<directory, owner, inboxKey, opened, current,
                   reaper, resolved, history>>

PingTouch(c) ==
    /\ pc[c] = "retouch"
    /\ pc' = [pc EXCEPT ![c] = "loop"]
    /\ WritePresence(c, TRUE)
    /\ UNCHANGED <<directory, inboxKey, opened, current, reaper, resolved,
                   raced, outlived, lateStore>>

\* The shim loses the stream (or gives it up after 45 s of silence); its pod
\* knows nothing yet.
LoseReader ==
    /\ current # 0
    /\ current' = 0
    /\ UNCHANGED <<directory, presence, inboxKey, opened, pc, sincePing, reaper,
                   resolved, history>>

Unread(c) == current' = IF current = c THEN 0 ELSE current

\* The try block ends: reader gone, key refused at a ping, Valkey failing --
\* in the loop, or already in the unread check before it.
Leave(c) ==
    /\ pc[c] \in LoopStates \cup {"subscribe"}
    /\ pc' = [pc EXCEPT ![c] = "closing"]
    /\ Unread(c)
    /\ UNCHANGED <<directory, presence, inboxKey, opened, sincePing, reaper,
                   resolved, history>>

\* Mutant: an unconditional DEL.
ClearAnyPresence(c) ==
    /\ pc[c] = "closing"
    /\ pc' = [pc EXCEPT ![c] = "gone"]
    /\ owner' = 0
    /\ presenceTtl' = 0
    /\ UNCHANGED <<directory, inboxKey, opened, current, sincePing, reaper,
                   resolved, history>>

\* clear_presence: one script, deletes the key if c still owns it.
ClearPresence(c) ==
    /\ pc[c] = "closing"
    /\ pc' = [pc EXCEPT ![c] = "gone"]
    /\ owner' = IF owner = c THEN 0 ELSE owner
    /\ presenceTtl' = IF owner = c THEN 0 ELSE presenceTtl
    /\ UNCHANGED <<directory, inboxKey, opened, current, sincePing, reaper,
                   resolved, history>>

\* No cleanup: the pod dies, the cleanup runs into its 5 s deadline, or the
\* reader leaves before the try block.
Vanish(c) ==
    /\ pc[c] \in SetupStates \cup LoopStates \cup {"closing"}
    /\ pc' = [pc EXCEPT ![c] = "gone"]
    /\ Unread(c)
    /\ UNCHANGED <<directory, presence, inboxKey, opened, sincePing, reaper,
                   resolved, history>>

-----------------------------------------------------------------------------
(* The reapers: SMEMBERS, then EXISTS, DEL, SREM, each an await of its own.   *)

ReaperScans(r) ==
    /\ reaper[r] = "idle"
    /\ inAgents
    /\ reaper' = [reaper EXCEPT ![r] = "listed"]
    /\ UNCHANGED <<directory, presence, inboxKey, streams, resolved, history>>

\* Mutant: the reaper takes an offline agent for an expired one.
ReaperTestsPresence(r) ==
    /\ reaper[r] = "listed"
    /\ reaper' = [reaper EXCEPT ![r] = IF owner = 0 THEN "found" ELSE "idle"]
    /\ UNCHANGED <<directory, presence, inboxKey, streams, resolved, history>>

ReaperTests(r) ==
    /\ reaper[r] = "listed"
    /\ reaper' = [reaper EXCEPT ![r] = IF agentTtl = 0 THEN "found" ELSE "idle"]
    /\ UNCHANGED <<directory, presence, inboxKey, streams, resolved, history>>

\* Mutant: the inbox is left out of the DEL.
ReaperKeepsInbox(r) ==
    /\ reaper[r] = "found"
    /\ reaper' = [reaper EXCEPT ![r] = "deleted"]
    /\ owner' = 0
    /\ presenceTtl' = 0
    /\ UNCHANGED <<directory, inboxKey, streams, resolved, history>>

ReaperDelete(r) ==
    /\ reaper[r] = "found"
    /\ reaper' = [reaper EXCEPT ![r] = "deleted"]
    /\ inboxKey' = FALSE
    /\ owner' = 0
    /\ presenceTtl' = 0
    /\ struck' = (raced \/ outlived)
    /\ lateStore' = FALSE
    /\ UNCHANGED <<directory, streams, resolved,
                   lastTouch, pinged, hiddenFor, raced, outlived>>

\* Mutant: the SREM is forgotten.
ReaperNeverUnlists(r) ==
    /\ reaper[r] = "deleted"
    /\ reaper' = [reaper EXCEPT ![r] = "idle"]
    /\ UNCHANGED <<directory, presence, inboxKey, streams, resolved, history>>

ReaperSrem(r) ==
    /\ reaper[r] = "deleted"
    /\ reaper' = [reaper EXCEPT ![r] = "idle"]
    /\ inAgents' = FALSE
    /\ UNCHANGED <<agentTtl, presence, inboxKey, streams, resolved, history>>

\* A pod dies, or a cycle fails on Valkey, between two of them.
ReaperStops(r) ==
    /\ reaper[r] # "idle"
    /\ reaper' = [reaper EXCEPT ![r] = "idle"]
    /\ UNCHANGED <<directory, presence, inboxKey, streams, resolved, history>>

-----------------------------------------------------------------------------
(* Chats to the address: list_agents, later XADD.                             *)

Listed == inAgents /\ agentTtl > 0

ChatResolve ==
    /\ Listed
    /\ resolved' = TRUE
    /\ UNCHANGED <<directory, presence, inboxKey, streams, reaper, history>>

ChatStore ==
    /\ resolved
    /\ resolved' = FALSE
    /\ inboxKey' = TRUE
    /\ lateStore' = (lateStore \/ agentTtl = 0)
    /\ UNCHANGED <<directory, presence, streams, reaper,
                   lastTouch, pinged, struck, hiddenFor, raced, outlived>>

-----------------------------------------------------------------------------
\* Healthy pods ping in time, and the awaits between registration and the loop
\* take no longer than a ping may.
Hasty(c) == pc[c] \in LoopStates \cup {"touch", "subscribe"}

Hidden == InLoop(current) /\ owner = 0

Tick ==
    /\ \A c \in Conns : Hasty(c) => sincePing[c] < PingEvery + PingSlack
    /\ sincePing' = [c \in Conns |-> IF Hasty(c) THEN sincePing[c] + 1 ELSE 0]
    /\ agentTtl' = IF agentTtl > 0 THEN agentTtl - 1 ELSE 0
    /\ presenceTtl' = IF presenceTtl > 0 THEN presenceTtl - 1 ELSE 0
    /\ owner' = IF presenceTtl > 1 THEN owner ELSE 0
    /\ hiddenFor' = IF Hidden THEN hiddenFor + 1 ELSE 0
    /\ outlived' = (outlived \/ (agentTtl = 1 /\ \E c \in Conns : Hasty(c)))
    /\ UNCHANGED <<inAgents, inboxKey, opened, current, pc, reaper, resolved,
                   lastTouch, pinged, struck, raced, lateStore>>

Stream(c) ==
    \/ Register(c)
    \/ Touch(c)
    \/ EnterLoop(c)
    \/ \E groupsChanged \in BOOLEAN : PingResolved(c, groupsChanged)
    \/ PingRegister(c)
    \/ PingTouch(c)
    \/ Leave(c)
    \/ ClearPresence(c)
    \/ Vanish(c)

Reap(r) ==
    \/ ReaperScans(r)
    \/ ReaperTests(r)
    \/ ReaperDelete(r)
    \/ ReaperSrem(r)
    \/ ReaperStops(r)

Next ==
    \/ Open
    \/ LoseReader
    \/ \E c \in Conns : Stream(c)
    \/ \E r \in Reapers : Reap(r)
    \/ ChatResolve
    \/ ChatStore
    \/ Tick

(* Time passes; a pod finds out in the end that nobody reads a stream (writes *)
(* fail), finishes its cleanup or dies; reaping cycles keep coming round      *)
(* (reaper.py:24-30 logs a failure and goes on), and not all of them fail.   *)
Fairness ==
    /\ WF_vars(Tick)
    /\ \A c \in Conns :
        /\ WF_vars(Register(c)) /\ WF_vars(Touch(c)) /\ WF_vars(EnterLoop(c))
        /\ WF_vars((\E changed \in BOOLEAN : PingResolved(c, changed))
                      \/ PingRegister(c) \/ PingTouch(c))
        /\ WF_vars(current # c /\ Leave(c))
        /\ WF_vars(ClearPresence(c))
    /\ \E r \in Reapers :
        /\ WF_vars(ReaperScans(r))
        /\ SF_vars(ReaperTests(r)) /\ SF_vars(ReaperDelete(r)) /\ SF_vars(ReaperSrem(r))

Safety == Init /\ [][Next]_vars
Spec   == Safety /\ Fairness

-----------------------------------------------------------------------------
(* An agent whose stream is running shows offline for two reasons only: an    *)
(* older stream of its own wrote presence last (and then went), or a reaper   *)
(* deleted the presence the agent wrote last, which takes an accident: it had *)
(* tested EXISTS before the agent came back, or the hash ran out while the    *)
(* agent was connected (stream.py:33-71, reaper.py:14-17).                    *)
HiddenOnlyIf == Hidden => lastTouch # current \/ struck

(* And it heals: the next ping writes presence again, so it never stays       *)
(* hidden longer than a ping may take (stream.py:49-60).                      *)
HiddenAtMostOnePing == hiddenFor <= PingEvery + PingSlack

(* A connected agent is in the directory, unless it was last registered while *)
(* a reaper was past its EXISTS, or its hash has run out since (store.py:28,  *)
(* stream.py:33, 55-59).                                                      *)
UnlistedOnlyIf == InLoop(current) => Listed \/ raced \/ outlived

(* The reapers leave no inbox behind that no directory entry leads to, unless *)
(* the last registration came between a reaper's EXISTS and its SREM, or a    *)
(* chat that had resolved the agent stored after its hash was gone -- while a *)
(* reaper was at work or after it (ops.py:50-59, reaper.py:14-17).  Nothing   *)
(* ever collects such an inbox.                                               *)
OrphanOnlyIf == inboxKey /\ ~inAgents => raced \/ lateStore

(* When the agent has gone for good it goes offline and, after its retention, *)
(* out of the directory -- whether its pods cleaned up, died, or went on      *)
(* pinging a dead connection (store.py:38, stream.py:63-71, reaper.py:12-21). *)
GoneAgentFades ==
    <>[](current = 0 /\ opened = MaxConns) => <>[](owner = 0 /\ ~inAgents)

(* "prevents a late-closing interrupted connection A from deleting the        *)
(* presence of its own successor B" (spec-v2:232; stream.py:71 "no-op if a    *)
(* successor took over").  An A that pings once more after B has written      *)
(* presence takes it back, and its close then deletes it (stream.py:60, 71).  *)
(* `pinged` leaves out an A whose first touch came late.                      *)
LateCloseSparesSuccessor ==
    [][\A c \in Conns : ClearPresence(c) /\ c < current /\ InLoop(current) /\ pinged
            => owner' = owner]_vars

(* "disappear if the agent never reconnects" (spec-v2:206), "online = valid   *)
(* active stream -> deliverable now" (spec-v2:209): a connected agent can be  *)
(* sent to.  A stream refreshes presence at every ping but the agent's hash   *)
(* only when it opens or its groups change (stream.py:33, 55-60).             *)
ConnectedIsListed == InLoop(current) => Listed
=============================================================================
