------------------------------- MODULE Inbox -------------------------------
(* One agent's inbox in Valkey and everything that touches it: chat appends   *)
(* (XADD MAXLEN ~), messages expire, the reaper deletes the keys, and any     *)
(* number of the agent's own fetches run at the same time, on one pod or on   *)
(* several.  The keys of different agents are independent, so one inbox       *)
(* stands for all of them.                                                    *)
(*                                                                            *)
(* A fetch is four separate round trips, and the steps of others come between *)
(* them: GET cursor, XRANGE, SET cursor, answer.                              *)
EXTENDS Integers, FiniteSets

CONSTANTS Fetchers,      \* fetch requests that may be in flight together
          Limits,        \* page sizes a fetch may ask for
          InboxMaxLen,   \* XADD's MAXLEN
          MaxMsgs        \* bound: messages ever appended

ASSUME InboxAssumption ==
    /\ Limits \subseteq Nat \ {0}
    /\ InboxMaxLen \in Nat \ {0}
    /\ MaxMsgs \in Nat

Ids == 1..MaxMsgs

VARIABLES
    inbox,      \* the stream: the ids it still holds
    lastId,     \* newest id ever given out; Valkey's clock keeps ids growing
    cursor,     \* the cursor key, 0 when there is none
    expired,    \* ids that are past their expires_at
    pc,         \* pc[f]: the await fetch f is at
    start,      \* start[f]: the cursor f has read, 0 once f is over
    page,       \* page[f]: the entries f has read and not yet answered
    acked,      \* history: entries some fetch has moved the cursor over
    shown,      \* history: messages an answer has brought to the agent
    repeated,   \* history: messages brought more than once
    lost,       \* history: messages whose answer never arrived
    overlap     \* history: two fetches have been in flight together

storeVars == <<inbox, lastId, cursor, expired>>
fetchVars == <<pc, start, page>>
history   == <<acked, shown, repeated, lost, overlap>>
vars      == <<inbox, lastId, cursor, expired, pc, start, page,
               acked, shown, repeated, lost, overlap>>

PcStates == {"idle", "range", "advance", "filter", "reply"}

TypeOK ==
    /\ lastId \in 0..MaxMsgs
    /\ inbox \in SUBSET (1..lastId)
    /\ cursor \in 0..lastId
    /\ expired \in SUBSET (1..lastId)
    /\ pc \in [Fetchers -> PcStates]
    /\ start \in [Fetchers -> 0..lastId]
    /\ page \in [Fetchers -> SUBSET (1..lastId)]
    /\ acked \in SUBSET (1..lastId)
    /\ shown \in SUBSET (1..lastId)
    /\ repeated \in SUBSET (1..lastId)
    /\ lost \in SUBSET (1..lastId)
    /\ overlap \in BOOLEAN

Init ==
    /\ inbox = {}
    /\ lastId = 0
    /\ cursor = 0
    /\ expired = {}
    /\ pc = [f \in Fetchers |-> "idle"]
    /\ start = [f \in Fetchers |-> 0]
    /\ page = [f \in Fetchers |-> {}]
    /\ acked = {}
    /\ shown = {}
    /\ repeated = {}
    /\ lost = {}
    /\ overlap = FALSE

\* Mutant: the newest entries instead of the oldest.
PageNewestFirst(cur, limit) ==
    {i \in inbox : /\ cur < i
                   /\ Cardinality({j \in inbox : i <= j}) <= limit}

\* Mutant: the "(" of the exclusive range is missing.
PageInclusive(cur, limit) ==
    {i \in inbox : /\ cur <= i
                   /\ Cardinality({j \in inbox : cur <= j /\ j <= i}) <= limit}

\* The first limit entries past the cursor: XRANGE (cur + COUNT limit.
Page(cur, limit) ==
    {i \in inbox : /\ cur < i
                   /\ Cardinality({j \in inbox : cur < j /\ j <= i}) <= limit}

\* What of a set is still alive.
Live(S) == S \ expired

-----------------------------------------------------------------------------
(* The other users of the keys.                                               *)

\* XADD MAXLEN ~: trimming is approximate, so Valkey may keep more than
\* InboxMaxLen entries but never removes one that leaves fewer.
AppendMessage(trimTo) ==
    LET new  == lastId + 1
        kept == {i \in inbox \cup {new} : trimTo < i}
    IN /\ lastId < MaxMsgs
       /\ kept = inbox \cup {new} \/ Cardinality(kept) >= InboxMaxLen
       /\ new \in kept
       /\ inbox' = kept
       /\ lastId' = new
       /\ UNCHANGED <<cursor, expired, fetchVars, history>>

\* expires_at is taken from the chat pod's clock before its XADD, so of two
\* messages the later one in the stream may expire first.
Expire(i) ==
    /\ i \notin expired
    /\ expired' = expired \cup {i}
    /\ UNCHANGED <<inbox, lastId, cursor, fetchVars, history>>

\* The reaper's DEL of inbox and cursor in one command.  Its EXISTS test is an
\* earlier await; by the time the DEL lands the agent may be back, so no guard
\* on the agent holds here (module Presence has the test and what follows).
ReaperDelete ==
    /\ inbox' = {}
    /\ cursor' = 0
    /\ UNCHANGED <<lastId, expired, fetchVars, history>>

-----------------------------------------------------------------------------
(* fetch_unread, one action per await.                                        *)

FetchGet(f) ==
    /\ pc[f] = "idle"
    /\ pc' = [pc EXCEPT ![f] = "range"]
    /\ start' = [start EXCEPT ![f] = cursor]
    /\ overlap' = (overlap \/ \E g \in Fetchers : pc[g] # "idle")
    /\ UNCHANGED <<storeVars, page, acked, shown, repeated, lost>>

IsLast(last, S) == last \in S /\ \A i \in S : i <= last

\* Mutant: the cursor moves as soon as the page is read.
FetchRangeAdvances(f, limit) ==
    /\ pc[f] = "range"
    /\ Page(start[f], limit) # {}
    /\ pc' = [pc EXCEPT ![f] = "advance"]
    /\ page' = [page EXCEPT ![f] = Page(start[f], limit)]
    /\ \E last \in Page(start[f], limit) :
           IsLast(last, Page(start[f], limit)) /\ cursor' = last
    /\ UNCHANGED <<inbox, lastId, expired, start, history>>

FetchRange(f, limit) ==
    /\ pc[f] = "range"
    /\ Page(start[f], limit) # {}
    /\ pc' = [pc EXCEPT ![f] = "advance"]
    /\ page' = [page EXCEPT ![f] = Page(start[f], limit)]
    /\ UNCHANGED <<storeVars, start, history>>

\* if not entries: return [] -- the cursor stays where it is.
FetchNothing(f, limit) ==
    /\ pc[f] = "range"
    /\ Page(start[f], limit) = {}
    /\ pc' = [pc EXCEPT ![f] = "idle"]
    /\ start' = [start EXCEPT ![f] = 0]
    /\ UNCHANGED <<storeVars, page, history>>

\* Mutant: the cursor jumps to the stream's newest entry.
FetchAdvanceToNewest(f, last) ==
    /\ pc[f] = "advance"
    /\ IsLast(last, page[f])
    /\ pc' = [pc EXCEPT ![f] = "filter"]
    /\ cursor' = lastId
    /\ acked' = acked \cup page[f]
    /\ UNCHANGED <<inbox, lastId, expired, start, page, shown, repeated, lost, overlap>>

\* Mutant: the cursor is taken for the next entry to read.
FetchAdvancePastLast(f, last) ==
    /\ pc[f] = "advance"
    /\ IsLast(last, page[f])
    /\ pc' = [pc EXCEPT ![f] = "filter"]
    /\ cursor' = last + 1
    /\ acked' = acked \cup page[f]
    /\ UNCHANGED <<inbox, lastId, expired, start, page, shown, repeated, lost, overlap>>

\* SET cursor entries[-1]: unconditional, whatever the cursor is by now.
FetchAdvance(f, last) ==
    /\ pc[f] = "advance"
    /\ IsLast(last, page[f])
    /\ pc' = [pc EXCEPT ![f] = "filter"]
    /\ cursor' = last
    /\ acked' = acked \cup page[f]
    /\ UNCHANGED <<inbox, lastId, expired, start, page, shown, repeated, lost, overlap>>

\* Back from SET: entries past their expires_at are left out of the answer.
FetchFilter(f) ==
    /\ pc[f] = "filter"
    /\ pc' = [pc EXCEPT ![f] = "reply"]
    /\ page' = [page EXCEPT ![f] = Live(page[f])]
    /\ UNCHANGED <<storeVars, start, history>>

FetchReply(f) ==
    /\ pc[f] = "reply"
    /\ pc' = [pc EXCEPT ![f] = "idle"]
    /\ page' = [page EXCEPT ![f] = {}]
    /\ repeated' = repeated \cup (page[f] \cap shown)
    /\ shown' = shown \cup page[f]
    /\ start' = [start EXCEPT ![f] = 0]
    /\ UNCHANGED <<storeVars, acked, lost, overlap>>

\* The request dies: the pod stops between two awaits, Valkey fails, or the
\* client gave up (15 s) and nobody reads the answer.  Whatever was read and
\* already acknowledged is lost with it.
FetchDies(f) ==
    /\ pc[f] # "idle"
    /\ pc' = [pc EXCEPT ![f] = "idle"]
    /\ page' = [page EXCEPT ![f] = {}]
    /\ lost' = IF pc[f] \in {"filter", "reply"} THEN lost \cup page[f] ELSE lost
    /\ start' = [start EXCEPT ![f] = 0]
    /\ UNCHANGED <<storeVars, acked, shown, repeated, overlap>>

-----------------------------------------------------------------------------
Fetch(f) ==
    \/ FetchGet(f)
    \/ \E limit \in Limits : FetchRange(f, limit)
    \/ \E limit \in Limits : FetchNothing(f, limit)
    \/ \E last \in page[f] : FetchAdvance(f, last)
    \/ FetchFilter(f)
    \/ FetchReply(f)
    \/ FetchDies(f)

Next ==
    \/ \E trimTo \in 0..lastId : AppendMessage(trimTo)
    \/ \E i \in 1..lastId : Expire(i)
    \/ ReaperDelete
    \/ \E f \in Fetchers : Fetch(f)

Spec == Init /\ [][Next]_vars

-----------------------------------------------------------------------------
(* Messages on their way back to the agent in an answer. *)
InReply == UNION {page[f] : f \in {g \in Fetchers : pc[g] \in {"filter", "reply"}}}

(* The cursor never moves over mail that is still good and was not handed to  *)
(* somebody: a stored, unexpired message at or below the cursor was shown, is *)
(* on its way back, or went down with an answer that was lost.  This is what  *)
(* "fetch IS the ack" (store.py:104) must mean while fetches race each other, *)
(* XADD's trimming and the reaper.                                            *)
NoSilentSkip ==
    \A i \in Live(inbox) : i <= cursor => i \in shown \cup lost \cup InReply

(* No message overtakes an older one: when the agent has seen a message, every*)
(* older one that is still stored and alive was shown, is in an answer, or was*)
(* lost with one -- even after a stale SET has moved the cursor back          *)
(* (store.py:109).                                                            *)
NothingOvertakes ==
    \A i \in Live(inbox) : \A j \in shown :
        i < j => i \in shown \cup lost \cup InReply

(* A message comes twice only if two fetches of the agent were in flight      *)
(* together: deaths, trimming, expiry and the reaper alone never repeat one   *)
(* (store.py:97-113).                                                         *)
RepeatsOnlyAfterOverlap == repeated # {} => overlap

(* "Unicast is at-least-once; fetch is the acknowledgment" (spec-v2:277, whose*)
(* list of crash windows ends before this one): a good message below the      *)
(* cursor has been returned or still is in an answer.  An answer lost after   *)
(* the SET (store.py:109) takes its messages with it.                         *)
AtLeastOnce == \A i \in Live(inbox) : i <= cursor => i \in shown \cup InReply

(* The inbox keeps the promise of module Mailbox: only retention takes a      *)
(* message from the unread mail that no fetch was handed (store.py:86-113).   *)
Waiting == {i \in Live(inbox) : cursor < i}
Gone    == {i \in 1..lastId : i \notin Live(inbox)}

Contract == INSTANCE Mailbox WITH
    Messages <- Ids, accepted <- 1..lastId, waiting <- Waiting,
    handed <- acked, gone <- Gone

KeepsContract == Contract!Spec
=============================================================================
