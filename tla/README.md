# Muster: a verification project

Muster is a message bus for coding agents: `server/muster_api` (FastAPI over
Valkey, any number of pods), a channel shim for Claude Code
(`plugins/muster/mcp`) and a plugin for OpenCode (`plugins/muster/opencode`).
This directory holds TLA+ models of its core, the TLC configurations that check
them, and TLAPS proofs. Line references in comments are into the source tree;
`spec-v2` is `docs/superpowers/specs/2026-08-27-muster-v1-central-bus-spec-v2.md`.
`PROJECT.json` maps every definition to the lines it models and lists runs,
mutants, hazards, findings and theorems.

    tlc -workers 2 -config MCInbox.cfg MCInbox      # any MC*.cfg with its module
    tlapm InboxProofs.tla

## 1. The system

| component | state it keeps | operations | correct when |
|---|---|---|---|
| inbox store (`store.py:86-119`) | per agent: stream `inbox`, key `cursor` | XADD MAXLEN ~, fetch (GET, XRANGE, SET), unread count (GET, XRANGE) | no mail is passed over unread, none overtakes, repeats only where fetches race |
| chat (`ops.py:14-63`) | none; rate key | resolve, check, XADD, PUBLISH | what is stored is nudged for or found by the next unread check |
| stream (`stream.py`) | pub/sub subscription, `connection_id`, trusted identity | register, touch presence, subscribe, count, forward, ping, clean up | an online agent learns of all its mail; presence follows the connection |
| presence and registry (`store.py:21-75`) | set `agents`, hash `agent:*` (TTL), hash `presence:*` (TTL) | register, touch, clear-if-owner, list | a connected agent is listed and online, a gone one fades |
| reaper (`reaper.py`) | none | SMEMBERS, EXISTS, DEL, SREM | expired agents leave nothing behind, live ones lose nothing |
| Claude shim (`muster_channel.py`, `httpbus.py`) | `seen` LRU, back-off | relay loop, tools | every nudge of new mail reaches the session |
| OpenCode plugin (`muster-chat.js`) | session id, `relaying`, `again`, `pendingWakes`, `seen` | drain, wake, hooks, fetch tool, dispose | fetched mail is woken for, once and in order; no trigger is lost |
| authenticator (`auth.py`) | per pod: cache key hash -> identity, expiry | resolve | what is trusted was true recently; a refusal ends it |
| rate limiter (`store.py:122-134`) | counter key with TTL | INCR, EXPIRE NX, TTL, re-arm | a bound on what gets through, an honest `retry_after`, never stuck |
| directory (`identity.py`, `ops.py:8-152`, `store.py:55-75`) | none | list, match references, ACL, roster, announce | one ACL predicate everywhere, no arbitrary delivery, nothing left out silently |
| addresses (`naming.py`, `gitmeta.py`, `identity.py:22-28`) | none | derive, parse | every client's header is accepted |
| SSE and reconnect (`stream.py`, `httpbus.py`, both relays) | parser state, back-off | frame, parse, time out, retry | events arrive whole, waits fit what the bus showed |
| HTTP wiring, config, metrics, deployment | -- | -- | see section 6 |

**How they meet.** All server state is in Valkey; a pod keeps nothing but its
identity cache and its open streams. Chat and stream meet in the inbox and in
pub/sub; stream and reaper in the registry keys; a client meets the server in
two independent ways, the stream (nudges, presence) and `fetch` (mail, cursor).
A nudge never moves the cursor.

**What is hard here.** Nothing is locked: every Valkey round trip is an `await`
between which other requests, pods and the reaper act. `fetch_unread` is a
read-read-write over two keys; the reaper's test and its deletes are three
steps; a stream outlives its reader until its pod notices; the shim gives up a
request after 15 s while the server goes on with it; a stored message and its nudge are two
commands with a crash window between them; the plugin's drain awaits whole
agent turns; a listing is read row by row from a directory that moves; a rate
window can end between the steps that ask about it; a connection can break in the
middle of a line. `PROJECT.json` lists the hazards line by line.

## 2. The modules

| module | models | composes |
|---|---|---|
| `Mailbox` | the abstract contract: accepted mail waits until it is handed over or dropped by retention | -- |
| `Inbox` | one inbox, any number of concurrent fetches, XADD's trimming, expiry, the reaper's DEL | refines `Mailbox` |
| `InboxProofs` | theorems about `Inbox` | `Inbox` |
| `Delivery` | chat's XADD/PUBLISH, the stream's subscribe/count/forward, the shim's relay, restarts | extends `Inbox` |
| `DeliveryProofs` | theorems about `Delivery` | `Delivery`, `InboxProofs` |
| `Presence` | registry, presence, streams of one agent, reapers, chats that resolve it | -- |
| `PresenceProofs` | theorems about `Presence` | `Presence` |
| `OpenCode` | the plugin's drain, stream reader, hooks, fetch tool | extends `Inbox` |
| `OpenCodeProofs` | theorems about `OpenCode` | `OpenCode`, `InboxProofs` |
| `Auth` | one pod's identity cache, requests, a stream, a resolver that changes its mind | -- |
| `AuthProofs` | theorems about `Auth` | `Auth` |
| `RateLimit` | one counter key, any number of concurrent requests of its sender | -- |
| `RateLimitProofs` | theorems about `RateLimit` | `RateLimit` |
| `Directory` | one caller's chat, roster or announce over a directory that changes under it | -- |
| `DirectoryProofs` | theorems about `Directory` | `Directory` |
| `Wire` | the derived address, the frames of one stream at a time, both parsers and reconnect loops | -- |
| `WireProofs` | theorems about `Wire` | `Wire` |

The keys of different agents (and of different API keys) are independent, so one
agent -- one key -- stands for all of them. Message contents never decide
anything: a message is its id, and ids grow as Valkey's do.

**`Inbox`.** `inbox`, `cursor` are the two keys. `FetchGet`, `FetchRange` /
`FetchNothing`, `FetchAdvance`, `FetchFilter`, `FetchReply` are the stretches of
`fetch_unread` and `op_fetch` between awaits; `FetchDies` is a pod that stops, a failing
Valkey or a client that has given up. `expires_at` is taken from the chat pod's clock
before its XADD, so of two messages the later one may expire first: `expired` is a set
and `Expire(i)` any message's. `AppendMessage(trimTo)` may trim old entries but, `MAXLEN
~` being approximate, need not, and never below `InboxMaxLen`. `ReaperDelete` carries no
guard: the test that precedes it is `Presence`'s business, and by the time the DEL lands
it may no longer hold.

**`Delivery`.** The fetches are `Inbox`'s. `channel` is what PUBLISH has put
into the stream's pub/sub connection, `wire` what is on its way to the shim,
`backlog` the unread event (one event for all the mail it counts). The three
ways a nudge can get lost while the stream stays up -- the chat's pod dies
before PUBLISH, a push fails after the id was marked seen, the unread check
finds only expired entries in its window -- are the variables `missed` and
`uncounted`, so that the properties can say "these and no others".

**`Presence`.** Streams are numbered in the order they open; `current` is the
one the shim reads, the others live on in their pods. `pc` walks through the
generator of `stream.py`. Up to `EnterLoop` no `finally` is in force, so a
reader that leaves there leaves presence behind (`Vanish`). A ping is
resolve, perhaps re-register, touch. Time is `Tick`; TTLs count down. A healthy
pod pings within `PingEvery + PingSlack` and takes no longer for its set-up.
History: `raced` (the last registration, a stream's or a ping's, came while a reaper
was past its EXISTS), `outlived` (the hash has run out since, the stream connected),
`lastTouch` and `pinged` (which stream wrote presence last, and whether by a ping),
`struck` (a reaper has deleted what it wrote), `lateStore` (a chat stored when the hash
was gone).

**`OpenCode`.** JavaScript interleaves only at awaits. The stream's reader
awaits the drain it starts but not one it finds running (then it sets `again`);
the first session's hook starts one with no event behind it. A request itself
is `Inbox`'s, an empty answer's way back being a step of its own ("empty"), and it is
more than its caller: the one the drain waits for is `mine`, and when the drain gives up
(`DrainFetchFails`) it goes on among the `abandoned`, whose SET may land at any later
time. `muster_fetch` takes no lock, so every other request is a call of the tool, any
number of them at once. An answer that breaks off behind its headers leaves `rpc` with
an object without messages; by then the statement has emptied `pendingWakes`, and what
was held there is gone (`DrainAnswerTorn`, history `spilled`). `Retention` is expiry and
the reaper's DEL, which can meet a connected agent that has outlived its hash. An
announce's own turn is left out: it makes the reader later and touches nothing here.

**`Auth`.** `truth` is what the resolver would say now, `age[g]` how long ago it
last was `g`. Misses are not coalesced, so answers can come back out of order: `saidNo`,
`underway` and `sinceNo` remember the last refusal, whether a grant was on its way just
then, and how long ago that is. That a question ends within `Latency` is assumed of the
resolver: the client's timeout (`auth.py:33`) bounds each of its waits but not their sum.

**`RateLimit`.** INCR and EXPIRE NX are one transaction (`Exec`); TTL (`ReadTtl`,
`ReadNoTtl`) and the re-arming EXPIRE (`Rearm`) are round trips of their own, and
`Tick` may end the window between any two. The counter is kept up to one past the
limit, beyond which all values are alike. `patience` is what a refused caller was
told, counted down with Valkey's clock; `admits`, `age` and `rearmed` are history.

**`Directory`.** `ListMembers`, `ListHash`, `ListExists` are the commands of
`list_agents`, which are pipelined but no transaction; then a request resolves, filters
or fans out over the rows it read. The rest of the system appears by what it does to the
four keys (`Moves`): streams register, regroup, touch, subscribe and drop, rows expire,
presence ends, reapers unlist, in any order, the caller's own row among them --
`Presence` says which orders occur. An address is the sequence of its segments and
`matches` is "is a contiguous part of", which is what comparing joined strings amounts
to as no segment holds a slash. `ever`, `steady` and `steadyOn` remember who was visible
at some time, all along, and all along with a listening stream, so that the properties
can say what a torn listing still owes its caller. The limiter's answer comes when it
comes in the code: after the listing for a chat, before it for an announcement.

**`Wire`.** The header is the one value worked out character by character, since its
property is about characters: `seg` strips, dashes and falls back as the regular
expression does, `git_identity` works on paths, `parse_agent_header` counts slashes. The
other header of a stream's request, `x-muster-meta`, is one bit (`sendable`): the shim
escapes its JSON, the plugin does not (`muster-chat.js:162`), so a plugin in a directory
called what Latin-1 cannot say never gets a stream. A stream is a sequence of lines;
`Breaks` lets a prefix of what is on its way arrive, with half a line at its end if it
likes. The two clients are one state machine with the differences between them spelt
out: the shim's reader passes pings on, leaves at an error frame and after 45 s of
silence, and sees half a last line; the plugin's resets its wait on any bytes and keeps
half a line in its buffer. `barren` and `idle` count the waits since anything, and since
a whole frame, was read.

## 3. The runs

Every run finishes on two cores in under three minutes. Every property of a passing
run has a mutant -- a plausible bug in one mapped definition -- that TLC finds.

| run | checks | instance |
|---|---|---|
| `inbox` | `NoSilentSkip`, `NothingOvertakes`, `RepeatsOnlyAfterOverlap`, refinement of `Mailbox` | 2 fetches, 3 messages, pages of 1 and 2, MAXLEN 2 |
| `inbox_at_least_once` (violation) | "unicast is at-least-once" | as above |
| `delivery` | `NoLostNudge`, `ReconnectCovers`, `EventuallyTold` | 1 sender, 1 fetch, 2 messages, 1 drop, count window 1 |
| `presence` | `HiddenOnlyIf`, `HiddenAtMostOnePing`, `UnlistedOnlyIf`, `OrphanOnlyIf`, `GoneAgentFades` | 2 streams, 1 reaper; ping 1, presence 3, retention 4 ticks |
| `presence_late_close` (violation) | a close spares a successor, even when the old stream has pinged after it | as above |
| `presence_listed` (violation) | a connected agent can be sent to | as above |
| `opencode` | `HandedIsKept`, `DoubledOnlyIf`, `HeldGoesFirst`, `TriggersHonoured` | 2 requests in flight (drain, tool, abandoned), 2 messages, pages of 1, 1 fault |
| `auth` | `CacheIsRecent`, `StreamTrustIsBounded`, `LateGrantsOnly`, `RevocationLands` | 1 request beside 1 stream, 2 identities; TTL 2, latency 1, ping 1 + 1 |
| `auth_refusal` (violation) | "'the resolver said no' is never served from cache" | as above |
| `ratelimit` | `SlidingBound`, `WindowIsBounded`, `RetryCovers`, `AdmittedAgain` | 3 requests, limit 2, window 3 ticks |
| `directory` | `OnlyVisibleHear`, `NoArbitraryDelivery`, `ShortestUnique`, `SteadyHear`, `RosterAccounts` | the caller, another agent of its user, an agent of another user that differs from the caller in the user only; up to 3 changes during a request, of the caller's row too |
| `wire` | `HeaderAccepted`, `EventsArriveWhole`, `BackoffFits` | host names of up to 3 characters, 9 repository layouts; 4 frames a connection, any number of connections, cap 6 |

**Why these bounds.** Two racing fetches are all it takes for a stale SET or a double
read; three messages give a page with a successor and one that is trimmed or expires in
between; pages of 1 and 2 let a page end inside and at the end of the stream. In
`Delivery` one drop gives a stream and its successor, a count window of 1 lets one
expired entry fill it. One sender is enough for the run because the safety properties
are proved for any number; two were checked as well. In `Presence` two streams are the
old one and its successor; the scale keeps the order ping < presence < retention of 15
s, 60 s and 7 d, and with 4 ticks of retention a stream outlives its hash. The reaper's
interval is not in the model: a cycle may begin at any time. A page of 1 makes every
answer of `OpenCode` either full or empty, and one expired entry makes a full page look
short. Two requests are the drain's and one beside it, be it a call of the tool or one
an earlier drain gave up. In `RateLimit` three requests are two that re-arm and one that
is refused by what they did, and a window of three ticks has a first, a last and an
inner one. In `Directory` three changes let one agent leave and come back with other
groups, or an agent come online as another goes. In `Wire` four frames hold an event
after, before and between pings; a cap of 6 is, like 60, no power of two. Larger
instances tried during development (two reapers, two faults in the plugin, a fourth
agent in the directory) hold as well, and so does `HeldGoesFirst` with three requests
and three messages in an instance without expiry, disposal and lost streams (413,456
states). That one has what the run is too small for: two calls of the tool race, the
stale SET of one puts the cursor back, and the next drain queues behind held mail what
is older than it and already on its way to the agent in the other's answer -- the clause
`OthersAnswers`. `MaxMsgs`, `MaxDrops`, `MaxFaults`, `MaxConns`, `MaxMoves`, `MaxFrames`
and `MaxSleeps` are bounds of the models; the code has none of them. `MCOpenCode` and
`MCDirectory` use a VIEW. The first leaves out what can no longer decide a property:
parts of the histories, and of variables the code will overwrite before it reads them;
its two requests are symmetric. The second leaves out, while a chat or a roster runs,
the keys it does not read, which all count again between requests.

No run disables deadlock checking: expiry, fetches or ticks are always possible.

**Fairness.** Safety needs none. `EventuallyTold` assumes that a chat that has stored
goes on or dies, that the pod's event loop runs the stream's steps and every published
nudge is forwarded in the end (`get_message` once a second), and that the shim reads and
reconnects (`while True`, `muster_channel.py:261`); nothing makes the agent fetch.
`GoneAgentFades` assumes that time passes, that a pod notices in the end that nobody
reads a stream (`is_disconnected`, failing writes), and that reaper cycles recur and not
all fail (strong fairness on its steps: `run_forever` logs and goes on,
`reaper.py:24-30`). `RevocationLands` assumes that time passes, that questions end (the
HTTP client times out, and see `Latency` above) and that a running stream pings.
`AdmittedAgain` assumes only that time passes: requests may come as they like, die, or
hammer the limiter for ever.

## 4. What the checks show

* A fetch is safe without a lock. Whatever races, trims, expires or dies, the
  cursor never passes live mail that nobody was handed, no message overtakes an
  older one, and the inbox implements `Mailbox`. A stale SET can move the cursor
  back, which repeats mail, but only after two fetches overlapped.
* While a stream is up every unread message has been told, is on its way, or is
  one of three named losses, and every reconnect makes up for all but the last.
* A connected agent shows offline only after an older stream of its own wrote
  presence last, or after a reaper deleted what it wrote, which takes a race with its
  last registration or a hash that ran out while it was connected; the next ping heals
  presence (but not the listing).
* The plugin keeps what it was handed until there was a turn for it, short of its own
  end and of held mail that an answer torn behind its headers takes along
  (`muster-chat.js:137`); doubles it only when a wake failed half-way or fetches
  overlapped; and honours every trigger except after a failed drain or a page shortened
  by expired entries. Nothing waits behind something newer that had its turn, but for
  what a stale SET brings back after some answer brought it, lost it, left it out as
  expired, or while one still has it.
* What the cache or a stream trusts has a bound: TTL and latency for the cache;
  TTL, ping, its slack and two latencies for a stream (spec-v2:171 says the TTL alone).
  After a refusal the cache serves only what was on its way at that moment, for a latency
  and a TTL at most, until a later question is granted.

* A sender gets at most twice its limit through in any span of a window's length
  (the window is fixed; spec-v2:334 speaks of a token bucket). Refused attempts do not
  prolong a window; only a request refused by the window before can, once, by
  re-arming a key that is not its own any more. Apart from that, whoever waits as
  long as it was told is not refused by the same window.
* However torn a listing is, a chat never goes to one of two agents that fit its
  reference all along, nobody the caller could not see is reached, a reference that
  is unique throughout is honoured, whoever listens throughout hears the
  announcement, and what a roster counts as hidden in a project lies between the agents
  there throughout that pass its filters and are no row of it and the agents seen at any
  moment that are no row of it.
* No host, directory or repository name makes an `x-muster-agent` header unacceptable. Streams
  may break anywhere: neither client passes on a torn or foreign event. Pings alone
  keep the wait short; silence makes it grow to the cap.

**Disagreements found** (each a run TLC violates; details in `findings`): an answer
lost after the SET loses its mail (spec-v2:277); an old stream that pings once more
after its successor wrote presence takes it back, and its close deletes it (spec-v2:232,
`stream.py:60, 71`; a first touch that comes late, `stream.py:34`, does the same, and the
property leaves that case out so that the trace is the ping's);
an agent connected for longer than its retention is no longer listed
(spec-v2:206-209); a slow grant refills the cache after a refusal (`auth.py:61`).

Noticed while modelling, without a run of their own:

* `docs/ARCHITECTURE.md:57` ("each message surfaces exactly once") and
  `muster_channel.py:178` do not hold of overlapping fetches;
  `RepeatsOnlyAfterOverlap` says when they do.
* An agent with `MUSTER_INBOUND=refuse` never opens the stream that registers it,
  so mail for it bounces instead of queueing (`README.md:181`).
* The plugin takes the name of the worktree's directory for its project, where
  spec-v2:189 and `naming.py` say `repo~worktree`.
* A roster's answer has the row of an agent that differs from the caller in the user
  only; the shim takes it for its own (`muster_channel.py:84-86`).
* The plugin sends its directory and branch as they are called in `x-muster-meta`; beyond
  Latin-1, `fetch` throws and the plugin retries for ever (`muster-chat.js:162`).
* In a submodule `git rev-parse --git-common-dir` ends in `.git/modules/<name>`, so
  `git_identity` calls its repository "modules".

## 5. What is proved

`InboxProofs`, for any number of fetches and messages, any page sizes and any
MAXLEN, from `InboxAssumption` alone: type correctness, `NoSilentSkip`,
`NothingOvertakes`, `RepeatsOnlyAfterOverlap`, the refinement of `Mailbox`, and
through it that every stored message is unread, was handed over or was dropped
by retention.

None of these is inductive. The invariant `IInv` adds what a fetch in flight
relies on: whatever lies at or below the cursor it read was acknowledged
(`StartCovered`), its page has no holes between that cursor and any of its
entries (`PageHasNoHoles`), acknowledged mail is a prefix of what the stream
holds (`AckedIsPrefix`), and everything acknowledged was shown, lost, is in an
answer or has expired (`AckedAccounted`). A stale SET keeps all four: it covers
the page it belongs to, and what lies below that page was covered when the fetch
began and stays so, because trimming and reaping only remove. That one page is a
gapless run (`PageIsRun`) needs the cardinality lemmas for finite sets.
`RepeatsOnlyAfterOverlap` has an invariant of its own, `OnceInv`: while no two
fetches have overlapped, what lies past any cursor in use is unacknowledged.

`DeliveryProofs` proves `DeliveryTypeOK`, `NoLostNudge` and the action property
`ReconnectCovers` for any number of chats, fetches, lost connections and any size
of the unread check's window, and that `Delivery` implements `Inbox`
(`DeliveryImplementsInbox`), so the inbox theorems hold there too. The invariant
`DeliveryInv` rests on the inbox's `IInv` and adds three facts. Between the two
awaits of the unread check, mail at or below the cursor it read stays
acknowledged (`CountCovered`), so what lies past it includes all unread mail
(`CountReportsAll`). A nudge is in one place only (`NudgeOnce`), so the shim's
LRU never swallows a fresh one. While the stream is up, every live
unacknowledged message has a report (`NudgeCovered`): a step that keeps the
stream up keeps every report and makes one for what it stores
(`ReportsKeptStep`).

`RateLimitProofs`, from `RateAssumption`, for any limit, window and number of requests:
type correctness, `SlidingBound`, `WindowIsBounded` and `RetryCovers`. The invariant
says that age and remaining TTL together never exceed the windows the re-arms have paid
for (`WindowSpent`), that a request still on its way to re-arm has not done so in this
window (`StaleOnce`) -- it was refused by an earlier one -- and that what was admitted
in the present tick fits the counter (`SlotWithinCount`). `SlidingBound` is about a sum
over all ticks. Two facts carry it: a window that is open is never shorter than its age
and TTL say (`NoShortWindow`), and of the admissions of the last `Window` ticks those
the present window let through fit its counter and those before it fit one limit
(`Spread`). The sum is the fold of the community modules, which takes its elements in an
order nobody says: `FoldUnfolds` and `FoldTakesAny` show that it has the value of any
order, `FoldIsPartialSum` that it is the last partial sum.

`DirectoryProofs`, from `DirectoryAssumption`, for any set of agents, groups and
requests and any number of changes: type correctness, `OnlyVisibleHear`,
`NoArbitraryDelivery`, `ShortestUnique`, `SteadyHear` and `RosterAccounts`. The
invariant follows a listing: every row was visible at some moment if it is visible by
its groups; a steady agent is still to be read or has its row, with the groups it has
kept (`SteadyIsRead`), and if it was present throughout the row says online
(`SteadyOnIsRead`); a chat's target is the only visible row that fits
(`TargetIsTheOne`); a steady listener of an announcement is still to be read, still to
be told, or was told (`SteadyOnIsTold`). `RosterAccounts` compares cardinalities per
project, from below and from above: the directory is finite however many agents could
exist, since it starts empty and changes by one at a time (`Few`); a due agent without a
row in the answer has a row the count of hidden ones counts (`CountedByRows`), and every
row counted is of an agent seen at some moment, one row for each (`CountsAgents`).

`AuthProofs`, from `AuthAssumption`, for any identities, TTLs, latency and number of
requests: type correctness, `CacheIsRecent`, `StreamTrustIsBounded` and
`LateGrantsOnly`. A grant on its way back was the truth no longer ago than its question
(`AnswersAreRecent`), so what it puts into the cache is at most one latency old; the
identity a stream holds ages with the time since its last ping and, while that ping is
unanswered, with its question (`StreamIsRecent`). The refusal's pop empties the cache, so
what it serves afterwards was put there by a later answer; one whose question is as old
as the refusal was on its way then (`LateIsUnderway`).

`PresenceProofs`, from `PresenceAssumption`, for any number of streams and reapers and
any times with `2 * (PingEvery + PingSlack) < PresenceTtl`: type correctness and the
four safety invariants of the run. Streams open in order and none touches presence
before it registered (`StreamOrder`). An agent hash that is there is in the directory
with no reaper at work on it, unless the last registration raced one (`LiveIsListed`): a
reaper goes on only if its test found no hash. A registered stream has its hash or has
outlived it (`RegisteredIsLive`). From the touch before SUBSCRIBE to the first ping
there are two waits at most, which is where the assumption's factor 2 is needed: what
remains of presence and the time since the last ping together never fall below it, as
long as no reaper deletes it (`PresenceLasts`, `struck`). `HiddenSincePing` says an
agent is hidden no longer than since its stream's last ping, `DeletedIsEmpty` that a
reaped inbox stays empty until the SREM unless a chat comes between.

`OpenCodeProofs` proves `OpenTypeOK`, `HandedIsKept`, `DoubledOnlyIf`, `HeldGoesFirst`
and `TriggersHonoured` for any page size, any number of messages, lost streams and
failed wakes, from the assumptions of `Inbox` and `OpenCode`, and that the plugin
implements `Inbox`. `Kept` splits what answers brought between drain and tool: what a
drain was handed is remembered, queued, held or spilled, and what both were handed was
repeated, hence an overlap. `TurnsOnce` says that without a late failure a turn starts
only for what is not yet remembered. `HeldGoesFirst` is the hard one: a stale SET of the
tool or of an abandoned request can put the cursor back, so a page may be older than
mail that had its turn. `Late` is what such a page can hold: what is remembered, lost,
spilled or expired, or is in an answer to some other request. It only grows
(`LateGrows`): an answer that is not there any more was shown, and so is remembered, or
was lost. What is older than something a drain was handed has been handed too or is late
(`OlderIsSettled`), since the inbox's invariant says that what a fetch reads past was
acknowledged, and what is acknowledged was shown, lost, expired or is in an answer. So
the queue is in order but for what is late (`QueuesInOrder`), whatever runs beside the
drain. That a page has an order at all (`InOrder` is a `CHOOSE`) is shown by a least
counterexample (`EveryPageHasOrder`), the induction theorems being out of reach. The
exceptions are real: they need three messages (section 3), and the theorem is about any
number. `TriggersHonoured` follows one round of the drain (`DueIsAhead`): what was
unread at a trigger lies in the page its request got, or that page is full and the drain
goes on, or `again` is set and another round begins. Only an append makes something
unread (`UnreadShrinks`): a stale SET brings back acknowledged mail alone.

`WireProofs`, from `WireAssumption`, for machines with names and paths of any length,
any cap and any number of frames: `TypeOK`, `HeaderAccepted`, `EventsArriveWhole` and
`BackoffFits`. For the header, whatever a segment's name is, what is left of it is
plain and not empty (`SegIsPlain`), and three such segments make a header with three
slashes, none at an end and no two together (`HeaderFits`). For the stream the
invariant `Framed` says where the reader stands: the lines on the wire follow one
another from line l of frame j of what was sent (`Tracked`), to the end unless the
connection was cut, when the last may be half a line; and the reader holds what lines
before l brought and has passed on what frames before j come to (`Reader`). A cut keeps
a front of the wire (`TrackedCut`), a frame goes to its end (`TrackedSend`), a line read
moves l and j on (`TrackedRead`, `ReadsWhole`), half a line adds at most a ping
(`ReadsHalf`). An error is the last frame of its stream (`SentFits`), so a reader that
leaves at one leaves nothing behind. `BackoffFits` needs `Reader` too: the blank line
that ends a ping shows the shim nothing, but the comment before it has reset the wait.
What a client makes of n frames and the powers of two are recursive functions;
`BoundedRecursion` and `CountUp` show that they exist and obey their equations, by the
least number at which something fails, because the library's theorems on recursion and
induction take an operator. For the same reason `Wire` picks elements of a sequence by
such a function (`Picked`) and not by `SelectSeq`, which the provers cannot expand.

Every safety property and action property of the passing runs is proved. Left to TLC
for good are the liveness properties (`EventuallyTold`, `GoneAgentFades`,
`RevocationLands`, `AdmittedAgain`): they rest on fairness and on ENABLED, which the
provers cannot handle. The theorems speak of the modules, so what section 6 leaves out
is left out of them as well, and the bounds that the models need (`MaxMsgs`,
`MaxFrames` and the like) are in them constants of any size.

## 6. Not modelled

Envelope and roster wording, metrics, health checks, the welcome message, branch and
worktree flag (`git_info`), the other fields of a directory row and the deployment files
have no state the properties depend on. The size check of a body appears as a refusal
that may happen. The LRUs hold 256 ids and none is evicted within the bounds. `msg_id`s
are taken to grow, as Valkey guarantees for one stream; a deleted inbox whose clock then
ran backwards is not considered. The plugin's awaits without a timeout are left out:
nothing is claimed about how long anything there takes. `Wire` says how the wait between
attempts grows and not how long a connection lasts: the 45 s of silence after which the
shim leaves are a step that may happen on any quiet connection.

## 7. Plan

1. done: `Mailbox`, `Inbox`, `Delivery`, `Presence`, `OpenCode`, `Auth`, `RateLimit`,
   `Directory`, `Wire`, each with its proofs.
2. An abstract specification of one connection (events are accepted, handed over in
   order or lost with the connection) that `Wire` implements.
3. Presence composed with the agent's mail (spec-v2 section 7: a message can only
   be delivered while identity and message are valid).
