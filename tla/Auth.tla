-------------------------------- MODULE Auth --------------------------------
(* The identity cache of one pod and the callers that share it, for one API   *)
(* key: requests that come and go, and an event stream that resolves the key  *)
(* when it opens and again at every ping.  The resolver behind the cache may  *)
(* change its mind at any time, be slow, or be down.  Keys do not affect each *)
(* other, and every pod has a cache of its own.  Time is counted in ticks.    *)
EXTENDS Integers

CONSTANTS Grants,     \* identities the resolver may answer with
          Requests,   \* requests with this key that may be in flight together
          Stream,     \* the event stream, as a caller of resolve
          CacheTtl,   \* auth_cache_ttl
          Latency,    \* the longest a question to the resolver takes
          PingEvery,  \* ping_interval
          PingSlack   \* how late a ping may be

NoIdentity == "none"
Refused    == "refused"   \* 400, 401, 403
Broken     == "broken"    \* 5xx, unreachable, timed out, not understood

\* The client's timeout (auth.py:33) bounds each wait of a question -- for a
\* connection, for each piece of the answer -- and nothing bounds their number:
\* that a question ends within Latency is assumed of the resolver.
ASSUME AuthAssumption ==
    /\ {NoIdentity, Refused, Broken} \cap Grants = {}
    /\ Stream \notin Requests
    /\ CacheTtl \in Nat /\ Latency \in Nat /\ PingEvery \in Nat /\ PingSlack \in Nat

Callers == Requests \cup {Stream}

\* What a stream can still trust, at most; ages are not counted further.
TrustBound == CacheTtl + Latency + PingEvery + PingSlack + Latency
Long == TrustBound + 1

\* What a grant that a refusal has overtaken can still serve, at most.
OvertakenBound == Latency + CacheTtl

VARIABLES
    truth,       \* what the resolver would answer now
    age,         \* age[g]: ticks since g was true
    cached,      \* the identity in the cache entry
    freshFor,    \* ticks until the entry is stale
    pc,          \* pc[q]: the await of resolve that caller q is at
    answer,      \* answer[q]: the resolver's answer on its way to q
    waited,      \* waited[q]: ticks since q asked
    streamIdent, \* the identity the running stream trusts
    sincePing,   \* ticks since the stream last resolved
    saidNo,      \* history: a refusal came back, and no question was granted since
    underway,    \* history: a grant was on its way when that refusal came back
    sinceNo      \* history: ticks since that refusal

cacheVars  == <<cached, freshFor>>
callVars   == <<pc, answer, waited>>
streamVars == <<streamIdent, sincePing>>
noVars     == <<saidNo, underway, sinceNo>>
vars == <<truth, age, cached, freshFor, pc, answer, waited, streamIdent, sincePing,
          saidNo, underway, sinceNo>>

Answers == Grants \cup {Refused, Broken}

TypeOK ==
    /\ truth \in Grants \cup {Refused}
    /\ age \in [Grants -> 0..Long]
    /\ cached \in Grants \cup {NoIdentity}
    /\ freshFor \in 0..CacheTtl
    /\ pc \in [Callers -> {"idle", "asked", "answered"}]
    /\ answer \in [Callers -> Answers]
    /\ waited \in [Callers -> 0..Latency]
    /\ streamIdent \in Grants \cup {NoIdentity}
    /\ sincePing \in 0..(PingEvery + PingSlack)
    /\ saidNo \in BOOLEAN /\ underway \in BOOLEAN
    /\ sinceNo \in 0..(OvertakenBound + 1)
    /\ cached = NoIdentity => freshFor = 0

Init ==
    /\ truth \in Grants \cup {Refused}
    /\ age = [g \in Grants |-> IF g = truth THEN 0 ELSE Long]
    /\ cached = NoIdentity
    /\ freshFor = 0
    /\ pc = [q \in Callers |-> "idle"]
    /\ answer = [q \in Callers |-> Broken]
    /\ waited = [q \in Callers |-> 0]
    /\ streamIdent = NoIdentity
    /\ sincePing = 0
    /\ saidNo = FALSE /\ underway = FALSE
    /\ sinceNo = 0

-----------------------------------------------------------------------------
\* What a caller does with its identity: a request goes on with it (and is of
\* no further interest), the stream opens or goes on.
Served(q, g) ==
    IF q = Stream THEN streamIdent' = g /\ sincePing' = 0 ELSE UNCHANGED streamVars

\* An AuthError: a request fails, a stream is not opened, or is closed.
Rejected(q) ==
    IF q = Stream THEN streamIdent' = NoIdentity /\ sincePing' = 0 ELSE UNCHANGED streamVars

\* A stream resolves to open, and then at every ping.
Wants(q) ==
    /\ pc[q] = "idle"
    /\ q = Stream => streamIdent = NoIdentity \/ sincePing >= PingEvery

\* Mutant: a hit renews the entry.
HitRenews(q) ==
    /\ Wants(q)
    /\ freshFor > 0
    /\ Served(q, cached)
    /\ freshFor' = CacheTtl
    /\ UNCHANGED <<truth, age, cached, callVars, noVars>>

Hit(q) ==
    /\ Wants(q)
    /\ freshFor > 0
    /\ Served(q, cached)
    /\ UNCHANGED <<truth, age, cacheVars, callVars, noVars>>

\* Misses are not coalesced: every caller asks the resolver for itself.
Miss(q) ==
    /\ Wants(q)
    /\ freshFor = 0
    /\ pc' = [pc EXCEPT ![q] = "asked"]
    /\ waited' = [waited EXCEPT ![q] = 0]
    /\ UNCHANGED <<truth, age, cacheVars, answer, streamVars, noVars>>

Forgiven == saidNo' = FALSE /\ underway' = FALSE /\ sinceNo' = 0

\* The resolver decides; its answer still has to come back.
ResolverAnswers(q) ==
    /\ pc[q] = "asked"
    /\ pc' = [pc EXCEPT ![q] = "answered"]
    /\ answer' = [answer EXCEPT ![q] = truth]
    /\ IF truth = Refused THEN UNCHANGED noVars ELSE Forgiven
    /\ UNCHANGED <<truth, age, cacheVars, waited, streamVars>>

\* Mutant: an outage keeps a running stream open.
ResolverFailsOpen(q) ==
    /\ pc[q] # "idle"
    /\ pc' = [pc EXCEPT ![q] = "idle"]
    /\ IF q = Stream /\ streamIdent # NoIdentity
       THEN sincePing' = 0 /\ UNCHANGED streamIdent
       ELSE Rejected(q)
    /\ UNCHANGED <<truth, age, cacheVars, answer, waited, noVars>>

\* Fail closed: no answer in time, an error, or nonsense is no identity.
ResolverFails(q) ==
    /\ pc[q] # "idle"
    /\ pc' = [pc EXCEPT ![q] = "idle"]
    /\ Rejected(q)
    /\ UNCHANGED <<truth, age, cacheVars, answer, waited, noVars>>

\* Mutant: the TTL is added to what the entry had left.
GrantedExtends(q) ==
    /\ pc[q] = "answered"
    /\ answer[q] \in Grants
    /\ pc' = [pc EXCEPT ![q] = "idle"]
    /\ answer' = [answer EXCEPT ![q] = Broken]
    /\ cached' = answer[q]
    /\ freshFor' = freshFor + CacheTtl
    /\ Served(q, answer[q])
    /\ UNCHANGED <<truth, age, waited, noVars>>

Granted(q) ==
    /\ pc[q] = "answered"
    /\ answer[q] \in Grants
    /\ pc' = [pc EXCEPT ![q] = "idle"]
    /\ answer' = [answer EXCEPT ![q] = Broken]
    /\ cached' = answer[q]
    /\ freshFor' = CacheTtl
    /\ Served(q, answer[q])
    /\ UNCHANGED <<truth, age, waited, noVars>>

SaysNo(q) ==
    /\ saidNo' = TRUE
    /\ underway' = \E r \in Callers : pc[r] = "answered" /\ answer[r] \in Grants
    /\ sinceNo' = 0
    /\ Rejected(q)

\* Mutant: a stale entry is good for every failure of the resolver.
DeniedServesStale(q) ==
    /\ pc[q] = "answered"
    /\ answer[q] = Refused
    /\ pc' = [pc EXCEPT ![q] = "idle"]
    /\ answer' = [answer EXCEPT ![q] = Broken]
    /\ freshFor' = IF cached = NoIdentity THEN 0 ELSE CacheTtl
    /\ SaysNo(q)
    /\ UNCHANGED <<truth, age, cached, waited>>

\* Mutant: the entry is left to another caller's refill.
DeniedKeepsEntry(q) ==
    /\ pc[q] = "answered"
    /\ answer[q] = Refused
    /\ pc' = [pc EXCEPT ![q] = "idle"]
    /\ answer' = [answer EXCEPT ![q] = Broken]
    /\ SaysNo(q)
    /\ UNCHANGED <<truth, age, cacheVars, waited>>

\* "The resolver said no": the entry is removed, whoever put it there.
Denied(q) ==
    /\ pc[q] = "answered"
    /\ answer[q] = Refused
    /\ pc' = [pc EXCEPT ![q] = "idle"]
    /\ answer' = [answer EXCEPT ![q] = Broken]
    /\ cached' = NoIdentity
    /\ freshFor' = 0
    /\ SaysNo(q)
    /\ UNCHANGED <<truth, age, waited>>

\* The reader leaves; a question the stream has asked dies with it.
StreamCloses ==
    /\ streamIdent # NoIdentity \/ pc[Stream] # "idle"
    /\ streamIdent' = NoIdentity
    /\ sincePing' = 0
    /\ pc' = [pc EXCEPT ![Stream] = "idle"]
    /\ answer' = [answer EXCEPT ![Stream] = Broken]
    /\ UNCHANGED <<truth, age, cacheVars, waited, noVars>>

-----------------------------------------------------------------------------
\* Keys are revoked, restored and moved between groups outside the bus.
TruthChanges(t) ==
    /\ t # truth
    /\ truth' = t
    /\ age' = [g \in Grants |-> IF g = t THEN 0 ELSE age[g]]
    /\ UNCHANGED <<cacheVars, callVars, streamVars, noVars>>

\* Time waits for a question that has taken Latency and for a ping that is due.
Tick ==
    /\ \A q \in Callers : pc[q] # "idle" => waited[q] < Latency
    /\ streamIdent # NoIdentity /\ pc[Stream] = "idle" => sincePing < PingEvery + PingSlack
    /\ age' = [g \in Grants |->
                 IF g = truth THEN 0 ELSE IF age[g] < Long THEN age[g] + 1 ELSE Long]
    /\ freshFor' = IF freshFor > 0 THEN freshFor - 1 ELSE 0
    /\ waited' = [q \in Callers |-> IF pc[q] # "idle" THEN waited[q] + 1 ELSE 0]
    /\ sincePing' = IF streamIdent # NoIdentity /\ pc[Stream] = "idle"
                    THEN sincePing + 1 ELSE sincePing
    /\ sinceNo' = IF saidNo /\ sinceNo <= OvertakenBound THEN sinceNo + 1 ELSE sinceNo
    /\ UNCHANGED <<truth, cached, pc, answer, streamIdent, saidNo, underway>>

Resolve(q) ==
    \/ Hit(q)
    \/ Miss(q)
    \/ ResolverAnswers(q)
    \/ ResolverFails(q)
    \/ Granted(q)
    \/ Denied(q)

Next ==
    \/ \E q \in Callers : Resolve(q)
    \/ StreamCloses
    \/ \E t \in Grants \cup {Refused} : TruthChanges(t)
    \/ Tick

(* Time passes, a question comes to an end, and a running stream pings.       *)
Fairness ==
    /\ WF_vars(Tick)
    /\ \A q \in Callers :
        WF_vars(ResolverAnswers(q) \/ ResolverFails(q) \/ Granted(q) \/ Denied(q))
    /\ WF_vars(streamIdent # NoIdentity /\ (Hit(Stream) \/ Miss(Stream)))

Safety == Init /\ [][Next]_vars
Spec   == Safety /\ Fairness

-----------------------------------------------------------------------------
(* "No authorization information is trusted for longer than the identity-     *)
(* cache TTL" (spec-v2:171), and what it takes to be true: whatever a hit     *)
(* would serve was true no longer ago than the entry's time in the cache and  *)
(* one answer's way back -- also when several callers refill the entry out of *)
(* order (auth.py:43-46, 72).                                                 *)
CacheIsRecent ==
    freshFor > 0 => age[cached] <= (CacheTtl - freshFor) + Latency

(* A running stream's identity was true no longer ago than a cache TTL, a     *)
(* ping, and the two answers they may have waited for (stream.py:49-54): more *)
(* than the TTL of spec-v2:171, but a bound, outages of the resolver included.*)
StreamTrustIsBounded ==
    streamIdent # NoIdentity => age[streamIdent] <= TrustBound

(* After a refusal the cache serves nothing until the resolver has granted a  *)
(* later question -- but for a grant that was already on its way when the     *)
(* refusal came back, and that for no longer than its way and the TTL take,   *)
(* whatever else was in flight (auth.py:59-62, 72).                           *)
LateGrantsOnly ==
    saidNo /\ freshFor > 0 => underway /\ sinceNo + freshFor <= OvertakenBound

(* Revocation reaches open streams (spec-v2:358): when a key is refused for   *)
(* good, its stream closes, stays closed, and the cache serves nothing.       *)
RevocationLands ==
    <>[](truth = Refused) => <>[](streamIdent = NoIdentity /\ freshFor = 0)

(* "'the resolver said no' is never served from cache" (auth.py:61,           *)
(* spec-v2:166): a grant decided before a refusal and delivered after it is   *)
(* cached all the same.                                                       *)
RefusalNotServed == saidNo => freshFor = 0
=============================================================================
