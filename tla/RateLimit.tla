----------------------------- MODULE RateLimit ------------------------------
(* The rate limit of one sender and one kind of message: a counter key in     *)
(* Valkey with a TTL, shared by the sender's requests on all pods.  INCR and  *)
(* EXPIRE NX are one transaction; a request over the limit asks for the TTL   *)
(* in a second round trip and, when it finds none, sets one in a third.  The  *)
(* window may end, and the next one begin, between them.                      *)
EXTENDS Integers, FiniteSets, Functions

CONSTANTS Callers,  \* requests of the sender that may be in flight
          Limit,    \* chat_rate or announce_rate
          Window    \* rate_window, in ticks

ASSUME RateAssumption ==
    /\ IsFiniteSet(Callers)
    /\ Limit \in Nat \ {0}
    /\ Window \in Nat \ {0}

VARIABLES
    count,     \* the counter, 0 when there is no key; all over Limit are alike
    ttl,       \* life left in the key, 0 when there is none
    pc,        \* pc[c]: the round trip request c is at
    patience,  \* patience[c]: how long c still believes the window lasts
    age,       \* history: ticks since the window began
    rearmed,   \* history: requests that have set the window's TTL again
    admits     \* history: admits[k]: requests admitted k ticks ago

vars == <<count, ttl, pc, patience, age, rearmed, admits>>

TypeOK ==
    /\ count \in 0..(Limit + 1)
    /\ ttl \in 0..Window
    /\ count = 0 <=> ttl = 0
    /\ pc \in [Callers -> {"idle", "ttl", "rearm"}]
    /\ patience \in [Callers -> 0..(Window + 1)]
    /\ age \in Nat
    /\ rearmed \in SUBSET Callers
    /\ admits \in [0..(Window - 1) -> 0..Limit]

Init ==
    /\ count = 0
    /\ ttl = 0
    /\ pc = [c \in Callers |-> "idle"]
    /\ patience = [c \in Callers |-> 0]
    /\ age = 0
    /\ rearmed = {}
    /\ admits = [k \in 0..(Window - 1) |-> 0]

\* Mutant: n <= limit + 1.
AdmitOneMore(c) ==
    /\ count <= Limit
    /\ count' = count + 1
    /\ admits' = [admits EXCEPT ![0] = @ + 1]
    /\ UNCHANGED pc

Admit(c) ==
    /\ count < Limit
    /\ count' = count + 1
    /\ admits' = [admits EXCEPT ![0] = @ + 1]
    /\ UNCHANGED pc

Refuse(c) ==
    /\ count >= Limit
    /\ count' = Limit + 1
    /\ pc' = [pc EXCEPT ![c] = "ttl"]
    /\ UNCHANGED admits

\* Mutant: EXPIRE without NX; every attempt starts the window's TTL anew.
ExecExtends(c) ==
    /\ pc[c] = "idle"
    /\ Admit(c) \/ Refuse(c)
    /\ ttl' = Window
    /\ UNCHANGED <<patience, age, rearmed>>

\* Mutant: the EXPIRE is left to the path of a refusal.
ExecNeverExpires(c) ==
    /\ pc[c] = "idle"
    /\ Admit(c) \/ Refuse(c)
    /\ UNCHANGED <<ttl, patience, age, rearmed>>

\* MULTI, INCR, EXPIRE NX, EXEC: the first request makes the key and its TTL.
Exec(c) ==
    /\ pc[c] = "idle"
    /\ Admit(c) \/ Refuse(c)
    /\ ttl' = IF count = 0 THEN Window ELSE ttl
    /\ UNCHANGED <<patience, age, rearmed>>

\* Mutant: the caller is told how long the window has lasted.
ReadTtlElapsed(c, seconds) ==
    /\ pc[c] = "ttl"
    /\ ttl > 0
    /\ seconds \in {ttl - 1, ttl}
    /\ patience' = [patience EXCEPT ![c] = IF seconds < Window THEN Window - seconds ELSE 1]
    /\ pc' = [pc EXCEPT ![c] = "idle"]
    /\ UNCHANGED <<count, ttl, age, rearmed, admits>>

\* TTL answers in rounded seconds and the caller is told at least one, so its
\* own clock may be one tick more patient than it was told.
ReadTtl(c, seconds) ==
    /\ pc[c] = "ttl"
    /\ ttl > 0
    /\ seconds \in {ttl - 1, ttl}
    /\ patience' = [patience EXCEPT ![c] = (IF seconds = 0 THEN 1 ELSE seconds) + 1]
    /\ pc' = [pc EXCEPT ![c] = "idle"]
    /\ UNCHANGED <<count, ttl, age, rearmed, admits>>

\* The window that refused c has ended since.
ReadNoTtl(c) ==
    /\ pc[c] = "ttl"
    /\ ttl = 0
    /\ pc' = [pc EXCEPT ![c] = "rearm"]
    /\ UNCHANGED <<count, ttl, patience, age, rearmed, admits>>

\* EXPIRE without NX: no key, no effect; but a key made since is a new window,
\* whose TTL starts again.  Either way c is told a whole window.
Rearm(c) ==
    /\ pc[c] = "rearm"
    /\ ttl' = IF count > 0 THEN Window ELSE 0
    /\ rearmed' = IF count > 0 THEN rearmed \cup {c} ELSE rearmed
    /\ patience' = [patience EXCEPT ![c] = IF count > 0 THEN Window + 1 ELSE 0]
    /\ pc' = [pc EXCEPT ![c] = "idle"]
    /\ UNCHANGED <<count, age, admits>>

\* The pod stops, or Valkey fails, before the refusal is answered.
Dies(c) ==
    /\ pc[c] # "idle"
    /\ pc' = [pc EXCEPT ![c] = "idle"]
    /\ UNCHANGED <<count, ttl, patience, age, rearmed, admits>>

Expires == ttl = 1

\* Valkey's clock.  What callers were told is about the window that refused
\* them and is settled when it ends.
Tick ==
    /\ count' = IF Expires THEN 0 ELSE count
    /\ ttl' = IF ttl > 0 THEN ttl - 1 ELSE 0
    /\ patience' = [c \in Callers |->
                      IF Expires \/ patience[c] = 0 THEN 0 ELSE patience[c] - 1]
    /\ age' = IF ttl > 1 THEN age + 1 ELSE 0
    /\ rearmed' = IF Expires THEN {} ELSE rearmed
    /\ admits' = [k \in 0..(Window - 1) |-> IF k = 0 THEN 0 ELSE admits[k - 1]]
    /\ UNCHANGED pc

Request(c) ==
    \/ Exec(c)
    \/ \E seconds \in 0..Window : ReadTtl(c, seconds)
    \/ ReadNoTtl(c)
    \/ Rearm(c)
    \/ Dies(c)

Next == Tick \/ \E c \in Callers : Request(c)

Safety == Init /\ [][Next]_vars

(* Time passes.  Requests may come as they like, or never.                    *)
Spec == Safety /\ WF_vars(Tick)

-----------------------------------------------------------------------------
Admitted == FoldFunction(+, 0, admits)

(* A fixed window is not a sliding one: around its edge a sender gets twice   *)
(* the limit through, but never more in any span as long as a window, however *)
(* its requests interleave with each other and with the key's expiry          *)
(* (store.py:126-129).                                                        *)
SlidingBound == Admitted <= 2 * Limit

(* Attempts do not prolong a window: refused requests that go on trying       *)
(* cannot keep a sender out.  Only a request that the window before had       *)
(* refused can, by re-arming a key it takes for one without a TTL, and each   *)
(* of those once (store.py:128-133).                                          *)
WindowIsBounded == age < Window * (1 + Cardinality(rearmed))

(* "Wait until the retry window expires before continuing" (ops.py:38-39):    *)
(* retry_after never ends before the window that refused the caller, give or  *)
(* take the second the TTL is rounded by, unless a stale re-arm has stretched *)
(* that window in between.                                                    *)
RetryCovers ==
    \A c \in Callers : patience[c] # 0 /\ rearmed \subseteq {c} => ttl <= patience[c]

(* A sender over its limit is let through again, whatever it does meanwhile:  *)
(* hammering the limiter or having requests killed between its round trips    *)
(* (store.py:122-134).                                                        *)
AdmittedAgain == count > Limit ~> count = 0
=============================================================================
