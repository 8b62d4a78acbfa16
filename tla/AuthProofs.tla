----------------------------- MODULE AuthProofs ------------------------------
(* Theorems about module Auth, for any set of identities, any number of       *)
(* requests and any times.                                                    *)
EXTENDS Auth, TLAPS

TruthIsNow == truth \in Grants => age[truth] = 0

\* A grant on its way is no older than the question.
AnswersAreRecent ==
    \A q \in Callers :
        pc[q] = "answered" /\ answer[q] \in Grants => age[answer[q]] <= waited[q]

\* A stream's ident ages with its time since the last ping, then its question.
StreamIsRecent ==
    streamIdent # NoIdentity =>
        age[streamIdent] <= CacheTtl + Latency + sincePing
                            + (IF pc[Stream] = "idle" THEN 0 ELSE waited[Stream])

\* While a refusal stands, a grant still on its way was so when it came back,
\* and has waited for at least as long as it stands.
LateIsUnderway ==
    \A q \in Callers :
        pc[q] = "answered" /\ answer[q] \in Grants /\ saidNo =>
            underway /\ sinceNo <= waited[q]

AgeInv == TypeOK /\ TruthIsNow /\ AnswersAreRecent /\ CacheIsRecent /\ StreamIsRecent

NoInv == LateIsUnderway /\ LateGrantsOnly

IInv == AgeInv /\ NoInv

-----------------------------------------------------------------------------
LEMMA InitEstablishes == Init => IInv
<1> SUFFICES ASSUME Init PROVE IInv
    OBVIOUS
<1> USE AuthAssumption DEF AuthAssumption
<1>1. TrustBound \in Nat /\ Long \in Nat /\ OvertakenBound \in Nat
    BY DEF TrustBound, Long, OvertakenBound
<1>2. TypeOK
    <2>1. age \in [Grants -> 0..Long]
        BY <1>1 DEF Init
    <2>2. pc \in [Callers -> {"idle", "asked", "answered"}] /\ answer \in [Callers -> Answers]
        BY DEF Init, Answers
    <2>3. waited \in [Callers -> 0..Latency]
        BY DEF Init
    <2>4. sincePing \in 0..(PingEvery + PingSlack) /\ freshFor \in 0..CacheTtl
        BY DEF Init
    <2>5. sinceNo \in 0..(OvertakenBound + 1)
        BY <1>1 DEF Init
    <2> QED
        BY <2>1, <2>2, <2>3, <2>4, <2>5 DEF Init, TypeOK
<1>3. TruthIsNow /\ AnswersAreRecent /\ CacheIsRecent /\ StreamIsRecent
    BY DEF Init, TruthIsNow, AnswersAreRecent, CacheIsRecent, StreamIsRecent
<1>4. NoInv
    BY DEF Init, NoInv, LateIsUnderway, LateGrantsOnly
<1> QED
    BY <1>2, <1>3, <1>4 DEF IInv, AgeInv

LEMMA HitKeeps ==
    ASSUME IInv, NEW q \in Callers, Hit(q)
    PROVE  IInv'
<1> USE AuthAssumption
    DEF AuthAssumption, Hit, Served, Wants, cacheVars, callVars, streamVars, noVars
<1>1. cached \in Grants /\ age[cached] <= CacheTtl + Latency
    BY DEF IInv, AgeInv, TypeOK, CacheIsRecent
<1>2. TypeOK'
    BY <1>1 DEF IInv, AgeInv, TypeOK
<1>3. TruthIsNow' /\ AnswersAreRecent' /\ CacheIsRecent'
    BY DEF IInv, AgeInv, TruthIsNow, AnswersAreRecent, CacheIsRecent
<1>4. StreamIsRecent'
    <2>1. CASE q = Stream
        BY <1>1, <2>1 DEF IInv, AgeInv, TypeOK, StreamIsRecent
    <2>2. CASE q # Stream
        BY <2>2 DEF IInv, AgeInv, StreamIsRecent
    <2> QED
        BY <2>1, <2>2
<1>5. NoInv'
    BY DEF IInv, NoInv, LateIsUnderway, LateGrantsOnly
<1> QED
    BY <1>2, <1>3, <1>4, <1>5 DEF IInv, AgeInv

LEMMA MissKeeps ==
    ASSUME IInv, NEW q \in Callers, Miss(q)
    PROVE  IInv'
<1> USE AuthAssumption DEF AuthAssumption, Miss, Wants, cacheVars, streamVars, noVars
<1>1. TypeOK'
    BY DEF IInv, AgeInv, TypeOK
<1>2. \A r \in Callers : pc'[r] = IF r = q THEN "asked" ELSE pc[r]
    BY DEF IInv, AgeInv, TypeOK
<1>3. \A r \in Callers : waited'[r] = IF r = q THEN 0 ELSE waited[r]
    BY DEF IInv, AgeInv, TypeOK
<1>4. TruthIsNow' /\ AnswersAreRecent' /\ CacheIsRecent'
    BY <1>2, <1>3 DEF IInv, AgeInv, TruthIsNow, AnswersAreRecent, CacheIsRecent
<1>5. StreamIsRecent'
    BY <1>2, <1>3 DEF IInv, AgeInv, TypeOK, StreamIsRecent, Callers
<1>6. NoInv'
    BY <1>2, <1>3 DEF IInv, NoInv, LateIsUnderway, LateGrantsOnly
<1> QED
    BY <1>1, <1>4, <1>5, <1>6 DEF IInv, AgeInv

LEMMA AnswerKeeps ==
    ASSUME IInv, NEW q \in Callers, ResolverAnswers(q)
    PROVE  IInv'
<1> USE AuthAssumption DEF AuthAssumption, ResolverAnswers, Forgiven, cacheVars, streamVars, noVars
<1>1. TypeOK'
    <2>1. saidNo' \in {saidNo, FALSE} /\ underway' \in {underway, FALSE}
        OBVIOUS
    <2>2. sinceNo' \in 0..(OvertakenBound + 1)
        BY DEF IInv, AgeInv, TypeOK, OvertakenBound
    <2>3. answer' \in [Callers -> Answers] /\ pc' \in [Callers -> {"idle", "asked", "answered"}]
        BY DEF IInv, AgeInv, TypeOK, Answers
    <2> QED
        BY <2>1, <2>2, <2>3 DEF IInv, AgeInv, TypeOK
<1>2. \A r \in Callers : pc'[r] = IF r = q THEN "answered" ELSE pc[r]
    BY DEF IInv, AgeInv, TypeOK
<1>3. \A r \in Callers : answer'[r] = IF r = q THEN truth ELSE answer[r]
    BY DEF IInv, AgeInv, TypeOK
<1>4. TruthIsNow' /\ CacheIsRecent'
    BY DEF IInv, AgeInv, TruthIsNow, CacheIsRecent
<1>5. AnswersAreRecent'
    BY <1>2, <1>3 DEF IInv, AgeInv, TypeOK, TruthIsNow, AnswersAreRecent
<1>6. StreamIsRecent'
    BY <1>2 DEF IInv, AgeInv, StreamIsRecent, Callers
<1>7. NoInv'
    <2>1. CASE truth = Refused
        BY <1>2, <1>3, <2>1 DEF IInv, NoInv, LateIsUnderway, LateGrantsOnly
    <2>2. CASE truth # Refused
        BY <2>2 DEF NoInv, LateIsUnderway, LateGrantsOnly
    <2> QED
        BY <2>1, <2>2
<1> QED
    BY <1>1, <1>4, <1>5, <1>6, <1>7 DEF IInv, AgeInv

LEMMA FailureKeeps ==
    ASSUME IInv, NEW q \in Callers, ResolverFails(q)
    PROVE  IInv'
<1> USE AuthAssumption DEF AuthAssumption, ResolverFails, Rejected, cacheVars, streamVars, noVars
<1>1. TypeOK'
    BY DEF IInv, AgeInv, TypeOK
<1>2. \A r \in Callers : pc'[r] = IF r = q THEN "idle" ELSE pc[r]
    BY DEF IInv, AgeInv, TypeOK
<1>3. TruthIsNow' /\ AnswersAreRecent' /\ CacheIsRecent'
    BY <1>2 DEF IInv, AgeInv, TruthIsNow, AnswersAreRecent, CacheIsRecent
<1>4. StreamIsRecent'
    BY <1>2 DEF IInv, AgeInv, StreamIsRecent, Callers
<1>5. NoInv'
    BY <1>2 DEF IInv, NoInv, LateIsUnderway, LateGrantsOnly
<1> QED
    BY <1>1, <1>3, <1>4, <1>5 DEF IInv, AgeInv

LEMMA GrantKeeps ==
    ASSUME IInv, NEW q \in Callers, Granted(q)
    PROVE  IInv'
<1> USE AuthAssumption DEF AuthAssumption, Granted, Served, streamVars, noVars
<1>1. TypeOK'
    BY DEF IInv, AgeInv, TypeOK, Answers
<1>2. \A r \in Callers : /\ pc'[r] = IF r = q THEN "idle" ELSE pc[r]
                         /\ answer'[r] = IF r = q THEN Broken ELSE answer[r]
    BY DEF IInv, AgeInv, TypeOK
<1>3. age[answer[q]] <= Latency /\ age[answer[q]] \in Nat
    BY DEF IInv, AgeInv, TypeOK, AnswersAreRecent, Long, TrustBound
<1>4. TruthIsNow' /\ AnswersAreRecent'
    BY <1>2 DEF IInv, AgeInv, TruthIsNow, AnswersAreRecent
<1>5. CacheIsRecent'
    BY <1>3 DEF CacheIsRecent
<1>6. StreamIsRecent'
    <2>1. CASE q = Stream
        BY <1>2, <1>3, <2>1 DEF StreamIsRecent
    <2>2. CASE q # Stream
        BY <1>2, <2>2 DEF IInv, AgeInv, StreamIsRecent, Callers
    <2> QED
        BY <2>1, <2>2
<1>7. NoInv'
    <2>1. LateIsUnderway'
        BY <1>2 DEF IInv, NoInv, LateIsUnderway
    <2>2. saidNo => underway /\ sinceNo <= Latency
        BY DEF IInv, AgeInv, TypeOK, NoInv, LateIsUnderway, OvertakenBound
    <2>3. LateGrantsOnly'
        BY <2>2 DEF IInv, AgeInv, TypeOK, LateGrantsOnly, OvertakenBound
    <2> QED
        BY <2>1, <2>3 DEF NoInv
<1> QED
    BY <1>1, <1>4, <1>5, <1>6, <1>7 DEF IInv, AgeInv

LEMMA DenialKeeps ==
    ASSUME IInv, NEW q \in Callers, Denied(q)
    PROVE  IInv'
<1> USE AuthAssumption DEF AuthAssumption, Denied, SaysNo, Rejected, streamVars
<1>1. TypeOK'
    <2>1. saidNo' \in BOOLEAN /\ underway' \in BOOLEAN
        OBVIOUS
    <2>2. /\ sinceNo' \in 0..(OvertakenBound + 1) /\ freshFor' \in 0..CacheTtl
          /\ streamIdent' \in Grants \cup {NoIdentity}
          /\ sincePing' \in 0..(PingEvery + PingSlack)
        BY DEF IInv, AgeInv, TypeOK, OvertakenBound
    <2>3. answer' \in [Callers -> Answers] /\ pc' \in [Callers -> {"idle", "asked", "answered"}]
        BY DEF IInv, AgeInv, TypeOK, Answers
    <2> QED
        BY <2>1, <2>2, <2>3 DEF IInv, AgeInv, TypeOK
<1>2. \A r \in Callers : /\ pc'[r] = IF r = q THEN "idle" ELSE pc[r]
                         /\ answer'[r] = IF r = q THEN Broken ELSE answer[r]
    BY DEF IInv, AgeInv, TypeOK
<1>3. TruthIsNow' /\ AnswersAreRecent' /\ CacheIsRecent'
    BY <1>2 DEF IInv, AgeInv, TruthIsNow, AnswersAreRecent, CacheIsRecent
<1>4. StreamIsRecent'
    BY <1>2 DEF IInv, AgeInv, StreamIsRecent, Callers
<1>5. LateIsUnderway'
    <2> SUFFICES ASSUME NEW r \in Callers, pc'[r] = "answered", answer'[r] \in Grants
                 PROVE  underway' /\ sinceNo' <= waited'[r]
        BY DEF LateIsUnderway
    <2>1. pc[r] = "answered" /\ answer[r] \in Grants
        BY <1>2
    <2>2. waited[r] \in 0..Latency
        BY DEF IInv, AgeInv, TypeOK
    <2>3. underway' = TRUE
        BY <2>1
    <2> QED
        BY <2>2, <2>3
<1>6. LateGrantsOnly'
    BY DEF LateGrantsOnly
<1> QED
    BY <1>1, <1>3, <1>4, <1>5, <1>6 DEF IInv, AgeInv, NoInv

LEMMA CloseKeeps ==
    ASSUME IInv, StreamCloses
    PROVE  IInv'
<1> USE AuthAssumption DEF AuthAssumption, StreamCloses, cacheVars, noVars
<1>1. TypeOK'
    BY DEF IInv, AgeInv, TypeOK, Answers, Callers
<1>2. \A r \in Callers : /\ pc'[r] = IF r = Stream THEN "idle" ELSE pc[r]
                         /\ answer'[r] = IF r = Stream THEN Broken ELSE answer[r]
    BY DEF IInv, AgeInv, TypeOK
<1>3. TruthIsNow' /\ AnswersAreRecent' /\ CacheIsRecent' /\ StreamIsRecent'
    BY <1>2 DEF IInv, AgeInv, TruthIsNow, AnswersAreRecent, CacheIsRecent, StreamIsRecent
<1>4. NoInv'
    BY <1>2 DEF IInv, NoInv, LateIsUnderway, LateGrantsOnly
<1> QED
    BY <1>1, <1>3, <1>4 DEF IInv, AgeInv

LEMMA TruthKeeps ==
    ASSUME IInv, NEW t \in Grants \cup {Refused}, TruthChanges(t)
    PROVE  IInv'
<1> USE AuthAssumption DEF AuthAssumption, TruthChanges, cacheVars, callVars, streamVars, noVars
<1>1. \A g \in Grants : age[g] \in Nat /\ age'[g] \in Nat /\ age'[g] <= age[g]
    BY DEF IInv, AgeInv, TypeOK, Long, TrustBound
<1>2. TypeOK'
    BY DEF IInv, AgeInv, TypeOK, Long, TrustBound
<1>3. TruthIsNow'
    BY DEF TruthIsNow
<1>4. AnswersAreRecent'
    BY <1>1 DEF IInv, AgeInv, TypeOK, AnswersAreRecent
<1>5. CacheIsRecent'
    BY <1>1 DEF IInv, AgeInv, TypeOK, CacheIsRecent
<1>6. StreamIsRecent'
    <2>1. Stream \in Callers
        BY DEF Callers
    <2> QED
        BY <1>1, <2>1 DEF IInv, AgeInv, TypeOK, StreamIsRecent
<1>7. NoInv'
    BY DEF IInv, NoInv, LateIsUnderway, LateGrantsOnly
<1> QED
    BY <1>2, <1>3, <1>4, <1>5, <1>6, <1>7 DEF IInv, AgeInv

LEMMA TickKeeps ==
    ASSUME IInv, Tick
    PROVE  IInv'
<1> USE AuthAssumption DEF AuthAssumption, Tick
<1>1. \A g \in Grants : age[g] \in Nat /\ age'[g] \in 0..Long /\ age'[g] <= age[g] + 1
    BY DEF IInv, AgeInv, TypeOK, Long, TrustBound
<1>2. \A q \in Callers : /\ waited[q] \in Nat
                         /\ waited'[q] \in 0..Latency
                         /\ pc[q] # "idle" => waited'[q] = waited[q] + 1
    BY DEF IInv, AgeInv, TypeOK
<1>3. TypeOK'
    <2>1. age' \in [Grants -> 0..Long] /\ waited' \in [Callers -> 0..Latency]
        BY <1>1, <1>2
    <2>2. sincePing' \in 0..(PingEvery + PingSlack) /\ freshFor' \in 0..CacheTtl
        BY DEF IInv, AgeInv, TypeOK
    <2>3. sinceNo' \in 0..(OvertakenBound + 1)
        BY DEF IInv, AgeInv, TypeOK, OvertakenBound
    <2> QED
        BY <2>1, <2>2, <2>3 DEF IInv, AgeInv, TypeOK
<1>4. TruthIsNow'
    BY DEF TruthIsNow
<1>5. AnswersAreRecent'
    BY <1>1, <1>2 DEF IInv, AgeInv, AnswersAreRecent
<1>6. CacheIsRecent'
    BY <1>1 DEF IInv, AgeInv, TypeOK, CacheIsRecent
<1>7. StreamIsRecent'
    <2> SUFFICES ASSUME streamIdent # NoIdentity
                 PROVE  age'[streamIdent] <= CacheTtl + Latency + sincePing'
                          + (IF pc[Stream] = "idle" THEN 0 ELSE waited'[Stream])
        BY DEF StreamIsRecent
    <2>1. streamIdent \in Grants /\ Stream \in Callers /\ sincePing \in Nat
        BY DEF IInv, AgeInv, TypeOK, Callers
    <2>2. CASE pc[Stream] = "idle"
        BY <1>1, <2>1, <2>2 DEF IInv, AgeInv, StreamIsRecent
    <2>3. CASE pc[Stream] # "idle"
        BY <1>1, <1>2, <2>1, <2>3 DEF IInv, AgeInv, StreamIsRecent
    <2> QED
        BY <2>2, <2>3
<1>8. NoInv'
    <2>1. /\ freshFor \in Nat /\ freshFor' \in Nat
          /\ freshFor' > 0 => freshFor' = freshFor - 1
          /\ sinceNo \in Nat /\ sinceNo' <= sinceNo + 1
        BY DEF IInv, AgeInv, TypeOK, OvertakenBound
    <2>2. LateIsUnderway'
        BY <1>2, <2>1 DEF IInv, AgeInv, TypeOK, NoInv, LateIsUnderway, OvertakenBound
    <2>3. LateGrantsOnly'
        BY <2>1 DEF IInv, AgeInv, TypeOK, NoInv, LateGrantsOnly, OvertakenBound
    <2> QED
        BY <2>2, <2>3 DEF NoInv
<1> QED
    BY <1>3, <1>4, <1>5, <1>6, <1>7, <1>8 DEF IInv, AgeInv

LEMMA NextKeeps == IInv /\ [Next]_vars => IInv'
<1> SUFFICES ASSUME IInv, [Next]_vars PROVE IInv'
    OBVIOUS
<1>1. ASSUME NEW q \in Callers, Resolve(q) PROVE IInv'
    BY <1>1, HitKeeps, MissKeeps, AnswerKeeps, FailureKeeps, GrantKeeps, DenialKeeps
    DEF Resolve
<1>2. CASE StreamCloses
    BY <1>2, CloseKeeps
<1>3. ASSUME NEW t \in Grants \cup {Refused}, TruthChanges(t) PROVE IInv'
    BY <1>3, TruthKeeps
<1>4. CASE Tick
    BY <1>4, TickKeeps
<1>5. CASE UNCHANGED vars
    BY <1>5
    DEF vars, IInv, AgeInv, NoInv, TypeOK, TruthIsNow, AnswersAreRecent, CacheIsRecent,
        StreamIsRecent, LateIsUnderway, LateGrantsOnly
<1> QED
    BY <1>1, <1>2, <1>3, <1>4, <1>5 DEF Next

-----------------------------------------------------------------------------
(* The invariant behind the others holds throughout.                          *)
THEOREM AuthInvariantHolds == Safety => []IInv
<1> QED
    BY InitEstablishes, NextKeeps, PTL DEF Safety

(* Ages, times and answers keep their ranges (auth.py:31-73).                 *)
THEOREM AuthTypeCorrect == Safety => []TypeOK
<1>1. IInv => TypeOK
    BY DEF IInv, AgeInv
<1> QED
    BY <1>1, AuthInvariantHolds, PTL

(* What a hit serves was true no longer ago than its time in the cache and    *)
(* one answer's way back, whatever order answers come in (auth.py:43-46, 72). *)
THEOREM CacheIsRecentHolds == Safety => []CacheIsRecent
<1>1. IInv => CacheIsRecent
    BY DEF IInv, AgeInv
<1> QED
    BY <1>1, AuthInvariantHolds, PTL

(* What a running stream trusts was true no longer ago than a TTL, a ping,    *)
(* its slack and two answers take: the one that filled the cache and the one  *)
(* the ping waits for (stream.py:49-54).                                      *)
THEOREM StreamTrustIsBoundedHolds == Safety => []StreamTrustIsBounded
<1>1. ASSUME IInv PROVE StreamTrustIsBounded
    <2> SUFFICES ASSUME streamIdent # NoIdentity PROVE age[streamIdent] <= TrustBound
        BY DEF StreamTrustIsBounded
    <2>1. /\ age[streamIdent] \in Nat
          /\ sincePing \in 0..(PingEvery + PingSlack)
          /\ waited[Stream] \in 0..Latency
        BY <1>1, AuthAssumption
        DEF AuthAssumption, IInv, AgeInv, TypeOK, Callers, Long, TrustBound
    <2> QED
        BY <1>1, <2>1, AuthAssumption
        DEF AuthAssumption, IInv, AgeInv, StreamIsRecent, TrustBound
<1> QED
    BY <1>1, AuthInvariantHolds, PTL

(* After a refusal only a grant that was on its way when it came back is      *)
(* served, for as long as its way and the TTL take, until the resolver grants *)
(* a later question (auth.py:59-62, 72).                                      *)
THEOREM LateGrantsOnlyHolds == Safety => []LateGrantsOnly
<1>1. IInv => LateGrantsOnly
    BY DEF IInv, NoInv
<1> QED
    BY <1>1, AuthInvariantHolds, PTL
=============================================================================
