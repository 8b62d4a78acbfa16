-------------------------- MODULE RateLimitProofs ---------------------------
(* Theorems about module RateLimit, for any number of requests, any limit and *)
(* any window.                                                                *)
EXTENDS RateLimit, FiniteSetTheorems, NaturalsInduction, WellFoundedInduction, TLAPS

(* Each re-arming request adds at most one window: it was refused by an       *)
(* earlier window, and its next refusal finds this one's TTL.                 *)
WindowSpent ==
    /\ age + ttl <= Window * (1 + Cardinality(rearmed))
    /\ ttl = 0 => age = 0 /\ rearmed = {} /\ patience = [c \in Callers |-> 0]

StaleOnce == \A c \in Callers : pc[c] = "rearm" => c \notin rearmed

\* What the present tick let through was let through by the present window.
SlotWithinCount == admits[0] <= count

IInv == SlotWithinCount /\ TypeOK /\ WindowSpent /\ StaleOnce /\ RetryCovers

LEMMA RearmedIsFinite ==
    ASSUME TypeOK
    PROVE  IsFiniteSet(rearmed) /\ Cardinality(rearmed) \in Nat
<1>1. rearmed \subseteq Callers
    BY DEF TypeOK
<1> QED
    BY <1>1, RateAssumption, FS_Subset, FS_CardinalityType DEF RateAssumption

LEMMA InitEstablishes == Init => IInv
<1> SUFFICES ASSUME Init PROVE IInv
    OBVIOUS
<1>1. TypeOK
    BY RateAssumption DEF RateAssumption, Init, TypeOK
<1>2. WindowSpent /\ StaleOnce /\ RetryCovers /\ SlotWithinCount
    BY RateAssumption, FS_EmptySet
    DEF RateAssumption, Init, WindowSpent, StaleOnce, RetryCovers, SlotWithinCount
<1> QED
    BY <1>1, <1>2 DEF IInv

LEMMA ExecKeeps ==
    ASSUME IInv, NEW c \in Callers, Exec(c)
    PROVE  IInv'
<1>1. Cardinality(rearmed) \in Nat /\ Cardinality({}) = 0
    BY RearmedIsFinite, FS_EmptySet DEF IInv
<1>2. ttl' \in 1..Window /\ (ttl # 0 => ttl' = ttl) /\ (ttl = 0 => ttl' = Window)
    BY RateAssumption DEF RateAssumption, IInv, TypeOK, Exec
<1>3. /\ count' \in 1..(Limit + 1)
      /\ pc' \in [Callers -> {"idle", "ttl", "rearm"}]
      /\ \A d \in Callers : pc'[d] = "rearm" => pc[d] = "rearm"
      /\ admits' \in [0..(Window - 1) -> 0..Limit]
      /\ SlotWithinCount'
    <2>1. CASE Admit(c)
        <3>1. count' \in 1..(Limit + 1) /\ pc' = pc
            BY <2>1, RateAssumption DEF RateAssumption, IInv, TypeOK, Admit
        <3>2. 0 \in 0..(Window - 1) /\ admits[0] + 1 \in 0..Limit
            BY <2>1, RateAssumption DEF RateAssumption, IInv, TypeOK, Admit, SlotWithinCount
        <3>3. admits' \in [0..(Window - 1) -> 0..Limit] /\ admits'[0] = admits[0] + 1
            BY <2>1, <3>2 DEF IInv, TypeOK, Admit
        <3> QED
            BY <2>1, <3>1, <3>3, RateAssumption
            DEF RateAssumption, IInv, TypeOK, Admit, SlotWithinCount
    <2>2. CASE Refuse(c)
        BY <2>2, RateAssumption DEF RateAssumption, IInv, TypeOK, Refuse, SlotWithinCount
    <2> QED
        BY <2>1, <2>2 DEF Exec
<1>4. TypeOK'
    BY <1>2, <1>3 DEF IInv, TypeOK, Exec
<1>5. WindowSpent'
    <2>1. CASE ttl = 0
        BY <1>1, <1>2, <2>1, RateAssumption DEF RateAssumption, IInv, TypeOK, Exec, WindowSpent
    <2>2. CASE ttl # 0
        BY <1>2, <2>2 DEF IInv, TypeOK, Exec, WindowSpent
    <2> QED
        BY <2>1, <2>2
<1>6. StaleOnce'
    BY <1>3 DEF IInv, Exec, StaleOnce
<1>7. RetryCovers'
    BY <1>2 DEF IInv, TypeOK, Exec, RetryCovers, WindowSpent
<1> QED
    BY <1>3, <1>4, <1>5, <1>6, <1>7 DEF IInv

LEMMA ReadKeeps ==
    ASSUME IInv, NEW c \in Callers, NEW seconds \in 0..Window, ReadTtl(c, seconds)
    PROVE  IInv'
<1>1. ttl \in 1..Window /\ seconds \in {ttl - 1, ttl}
    BY DEF IInv, TypeOK, ReadTtl
<1> DEFINE told == (IF seconds = 0 THEN 1 ELSE seconds) + 1
<1>2. told \in 0..(Window + 1) /\ ttl <= told
    BY <1>1, RateAssumption DEF RateAssumption
<1>3. patience' = [patience EXCEPT ![c] = told]
    BY DEF ReadTtl
<1> HIDE DEF told
<1>4. TypeOK'
    BY <1>2, <1>3 DEF IInv, TypeOK, ReadTtl
<1>5. WindowSpent' /\ StaleOnce' /\ SlotWithinCount'
    BY <1>1 DEF IInv, TypeOK, ReadTtl, WindowSpent, StaleOnce, SlotWithinCount
<1>6. RetryCovers'
    BY <1>2, <1>3 DEF IInv, TypeOK, ReadTtl, RetryCovers
<1> QED
    BY <1>4, <1>5, <1>6 DEF IInv

LEMMA ReadNoneKeeps ==
    ASSUME IInv, NEW c \in Callers, ReadNoTtl(c)
    PROVE  IInv'
<1>1. TypeOK'
    BY DEF IInv, TypeOK, ReadNoTtl
<1>2. StaleOnce'
    BY DEF IInv, TypeOK, ReadNoTtl, WindowSpent, StaleOnce
<1>3. WindowSpent' /\ RetryCovers' /\ SlotWithinCount'
    BY DEF IInv, ReadNoTtl, WindowSpent, RetryCovers, SlotWithinCount
<1> QED
    BY <1>1, <1>2, <1>3 DEF IInv

LEMMA RearmKeeps ==
    ASSUME IInv, NEW c \in Callers, Rearm(c)
    PROVE  IInv'
<1>1. CASE count = 0
    <2>1. ttl = 0 /\ ttl' = 0 /\ rearmed' = rearmed /\ patience' = patience
        BY <1>1 DEF IInv, TypeOK, Rearm, WindowSpent
    <2>2. TypeOK'
        BY <1>1, <2>1 DEF IInv, TypeOK, Rearm
    <2>3. WindowSpent' /\ SlotWithinCount' /\ RetryCovers'
        BY <2>1 DEF IInv, Rearm, WindowSpent, SlotWithinCount, RetryCovers
    <2>4. StaleOnce'
        BY <2>1 DEF IInv, TypeOK, Rearm, StaleOnce
    <2> QED
        BY <2>2, <2>3, <2>4 DEF IInv
<1>2. CASE count # 0
    <2>1. /\ ttl \in 1..Window /\ ttl' = Window
          /\ rearmed' = rearmed \cup {c}
          /\ patience' = [patience EXCEPT ![c] = Window + 1]
          /\ UNCHANGED <<count, age, admits>>
        <3>1. count > 0 /\ ttl \in 1..Window
            BY <1>2 DEF IInv, TypeOK
        <3> QED
            BY <3>1 DEF Rearm
    <2>2. TypeOK'
        BY <1>2, <2>1, RateAssumption DEF RateAssumption, IInv, TypeOK, Rearm
    <2>3. Cardinality(rearmed') = Cardinality(rearmed) + 1 /\ Cardinality(rearmed) \in Nat
        <3>1. c \notin rearmed
            BY DEF IInv, StaleOnce, Rearm
        <3> QED
            BY <2>1, <3>1, RearmedIsFinite, FS_AddElement DEF IInv
    <2>4. WindowSpent'
        <3>1. age + Window <= Window * (1 + Cardinality(rearmed)) + Window
            BY <2>1, <2>3, RateAssumption DEF RateAssumption, IInv, TypeOK, WindowSpent
        <3>2. Window * (1 + Cardinality(rearmed)) + Window = Window * (1 + (Cardinality(rearmed) + 1))
            BY <2>3, RateAssumption DEF RateAssumption
        <3> QED
            BY <2>1, <2>3, <3>1, <3>2, RateAssumption DEF RateAssumption, WindowSpent
    <2>5. StaleOnce' /\ SlotWithinCount'
        BY <2>1 DEF IInv, TypeOK, Rearm, StaleOnce, SlotWithinCount
    <2>6. RetryCovers'
        <3>1. \A d \in Callers : rearmed' \subseteq {d} => d = c
            BY <2>1
        <3>2. patience'[c] = Window + 1
            BY <2>1 DEF IInv, TypeOK
        <3> QED
            BY <2>1, <3>1, <3>2, RateAssumption DEF RateAssumption, RetryCovers
    <2> QED
        BY <2>2, <2>4, <2>5, <2>6 DEF IInv
<1> QED
    BY <1>1, <1>2

LEMMA DiesKeeps ==
    ASSUME IInv, NEW c \in Callers, Dies(c)
    PROVE  IInv'
<1>1. TypeOK' /\ StaleOnce'
    BY DEF IInv, TypeOK, Dies, StaleOnce
<1>2. WindowSpent' /\ RetryCovers' /\ SlotWithinCount'
    BY DEF IInv, Dies, WindowSpent, RetryCovers, SlotWithinCount
<1> QED
    BY <1>1, <1>2 DEF IInv

LEMMA TickKeeps ==
    ASSUME IInv, Tick
    PROVE  IInv'
<1>1. admits' \in [0..(Window - 1) -> 0..Limit] /\ admits'[0] = 0
    <2>1. \A k \in 0..(Window - 1) : (IF k = 0 THEN 0 ELSE admits[k - 1]) \in 0..Limit
        BY RateAssumption DEF RateAssumption, IInv, TypeOK
    <2> QED
        BY <2>1, RateAssumption DEF RateAssumption, Tick
<1>2. patience' \in [Callers -> 0..(Window + 1)]
    <2>1. \A c \in Callers :
            (IF Expires \/ patience[c] = 0 THEN 0 ELSE patience[c] - 1) \in 0..(Window + 1)
        BY RateAssumption DEF RateAssumption, IInv, TypeOK
    <2> QED
        BY <2>1 DEF Tick
<1>3. CASE ttl > 1
    <2>1. /\ ttl' = ttl - 1 /\ age' = age + 1
          /\ UNCHANGED <<count, rearmed, pc>>
          /\ \A c \in Callers :
                patience'[c] = IF patience[c] = 0 THEN 0 ELSE patience[c] - 1
        BY <1>3 DEF IInv, TypeOK, Tick, Expires
    <2>2. TypeOK'
        <3>1. ttl' \in 1..Window /\ count' # 0 /\ age' \in Nat
            BY <1>3, <2>1, RateAssumption DEF RateAssumption, IInv, TypeOK
        <3> QED
            BY <1>1, <1>2, <2>1, <3>1 DEF IInv, TypeOK
    <2>3. WindowSpent' /\ StaleOnce' /\ SlotWithinCount'
        BY <1>1, <1>3, <2>1 DEF IInv, TypeOK, WindowSpent, StaleOnce, SlotWithinCount
    <2>4. RetryCovers'
        BY <2>1 DEF IInv, TypeOK, RetryCovers
    <2> QED
        BY <2>2, <2>3, <2>4 DEF IInv
<1>4. CASE ttl <= 1
    <2>1. /\ ttl' = 0 /\ age' = 0 /\ count' = 0 /\ rearmed' = {} /\ pc' = pc
          /\ patience' = [c \in Callers |-> 0]
        BY <1>4 DEF IInv, TypeOK, Tick, Expires, WindowSpent
    <2>2. TypeOK'
        BY <1>1, <1>2, <2>1, RateAssumption DEF RateAssumption, IInv, TypeOK
    <2>3. WindowSpent'
        BY <2>1, FS_EmptySet, RateAssumption DEF RateAssumption, WindowSpent
    <2>4. StaleOnce' /\ SlotWithinCount' /\ RetryCovers'
        BY <1>1, <2>1 DEF StaleOnce, SlotWithinCount, RetryCovers
    <2> QED
        BY <2>2, <2>3, <2>4 DEF IInv
<1> QED
    BY <1>3, <1>4 DEF IInv, TypeOK

LEMMA NextKeeps ==
    ASSUME IInv, [Next]_vars
    PROVE  IInv'
<1>1. CASE UNCHANGED vars
    BY <1>1 DEF IInv, vars, TypeOK, WindowSpent, StaleOnce, RetryCovers, SlotWithinCount
<1>2. CASE Tick
    BY <1>2, TickKeeps
<1>3. ASSUME NEW c \in Callers, Request(c) PROVE IInv'
    BY <1>3, ExecKeeps, ReadKeeps, ReadNoneKeeps, RearmKeeps, DiesKeeps DEF Request
<1> QED
    BY <1>1, <1>2, <1>3 DEF Next

(* The inductive invariant holds of the limiter, fair or not (store.py:122).  *)
THEOREM RateInvariantHolds == Safety => []IInv
<1> QED
    BY InitEstablishes, NextKeeps, PTL DEF Safety

(* Every variable has its type, and the counter never stands without a TTL    *)
(* (store.py:126-129).                                                        *)
THEOREM RateTypeCorrect == Safety => []TypeOK
<1>1. IInv => TypeOK
    BY DEF IInv
<1> QED
    BY <1>1, RateInvariantHolds, PTL

(* No window lasts longer than one span for itself and one for each request   *)
(* of an earlier window that re-armed it (store.py:128-133).                  *)
THEOREM WindowIsBoundedHolds == Safety => []WindowIsBounded
<1>1. ASSUME IInv PROVE WindowIsBounded
    <2>1. Cardinality(rearmed) \in Nat /\ Cardinality({}) = 0
        BY <1>1, RearmedIsFinite, FS_EmptySet DEF IInv
    <2>2. CASE ttl = 0
        BY <1>1, <2>1, <2>2, RateAssumption
        DEF RateAssumption, IInv, TypeOK, WindowSpent, WindowIsBounded
    <2>3. CASE ttl # 0
        <3>1. Window * (1 + Cardinality(rearmed)) \in Nat
            BY <2>1, RateAssumption DEF RateAssumption
        <3> QED
            BY <1>1, <2>3, <3>1 DEF IInv, TypeOK, WindowSpent, WindowIsBounded
    <2> QED
        BY <2>2, <2>3
<1> QED
    BY <1>1, RateInvariantHolds, PTL

(* A caller that waits as long as it was told has outwaited the window that   *)
(* refused it, unless another request re-armed it (ops.py:36-39).             *)
THEOREM RetryCoversHolds == Safety => []RetryCovers
<1>1. IInv => RetryCovers
    BY DEF IInv
<1> QED
    BY <1>1, RateInvariantHolds, PTL

-----------------------------------------------------------------------------
(* A sum over a function on 0..(n - 1), as the fold of the community modules  *)
(* computes it (in an order nobody says), is the last of its partial sums.    *)

Less == {ss \in Nat \X Nat : ss[1] < ss[2]}

\* A set of natural numbers has a least element: what induction rests on here.
LEMMA LeastNat ==
    ASSUME NEW B \in SUBSET Nat, B # {}
    PROVE  \E n \in B : \A m \in B : n <= m
<1>1. Less = OpToRel(<, Nat)
    BY DEF Less, OpToRel
<1>2. IsWellFoundedOn(Less, Nat)
    BY <1>1, NatLessThanWellFounded
<1>3. \E n \in B : \A m \in B : ~(<<m, n>> \in Less)
    BY <1>2, WFMin
<1>4. \A m, n \in Nat : m < n => <<m, n>> \in Less
    BY DEF Less
<1>5. \A m, n \in Nat : ~(m < n) => n <= m
    OBVIOUS
<1> QED
    BY <1>3, <1>4, <1>5

\* What the fold computes for s, when g has the values for smaller sets.
FoldStep(f, g, s) ==
    IF s = {} THEN 0
    ELSE f[CHOOSE x \in s : TRUE] + g[s \ {CHOOSE x \in s : TRUE}]

IsFold(f, g, T) == g = [s \in T |-> FoldStep(f, g, s)]

\* The subsets of S with at most n elements.
UpTo(S, n) == {s \in SUBSET S : Cardinality(s) <= n}

LEMMA Smaller ==
    ASSUME NEW S, IsFiniteSet(S), NEW s \in SUBSET S, NEW x \in s
    PROVE  /\ Cardinality(s) \in Nat /\ Cardinality(s) # 0
           /\ s \ {x} \in SUBSET S
           /\ Cardinality(s \ {x}) = Cardinality(s) - 1
<1>1. IsFiniteSet(s)
    BY FS_Subset
<1>2. Cardinality(s) \in Nat /\ Cardinality(s \ {x}) = Cardinality(s) - 1
    BY <1>1, FS_CardinalityType, FS_RemoveElement
<1>3. Cardinality(s) # 0
    BY <1>1, FS_EmptySet
<1> QED
    BY <1>2, <1>3

\* Level by level, the fold is defined for every subset.
LEMMA FoldLevel ==
    ASSUME NEW S, IsFiniteSet(S), NEW f, NEW n \in Nat, NEW g, IsFold(f, g, UpTo(S, n))
    PROVE  \E h : IsFold(f, h, UpTo(S, n + 1))
<1> DEFINE h == [s \in UpTo(S, n + 1) |-> FoldStep(f, g, s)]
<1>1. ASSUME NEW s \in UpTo(S, n + 1), s # {}
      PROVE  s \ {CHOOSE x \in s : TRUE} \in UpTo(S, n)
    <2> DEFINE x == CHOOSE x \in s : TRUE
    <2>1. x \in s /\ s \in SUBSET S /\ Cardinality(s) <= n + 1
        BY <1>1 DEF UpTo
    <2> HIDE DEF x
    <2>2. /\ Cardinality(s) \in Nat
          /\ s \ {x} \in SUBSET S
          /\ Cardinality(s \ {x}) = Cardinality(s) - 1
        BY <2>1, Smaller
    <2>3. Cardinality(s \ {x}) <= n
        BY <2>1, <2>2
    <2>4. s \ {x} \in UpTo(S, n)
        BY <2>2, <2>3 DEF UpTo
    <2> QED
        BY <2>4 DEF x
<1>2. ASSUME NEW s \in UpTo(S, n) PROVE s \in UpTo(S, n + 1) /\ h[s] = g[s]
    <2>1. s \in SUBSET S /\ Cardinality(s) \in Nat /\ Cardinality(s) <= n
        BY FS_Subset, FS_CardinalityType DEF UpTo
    <2>2. s \in UpTo(S, n + 1)
        BY <2>1 DEF UpTo
    <2>3. g[s] = FoldStep(f, g, s)
        BY DEF IsFold
    <2> QED
        BY <2>2, <2>3
<1>3. ASSUME NEW s \in UpTo(S, n + 1) PROVE FoldStep(f, g, s) = FoldStep(f, h, s)
    <2>1. CASE s = {}
        BY <2>1 DEF FoldStep
    <2>2. CASE s # {}
        <3>1. h[s \ {CHOOSE x \in s : TRUE}] = g[s \ {CHOOSE x \in s : TRUE}]
            BY <1>1, <1>2, <2>2
        <3> HIDE DEF h
        <3> QED
            BY <2>2, <3>1 DEF FoldStep
    <2> QED
        BY <2>1, <2>2
<1>4. h = [s \in UpTo(S, n + 1) |-> FoldStep(f, h, s)]
    BY <1>3
<1> QED
    BY <1>4 DEF IsFold

LEMMA FoldExists ==
    ASSUME NEW S, IsFiniteSet(S), NEW f
    PROVE  \E g : IsFold(f, g, SUBSET S)
<1> DEFINE B == {n \in Nat : ~ \E g : IsFold(f, g, UpTo(S, n))}
<1>1. B = {}
    <2> SUFFICES ASSUME B # {} PROVE FALSE
        OBVIOUS
    <2>1. PICK n \in B : \A m \in B : n <= m
        <3>1. B \in SUBSET Nat
            OBVIOUS
        <3> HIDE DEF B
        <3> QED
            BY <3>1, LeastNat
    <2>2. n # 0
        <3>1. \A s \in UpTo(S, 0) : s = {}
            BY FS_Subset, FS_CardinalityType, FS_EmptySet DEF UpTo
        <3>2. \A s \in UpTo(S, 0) : FoldStep(f, [t \in UpTo(S, 0) |-> 0], s) = 0
            BY <3>1 DEF FoldStep
        <3>3. IsFold(f, [s \in UpTo(S, 0) |-> 0], UpTo(S, 0))
            BY <3>2 DEF IsFold
        <3> QED
            BY <3>3
    <2>3. n - 1 \in Nat /\ ~(n <= n - 1) /\ (n - 1) + 1 = n
        BY <2>2
    <2>4. PICK g : IsFold(f, g, UpTo(S, n - 1))
        BY <2>1, <2>3
    <2>5. \E h : IsFold(f, h, UpTo(S, (n - 1) + 1))
        BY <2>3, <2>4, FoldLevel
    <2> QED
        BY <2>3, <2>5
<1>2. Cardinality(S) \in Nat
    BY FS_CardinalityType
<1>3. \E g : IsFold(f, g, UpTo(S, Cardinality(S)))
    BY <1>1, <1>2
<1>4. UpTo(S, Cardinality(S)) = SUBSET S
    BY FS_Subset DEF UpTo
<1> QED
    BY <1>3, <1>4

LEMMA FoldUnfolds ==
    ASSUME NEW f, IsFiniteSet(DOMAIN f)
    PROVE  \E g : IsFold(f, g, SUBSET (DOMAIN f)) /\ FoldFunction(+, 0, f) = g[DOMAIN f]
<1> DEFINE g == CHOOSE g : IsFold(f, g, SUBSET (DOMAIN f))
<1>1. IsFold(f, g, SUBSET (DOMAIN f))
    BY FoldExists
<1>2. FoldFunction(+, 0, f) = g[DOMAIN f]
    BY DEF FoldFunction, FoldFunctionOnSet, MapThenFoldSet, IsFold, FoldStep
<1> QED
    BY <1>1, <1>2

Additive(g, f, S) ==
    /\ g[{}] = 0
    /\ \A s \in SUBSET S : g[s] \in Nat
    /\ \A s \in SUBSET S : \A x \in s : g[s] = f[x] + g[s \ {x}]

LEMMA FoldTakesAny ==
    ASSUME NEW n \in Nat, NEW f \in [0..(n - 1) -> Nat],
           NEW g, IsFold(f, g, SUBSET (0..(n - 1)))
    PROVE  Additive(g, f, 0..(n - 1))
<1> DEFINE S == 0..(n - 1)
<1>1. IsFiniteSet(S)
    BY FS_Interval
<1>2. \A s \in SUBSET S : g[s] = FoldStep(f, g, s)
    BY DEF IsFold
<1>3. \A x \in S : f[x] \in Nat
    OBVIOUS
<1> HIDE DEF S
<1> DEFINE Good(s) == g[s] \in Nat /\ \A x \in s : g[s] = f[x] + g[s \ {x}]
<1> DEFINE B == {Cardinality(s) : s \in {t \in SUBSET S : ~Good(t)}}
<1>4. \A s \in SUBSET S : Cardinality(s) \in Nat
    BY <1>1, FS_Subset, FS_CardinalityType
<1>5. ASSUME NEW s \in SUBSET S,
             \A t \in SUBSET S : Cardinality(t) < Cardinality(s) => Good(t)
      PROVE  Good(s)
    <2>1. CASE s = {}
        <3>1. g[s] = 0
            BY <1>2, <2>1 DEF FoldStep
        <3> QED
            BY <2>1, <3>1
    <2>2. CASE s # {}
        <3> DEFINE y == CHOOSE x \in s : TRUE
        <3>1. y \in s /\ g[s] = f[y] + g[s \ {y}]
            BY <1>2, <2>2 DEF FoldStep
        <3> HIDE DEF y
        <3>2. ASSUME NEW x \in s
              PROVE  s \ {x} \in SUBSET S /\ Good(s \ {x}) /\ f[x] \in Nat
            <4>1. s \ {x} \in SUBSET S /\ Cardinality(s \ {x}) < Cardinality(s)
                BY <1>1, Smaller
            <4> QED
                BY <1>3, <1>5, <4>1
        <3>3. g[s] \in Nat
            <4>1. g[s \ {y}] \in Nat /\ f[y] \in Nat
                BY <3>1, <3>2
            <4> QED
                BY <3>1, <4>1
        <3>4. ASSUME NEW x \in s, x # y PROVE g[s] = f[x] + g[s \ {x}]
            <4>1. (s \ {y}) \ {x} = (s \ {x}) \ {y}
                OBVIOUS
            <4>2. (s \ {y}) \ {x} \in SUBSET S /\ g[(s \ {y}) \ {x}] \in Nat
                <5>1. x \in s \ {y} /\ s \ {y} \in SUBSET S
                    BY <3>1, <3>2, <3>4
                <5>2. Good((s \ {y}) \ {x})
                    <6>1. /\ (s \ {y}) \ {x} \in SUBSET S
                          /\ Cardinality((s \ {y}) \ {x}) < Cardinality(s \ {y})
                        BY <1>1, <5>1, Smaller
                    <6>2. Cardinality(s \ {y}) < Cardinality(s)
                        BY <1>1, <3>1, Smaller
                    <6>3. Cardinality((s \ {y}) \ {x}) < Cardinality(s)
                        BY <1>4, <5>1, <6>1, <6>2
                    <6> QED
                        BY <1>5, <6>1, <6>3
                <5> QED
                    BY <5>1, <5>2
            <4>3. g[s \ {y}] = f[x] + g[(s \ {y}) \ {x}]
                BY <3>1, <3>2, <3>4
            <4>4. g[s \ {x}] = f[y] + g[(s \ {x}) \ {y}]
                BY <3>1, <3>2, <3>4
            <4>5. f[x] \in Nat /\ f[y] \in Nat
                BY <3>1, <3>2
            <4> DEFINE both == g[(s \ {y}) \ {x}]
            <4>6. /\ both \in Nat
                  /\ g[s] = f[y] + (f[x] + both)
                  /\ g[s \ {x}] = f[y] + both
                BY <3>1, <4>1, <4>2, <4>3, <4>4
            <4> HIDE DEF both
            <4> QED
                BY <4>5, <4>6
        <3> QED
            BY <3>1, <3>3, <3>4
    <2> QED
        BY <2>1, <2>2
<1>6. B = {}
    <2> SUFFICES ASSUME B # {} PROVE FALSE
        OBVIOUS
    <2>1. PICK m \in B : \A k \in B : m <= k
        <3>1. B \in SUBSET Nat
            BY <1>4
        <3> HIDE DEF B
        <3> QED
            BY <3>1, LeastNat
    <2>2. PICK s \in SUBSET S : ~Good(s) /\ Cardinality(s) = m
        BY DEF B
    <2>3. \A t \in SUBSET S : Cardinality(t) < Cardinality(s) => Good(t)
        <3> SUFFICES ASSUME NEW t \in SUBSET S, Cardinality(t) < m, ~Good(t) PROVE FALSE
            BY <2>2
        <3>1. Cardinality(t) \in B
            OBVIOUS
        <3>2. m <= Cardinality(t) /\ m \in Nat /\ Cardinality(t) \in Nat
            BY <1>4, <2>1, <2>2, <3>1
        <3> QED
            BY <3>2
    <2> QED
        BY <1>5, <2>2, <2>3
<1>7. \A s \in SUBSET S : Good(s)
    BY <1>6
<1>8. g[{}] = 0
    BY <1>2 DEF FoldStep
<1> QED
    BY <1>7, <1>8 DEF S, Additive

(* p[k] is the sum of f[0], ..., f[k - 1].                                    *)
PartialSums(p, f, n) ==
    /\ p \in [0..n -> Int]
    /\ p[0] = 0
    /\ \A k \in 0..(n - 1) : p[k + 1] = p[k] + f[k]

LEMMA FoldIsPartialSum ==
    ASSUME NEW n \in Nat, NEW f \in [0..(n - 1) -> Nat]
    PROVE  \E p : PartialSums(p, f, n) /\ FoldFunction(+, 0, f) = p[n]
<1>1. IsFiniteSet(DOMAIN f) /\ DOMAIN f = 0..(n - 1)
    <2>1. DOMAIN f = 0..(n - 1)
        OBVIOUS
    <2>2. IsFiniteSet(0..(n - 1))
        BY FS_Interval
    <2> QED
        BY <2>1, <2>2
<1>2. PICK g : IsFold(f, g, SUBSET (0..(n - 1))) /\ FoldFunction(+, 0, f) = g[0..(n - 1)]
    BY <1>1, FoldUnfolds
<1>3. /\ g[{}] = 0
      /\ \A s \in SUBSET (0..(n - 1)) : g[s] \in Nat
      /\ \A s \in SUBSET (0..(n - 1)) : \A x \in s : g[s] = f[x] + g[s \ {x}]
    <2>1. Additive(g, f, 0..(n - 1))
        BY <1>2, FoldTakesAny
    <2> QED
        BY <2>1 DEF Additive
<1> DEFINE p == [k \in 0..n |-> g[0..(k - 1)]]
<1>4. \A k \in 0..n : 0..(k - 1) \in SUBSET (0..(n - 1))
    OBVIOUS
<1>5. p \in [0..n -> Int]
    <2>1. \A k \in 0..n : g[0..(k - 1)] \in Nat
        BY <1>3, <1>4
    <2> QED
        BY <2>1
<1>6. p[0] = 0
    <2>1. 0..(0 - 1) = {}
        OBVIOUS
    <2> QED
        BY <1>3, <2>1
<1>7. ASSUME NEW k \in 0..(n - 1) PROVE p[k + 1] = p[k] + f[k]
    <2>1. k + 1 \in 0..n /\ k \in 0..n
        OBVIOUS
    <2>2. 0..((k + 1) - 1) \in SUBSET (0..(n - 1)) /\ k \in 0..((k + 1) - 1)
        OBVIOUS
    <2>3. (0..((k + 1) - 1)) \ {k} = 0..(k - 1)
        OBVIOUS
    <2>4. g[0..((k + 1) - 1)] = f[k] + g[(0..((k + 1) - 1)) \ {k}]
        BY <1>3, <2>2
    <2>5. g[0..(k - 1)] \in Nat /\ f[k] \in Nat
        BY <1>3, <1>4, <2>1
    <2>6. g[0..((k + 1) - 1)] = f[k] + g[0..(k - 1)]
        BY <2>3, <2>4
    <2> QED
        BY <2>1, <2>5, <2>6
<1>8. p[n] = g[0..(n - 1)]
    OBVIOUS
<1> HIDE DEF p
<1> QED
    BY <1>2, <1>5, <1>6, <1>7, <1>8 DEF PartialSums

-----------------------------------------------------------------------------
(* The sliding bound.  The present window covers the last ticks up to its own *)
(* age and has let through no more than it counts; all older ticks that are   *)
(* still remembered belong to one window, for no window is shorter than       *)
(* Window.                                                                    *)

NoShortWindow == ttl > 0 => ttl + age >= Window

Span == IF age + 1 <= Window THEN age + 1 ELSE Window

Spread ==
    \A p : PartialSums(p, admits, Window) =>
        p[Span] <= count /\ p[Span] <= Limit /\ p[Window] <= p[Span] + Limit

LEMMA SpreadInit == Init => NoShortWindow /\ Spread
<1> SUFFICES ASSUME Init PROVE NoShortWindow /\ Spread
    OBVIOUS
<1>1. NoShortWindow
    BY DEF Init, NoShortWindow
<1>2. ASSUME NEW p, PartialSums(p, admits, Window)
      PROVE  p[Span] <= count /\ p[Span] <= Limit /\ p[Window] <= p[Span] + Limit
    <2>1. Window \in Nat \ {0} /\ Limit \in Nat \ {0}
        BY RateAssumption DEF RateAssumption
    <2>2. count = 0 /\ Span = 1
        BY <2>1 DEF Init, Span
    <2>3. p \in [0..Window -> Int] /\ p[0] = 0
        BY <1>2 DEF PartialSums
    <2>4. \A k \in 0..(Window - 1) : p[k + 1] = p[k] + 0
        BY <1>2 DEF PartialSums, Init
    <2>5. p[Window] = 0 /\ p[1] = 0
        <3> DEFINE B == {k \in Nat : k <= Window /\ p[k] # 0}
        <3>1. B = {}
            <4> SUFFICES ASSUME B # {} PROVE FALSE
                OBVIOUS
            <4>1. PICK k \in B : \A m \in B : k <= m
                <5>1. B \in SUBSET Nat
                    OBVIOUS
                <5> HIDE DEF B
                <5> QED
                    BY <5>1, LeastNat
            <4>2. k # 0
                BY <2>3
            <4>3. k - 1 \in 0..(Window - 1) /\ ~(k <= k - 1)
                BY <2>1, <4>2
            <4>4. p[k - 1] = 0
                BY <2>1, <4>1, <4>3
            <4>5. p[(k - 1) + 1] = p[k - 1] + 0
                BY <2>4, <4>3
            <4> QED
                BY <4>3, <4>4, <4>5
        <3> QED
            BY <2>1, <3>1
    <2> QED
        BY <2>1, <2>2, <2>5
<1> QED
    BY <1>1, <1>2 DEF Spread

LEMMA SpreadExec ==
    ASSUME IInv, NoShortWindow, Spread, NEW c \in Callers, Exec(c)
    PROVE  NoShortWindow' /\ Spread'
<1>1. Window \in Nat \ {0} /\ Limit \in Nat \ {0}
    BY RateAssumption DEF RateAssumption
<1>2. count \in 0..(Limit + 1) /\ ttl \in 0..Window /\ age \in Nat
    BY DEF IInv, TypeOK
<1>3. NoShortWindow'
    BY <1>1, <1>2 DEF IInv, TypeOK, Exec, NoShortWindow
<1>4. Span \in 1..Window /\ Span' = Span
    BY <1>1, <1>2 DEF Exec, Span
<1>5. ASSUME NEW p, PartialSums(p, admits', Window)
      PROVE  p[Span] <= count' /\ p[Span] <= Limit /\ p[Window] <= p[Span] + Limit
    <2>1. CASE Admit(c)
        <3> DEFINE q == [k \in 0..Window |-> IF k = 0 THEN 0 ELSE p[k] - 1]
        <3>1. /\ p \in [0..Window -> Int]
              /\ p[0] = 0
              /\ \A k \in 0..(Window - 1) : p[k + 1] = p[k] + admits'[k]
            BY <1>5 DEF PartialSums
        <3>2. \A k \in 0..(Window - 1) :
                admits[k] \in Nat /\ admits'[k] = IF k = 0 THEN admits[k] + 1 ELSE admits[k]
            BY <2>1 DEF IInv, TypeOK, Admit
        <3>3. \A k \in 0..(Window - 1) : k \in 0..Window /\ k + 1 \in 0..Window /\ k + 1 # 0
            BY <1>1
        <3>4. ASSUME NEW k \in 0..(Window - 1) PROVE q[k + 1] = q[k] + admits[k]
            <4>1. q[k + 1] = p[k + 1] - 1
                BY <3>3
            <4>2. p[k + 1] = p[k] + admits'[k] /\ p[k] \in Int
                BY <3>1, <3>3
            <4>3. CASE k = 0
                <5>1. q[k] = 0 /\ p[k] = 0 /\ admits'[k] = admits[k] + 1 /\ admits[k] \in Nat
                    BY <1>1, <3>1, <3>2, <4>3
                <5> QED
                    BY <4>1, <4>2, <5>1
            <4>4. CASE k # 0
                BY <3>2, <3>3, <4>1, <4>2, <4>4
            <4> QED
                BY <4>3, <4>4
        <3>5. q \in [0..Window -> Int] /\ q[0] = 0
            BY <1>1, <3>1
        <3>6. q[Span] = p[Span] - 1 /\ q[Window] = p[Window] - 1
            BY <1>1, <1>4
        <3>7. p[Span] \in Int /\ p[Window] \in Int
            BY <1>1, <1>4, <3>1
        <3> HIDE DEF q
        <3>8. PartialSums(q, admits, Window)
            BY <3>4, <3>5 DEF PartialSums
        <3>9. q[Span] <= count /\ q[Span] <= Limit /\ q[Window] <= q[Span] + Limit
            BY <3>8 DEF Spread
        <3>10. count < Limit /\ count' = count + 1
            BY <2>1 DEF Admit
        <3> QED
            BY <1>1, <1>2, <3>6, <3>7, <3>9, <3>10
    <2>2. CASE Refuse(c)
        <3>1. PartialSums(p, admits, Window) /\ count' = Limit + 1
            BY <1>5, <2>2 DEF Refuse
        <3>2. p[Span] <= Limit /\ p[Window] <= p[Span] + Limit
            BY <3>1 DEF Spread
        <3>3. p[Span] \in Int
            BY <1>1, <1>4, <3>1 DEF PartialSums
        <3> QED
            BY <1>1, <3>1, <3>2, <3>3
    <2> QED
        BY <2>1, <2>2 DEF Exec
<1>6. Spread'
    BY <1>4, <1>5 DEF Spread
<1> QED
    BY <1>3, <1>6

\* Between the round trips of refused requests nothing is let through.
LEMMA SpreadStays ==
    ASSUME Spread, UNCHANGED <<count, age, admits>>
    PROVE  Spread'
    BY DEF Spread, Span

LEMMA SpreadTick ==
    ASSUME IInv, NoShortWindow, Spread, Tick
    PROVE  NoShortWindow' /\ Spread'
<1>1. Window \in Nat \ {0} /\ Limit \in Nat \ {0}
    BY RateAssumption DEF RateAssumption
<1>2. /\ count \in 0..(Limit + 1) /\ ttl \in 0..Window /\ age \in Nat
      /\ count = 0 <=> ttl = 0
      /\ ttl = 0 => age = 0
      /\ \A k \in 0..(Window - 1) : admits[k] \in Nat
    BY DEF IInv, TypeOK, WindowSpent
<1>3. /\ ttl > 1 => ttl' = ttl - 1 /\ age' = age + 1 /\ count' = count
      /\ ttl <= 1 => ttl' = 0 /\ age' = 0 /\ count' = 0
    BY <1>2 DEF Tick, Expires
<1>4. NoShortWindow'
    BY <1>1, <1>2, <1>3 DEF NoShortWindow
<1>5. Span \in 1..Window /\ Span' \in 1..Window
    BY <1>1, <1>2, <1>3 DEF Span
<1>6. ASSUME NEW p, PartialSums(p, admits', Window)
      PROVE  p[Span'] <= count' /\ p[Span'] <= Limit /\ p[Window] <= p[Span'] + Limit
    <2> DEFINE q == [k \in 0..Window |-> IF k < Window THEN p[k + 1]
                                         ELSE p[Window] + admits[Window - 1]]
    <2>1. /\ p \in [0..Window -> Int]
          /\ p[0] = 0
          /\ \A k \in 0..(Window - 1) : p[k + 1] = p[k] + admits'[k]
        BY <1>6 DEF PartialSums
    <2>2. /\ admits'[0] = 0
          /\ \A k \in 0..(Window - 1) : k + 1 < Window => admits'[k + 1] = admits[k]
        BY <1>1 DEF Tick
    <2>3. Window - 1 \in 0..(Window - 1) /\ 0 \in 0..(Window - 1) /\ Window \in 0..Window
        BY <1>1
    <2>4. p[1] = 0
        BY <2>1, <2>2, <2>3
    <2>5. /\ q[0] = p[1]
          /\ \A k \in 0..(Window - 1) : q[k] = p[k + 1]
          /\ q[Window] = p[Window] + admits[Window - 1]
        BY <1>1
    <2>6. \A k \in 0..(Window - 1) : k + 1 \in 0..Window /\ p[k + 1] \in Int
        BY <1>1, <2>1
    <2>7. q \in [0..Window -> Int]
        <3>1. \A k \in 0..Window : k < Window => k \in 0..(Window - 1)
            BY <1>1
        <3>2. p[Window] + admits[Window - 1] \in Int
            BY <1>2, <2>1, <2>3
        <3> QED
            BY <2>6, <3>1, <3>2
    <2> HIDE DEF q
    <2>8. ASSUME NEW k \in 0..(Window - 1) PROVE q[k + 1] = q[k] + admits[k]
        <3>1. CASE k = Window - 1
            BY <1>1, <2>5, <3>1
        <3>2. CASE k # Window - 1
            <4>1. k + 1 \in 0..(Window - 1) /\ k + 1 < Window
                BY <1>1, <3>2
            <4>2. q[k + 1] = p[(k + 1) + 1] /\ q[k] = p[k + 1]
                BY <2>5, <4>1
            <4>3. p[(k + 1) + 1] = p[k + 1] + admits'[k + 1] /\ admits'[k + 1] = admits[k]
                BY <2>1, <2>2, <4>1
            <4> QED
                BY <4>2, <4>3
        <3> QED
            BY <3>1, <3>2
    <2>9. PartialSums(q, admits, Window)
        BY <2>4, <2>5, <2>7, <2>8 DEF PartialSums
    <2>10. q[Span] <= count /\ q[Span] <= Limit /\ q[Window] <= q[Span] + Limit
        BY <2>9 DEF Spread
    <2>11. /\ q[Span] \in Int /\ q[Window] \in Int /\ p[Window] \in Int
           /\ p[Window] <= q[Window]
        <3>1. q[Span] \in Int /\ q[Window] \in Int /\ p[Window] \in Int
            BY <1>1, <1>5, <2>1, <2>3, <2>7
        <3>2. admits[Window - 1] \in Nat /\ q[Window] = p[Window] + admits[Window - 1]
            BY <1>2, <2>3, <2>5
        <3> QED
            BY <3>1, <3>2
    <2>12. CASE ttl > 1
        <3>1. CASE age + 2 <= Window
            <4>1. Span = age + 1 /\ Span' = age + 2 /\ Span \in 0..(Window - 1)
                BY <1>1, <1>2, <1>3, <2>12, <3>1 DEF Span
            <4>2. p[Span'] = q[Span]
                BY <1>2, <2>5, <4>1
            <4> QED
                BY <1>1, <1>2, <1>3, <2>10, <2>11, <2>12, <4>2
        <3>2. CASE ~(age + 2 <= Window)
            <4>1. Span = Window /\ Span' = Window
                BY <1>1, <1>2, <1>3, <2>12, <3>2 DEF Span
            <4> QED
                BY <1>1, <1>2, <1>3, <2>10, <2>11, <2>12, <4>1
        <3> QED
            BY <3>1, <3>2
    <2>13. CASE ttl <= 1
        <3>1. Span' = 1 /\ count' = 0
            BY <1>1, <1>3, <2>13 DEF Span
        <3>2. q[Window] <= Limit
            <4>1. CASE ttl = 1
                <5>1. Span = Window
                    BY <1>1, <1>2, <4>1 DEF NoShortWindow, Span
                <5> QED
                    BY <2>10, <5>1
            <4>2. CASE ttl = 0
                BY <1>1, <1>2, <2>10, <2>11, <4>2
            <4> QED
                BY <1>2, <2>13, <4>1, <4>2
        <3> QED
            BY <1>1, <2>4, <2>11, <3>1, <3>2
    <2> QED
        BY <1>2, <2>12, <2>13
<1>7. Spread'
    BY <1>6 DEF Spread
<1> QED
    BY <1>4, <1>7

LEMMA SpreadKept ==
    ASSUME IInv, NoShortWindow, Spread, [Next]_vars
    PROVE  NoShortWindow' /\ Spread'
<1>1. CASE UNCHANGED vars
    <2>1. UNCHANGED <<count, ttl, age, admits>>
        BY <1>1 DEF vars
    <2> QED
        BY <2>1, SpreadStays DEF NoShortWindow
<1>2. CASE Tick
    BY <1>2, SpreadTick
<1>3. ASSUME NEW c \in Callers, Request(c) PROVE NoShortWindow' /\ Spread'
    <2>1. CASE Exec(c)
        BY <2>1, SpreadExec
    <2>2. CASE ~Exec(c)
        <3>1. UNCHANGED <<count, age, admits>> /\ (ttl' = ttl \/ ttl' = 0 \/ ttl' = Window)
            BY <1>3, <2>2 DEF Request, ReadTtl, ReadNoTtl, Rearm, Dies
        <3>2. NoShortWindow'
            BY <3>1, RateAssumption DEF RateAssumption, IInv, TypeOK, NoShortWindow
        <3> QED
            BY <3>1, <3>2, SpreadStays
    <2> QED
        BY <2>1, <2>2
<1> QED
    BY <1>1, <1>2, <1>3 DEF Next

(* In no span as long as a window does a sender get more than twice the limit *)
(* through, whatever the number of its requests in flight and wherever the    *)
(* expiry of the key falls between their round trips (store.py:126-129).      *)
THEOREM SlidingBoundHolds == Safety => []SlidingBound
<1>1. Init => NoShortWindow /\ Spread
    BY SpreadInit
<1>2. IInv /\ NoShortWindow /\ Spread /\ [Next]_vars => (NoShortWindow /\ Spread)'
    BY SpreadKept
<1>3. IInv /\ NoShortWindow /\ Spread => SlidingBound
    <2> SUFFICES ASSUME IInv, Spread PROVE SlidingBound
        OBVIOUS
    <2>1. Window \in Nat \ {0} /\ Limit \in Nat \ {0} /\ age \in Nat
        BY RateAssumption DEF RateAssumption, IInv, TypeOK
    <2>2. admits \in [0..(Window - 1) -> Nat]
        BY <2>1 DEF IInv, TypeOK
    <2>3. PICK p : PartialSums(p, admits, Window) /\ FoldFunction(+, 0, admits) = p[Window]
        BY <2>1, <2>2, FoldIsPartialSum
    <2>4. p[Span] <= Limit /\ p[Window] <= p[Span] + Limit
        BY <2>3 DEF Spread
    <2>5. p[Span] \in Int /\ p[Window] \in Int
        <3>1. Span \in 0..Window /\ Window \in 0..Window
            BY <2>1 DEF Span
        <3> QED
            BY <2>3, <3>1 DEF PartialSums
    <2>6. p[Window] <= 2 * Limit
        BY <2>1, <2>4, <2>5
    <2> QED
        BY <2>3, <2>6 DEF SlidingBound, Admitted
<1> QED
    BY <1>1, <1>2, <1>3, RateInvariantHolds, PTL DEF Safety
=============================================================================
