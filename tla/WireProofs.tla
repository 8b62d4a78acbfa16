----------------------------- MODULE WireProofs -----------------------------
(* Theorems about module Wire, for any machines a client may start on, any    *)
(* number of frames on a connection and any cap on the wait.                  *)
EXTENDS Wire, SequenceTheorems, FiniteSetTheorems, NaturalsInduction,
        WellFoundedInduction, TLAPS

(* Recursive functions: what is defined step by step exists, and has its      *)
(* equation.  The library's theorems on recursion take an operator; these     *)
(* take functions, and go by the least number at which something fails.       *)

Less == {p \in Nat \X Nat : p[1] < p[2]}

LEMMA LeastNat ==
    ASSUME NEW B \in SUBSET Nat, B # {}
    PROVE  \E n \in B : \A m \in B : n <= m
<1>1. Less = OpToRel(<, Nat)
    BY DEF Less, OpToRel
<1>2. IsWellFoundedOn(Less, Nat)
    BY <1>1, NatLessThanWellFounded
<1>3. \E n \in B : \A m \in B : ~(<<m, n>> \in Less)
    BY <1>2, WFMin
<1>4. \A m, n \in Nat : m < n => <<m, n>> \in Less
    BY DEF Less
<1>5. \A m, n \in Nat : ~(m < n) => n <= m
    OBVIOUS
<1> QED
    BY <1>3, <1>4, <1>5

\* A property of numbers, as the set that has it, holds of all below N.
LEMMA CountUp ==
    ASSUME NEW N \in Nat, NEW G,
           0 \in G,
           \A n \in 1..N : n - 1 \in G => n \in G
    PROVE  \A n \in 0..N : n \in G
<1> SUFFICES ASSUME NEW k \in 0..N, k \notin G PROVE FALSE
    OBVIOUS
<1> DEFINE B == {n \in 0..N : n \notin G}
<1>1. B \in SUBSET Nat /\ B # {}
    OBVIOUS
<1>2. PICK n \in B : \A m \in B : n <= m
    <2> HIDE DEF B
    <2> QED
        BY <1>1, LeastNat
<1>3. n \in 1..N /\ n - 1 \in 0..N /\ ~(n <= n - 1)
    OBVIOUS
<1>4. n - 1 \in G
    BY <1>2, <1>3
<1> QED
    BY <1>3, <1>4

Follows(f, f0, step, N) ==
    /\ f[0] = f0
    /\ \A n \in 1..N : f[n] = step[n][f[n - 1]]

LEMMA BoundedRecursion ==
    ASSUME NEW N \in Nat, NEW V, NEW f0 \in V, NEW step \in [1..N -> [V -> V]]
    PROVE  \E f \in [0..N -> V] : Follows(f, f0, step, N)
<1> DEFINE G == {n \in 0..N : \E f \in [0..n -> V] : Follows(f, f0, step, n)}
<1>1. 0 \in G
    <2>1. [i \in 0..0 |-> f0] \in [0..0 -> V]
        OBVIOUS
    <2>2. Follows([i \in 0..0 |-> f0], f0, step, 0)
        BY DEF Follows
    <2> QED
        BY <2>1, <2>2
<1>2. ASSUME NEW n \in 1..N, n - 1 \in G PROVE n \in G
    <2>1. PICK f \in [0..(n - 1) -> V] : Follows(f, f0, step, n - 1)
        BY <1>2
    <2> DEFINE g == [i \in 0..n |-> IF i = n THEN step[n][f[n - 1]] ELSE f[i]]
    <2>2. step[n][f[n - 1]] \in V
        OBVIOUS
    <2>3. g \in [0..n -> V]
        BY <2>2
    <2>4. g[0] = f0
        BY <2>1 DEF Follows
    <2>5. ASSUME NEW i \in 1..n PROVE g[i] = step[i][g[i - 1]]
        <3>1. CASE i = n
            BY <3>1
        <3>2. CASE i # n
            <4>1. i \in 1..(n - 1) /\ i - 1 # n /\ i \in 0..n /\ i - 1 \in 0..n
                BY <3>2
            <4>2. f[i] = step[i][f[i - 1]]
                BY <2>1, <4>1 DEF Follows
            <4> QED
                BY <3>2, <4>1, <4>2
        <3> QED
            BY <3>1, <3>2
    <2>6. Follows(g, f0, step, n)
        <3> HIDE DEF g
        <3> QED
            BY <2>4, <2>5 DEF Follows
    <2> QED
        BY <2>3, <2>6
<1>3. \A n \in 0..N : n \in G
    <2> HIDE DEF G
    <2> QED
        BY <1>1, <1>2, CountUp
<1> QED
    BY <1>3

(* The elements of a sequence at some positions, in order.                    *)

LEMMA PickedExists ==
    ASSUME NEW V, NEW s \in Seq(V), NEW S
    PROVE  /\ Picked(s, S) \in [0..Len(s) -> Seq(V)]
           /\ Picked(s, S)[0] = <<>>
           /\ \A n \in 1..Len(s) :
                Picked(s, S)[n] = IF n \in S THEN Append(Picked(s, S)[n - 1], s[n])
                                  ELSE Picked(s, S)[n - 1]
<1> DEFINE N == Len(s)
           step == [n \in 1..N |-> [q \in Seq(V) |-> IF n \in S THEN Append(q, s[n]) ELSE q]]
           body(f) == [n \in 0..N |-> IF n = 0 THEN <<>>
                                      ELSE IF n \in S THEN Append(f[n - 1], s[n])
                                      ELSE f[n - 1]]
<1>1. N \in Nat /\ \A n \in 1..N : s[n] \in V
    BY LenProperties, ElementOfSeq
<1>2. step \in [1..N -> [Seq(V) -> Seq(V)]]
    BY <1>1, AppendProperties
<1>3. <<>> \in Seq(V)
    BY EmptySeq
<1>4. PICK f \in [0..N -> Seq(V)] : Follows(f, <<>>, step, N)
    <2> HIDE DEF step, N
    <2> QED
        BY <1>1, <1>2, <1>3, BoundedRecursion
<1>5. \A n \in 1..N : n - 1 \in 0..N /\ f[n - 1] \in Seq(V)
    <2> HIDE DEF N
    <2>1. \A n \in 1..N : n - 1 \in 0..N
        BY <1>1
    <2> QED
        BY <2>1
<1>6. \A n \in 1..N : f[n] = IF n \in S THEN Append(f[n - 1], s[n]) ELSE f[n - 1]
    <2>1. \A n \in 1..N : \A q \in Seq(V) : step[n][q] = IF n \in S THEN Append(q, s[n]) ELSE q
        OBVIOUS
    <2> HIDE DEF step, N
    <2>2. \A n \in 1..N : f[n] = step[n][f[n - 1]]
        BY <1>4 DEF Follows
    <2> QED
        BY <1>5, <2>1, <2>2
<1>7. f[0] = <<>>
    BY <1>4 DEF Follows
<1>8. 0 \in 0..N /\ \A n \in 0..N : n # 0 => n \in 1..N
    BY <1>1
<1>9. \A n \in 1..N : n \in 0..N /\ n # 0
    BY <1>1
<1>10. f = body(f)
    <2> HIDE DEF N, step
    <2>1. \A n \in 0..N : f[n] = body(f)[n]
        BY <1>6, <1>7, <1>8
    <2>2. f = [n \in 0..N |-> f[n]]
        OBVIOUS
    <2> QED
        BY <2>1, <2>2
<1>11. Picked(s, S) = CHOOSE g : g = body(g)
    BY DEF Picked
<1>12. Picked(s, S) = body(Picked(s, S))
    <2> HIDE DEF body
    <2> QED
        BY <1>10, <1>11
<1> DEFINE p == Picked(s, S)
<1>13. p[0] = <<>> /\ \A n \in 1..N : p[n] = IF n \in S THEN Append(p[n - 1], s[n])
                                              ELSE p[n - 1]
    <2> HIDE DEF p
    <2> SUFFICES ASSUME p = body(p) PROVE
           p[0] = <<>> /\ \A n \in 1..N : p[n] = IF n \in S THEN Append(p[n - 1], s[n])
                                              ELSE p[n - 1]
        BY <1>12 DEF p
    <2> HIDE DEF N
    <2> QED
        BY <1>9, <1>8
<1>14. DOMAIN p = 0..N /\ p = [n \in 0..N |-> p[n]]
    <2> HIDE DEF p
    <2> SUFFICES ASSUME p = body(p) PROVE DOMAIN p = 0..N /\ p = [n \in 0..N |-> p[n]]
        BY <1>12 DEF p
    <2> QED
        OBVIOUS
<1>15. \A n \in 0..N : p[n] \in Seq(V)
    <2> DEFINE G == {n \in 0..N : p[n] \in Seq(V)}
    <2> HIDE DEF p, N
    <2>1. 0 \in G
        BY <1>3, <1>13, <1>8
    <2>2. ASSUME NEW n \in 1..N, n - 1 \in G PROVE n \in G
        <3>1. p[n - 1] \in Seq(V) /\ s[n] \in V
            BY <1>1, <2>2
        <3>2. Append(p[n - 1], s[n]) \in Seq(V)
            BY <3>1, AppendProperties
        <3> QED
            BY <1>13, <1>9, <3>1, <3>2
    <2> HIDE DEF G
    <2>3. \A n \in 0..N : n \in G
        BY <1>1, <2>1, <2>2, CountUp
    <2> QED
        BY <2>3 DEF G
<1>16. p \in [0..N -> Seq(V)]
    <2> HIDE DEF p
    <2> QED
        BY <1>14, <1>15
<1> QED
    BY <1>13, <1>16

LEMMA DoubledGrows ==
    /\ \A n \in 0..MaxSleeps : Doubled[n] \in Nat \ {0}
    /\ Doubled[0] = 1
    /\ \A n \in 1..MaxSleeps : Doubled[n] = 2 * Doubled[n - 1]
<1> DEFINE N == MaxSleeps
           V == Nat \ {0}
           step == [n \in 1..N |-> [q \in V |-> 2 * q]]
           body(f) == [n \in 0..N |-> IF n = 0 THEN 1 ELSE 2 * f[n - 1]]
<1>1. N \in Nat
    BY WireAssumption DEF WireAssumption
<1>2. step \in [1..N -> [V -> V]] /\ 1 \in V
    OBVIOUS
<1>3. PICK f \in [0..N -> V] : Follows(f, 1, step, N)
    <2> HIDE DEF step, N, V
    <2> QED
        BY <1>1, <1>2, BoundedRecursion
<1>4. \A n \in 1..N : n - 1 \in 0..N /\ n \in 0..N /\ n # 0 /\ f[n - 1] \in V
    BY <1>1
<1>5. 0 \in 0..N /\ \A n \in 0..N : n # 0 => n \in 1..N
    BY <1>1
<1>6. f[0] = 1 /\ \A n \in 1..N : f[n] = 2 * f[n - 1]
    BY <1>3, <1>4 DEF Follows
<1>7. f = body(f)
    <2> HIDE DEF N, V, step
    <2>1. \A n \in 0..N : f[n] = body(f)[n]
        BY <1>5, <1>6
    <2>2. f = [n \in 0..N |-> f[n]]
        OBVIOUS
    <2> QED
        BY <2>1, <2>2
<1>8. Doubled = CHOOSE g : g = body(g)
    BY DEF Doubled
<1>9. Doubled = body(Doubled)
    <2> HIDE DEF body
    <2> QED
        BY <1>7, <1>8
<1>10. Doubled[0] = 1 /\ \A n \in 1..N : Doubled[n] = 2 * Doubled[n - 1]
    <2> DEFINE p == Doubled
    <2>1. p = body(p)
        BY <1>9
    <2> HIDE DEF p, N
    <2>2. p[0] = 1 /\ \A n \in 1..N : p[n] = 2 * p[n - 1]
        BY <1>4, <1>5, <2>1
    <2> QED
        BY <2>2 DEF p
<1>11. \A n \in 0..N : Doubled[n] \in V
    <2> DEFINE G == {n \in 0..N : Doubled[n] \in V}
    <2>1. 0 \in G
        BY <1>5, <1>10
    <2>2. ASSUME NEW n \in 1..N, n - 1 \in G PROVE n \in G
        BY <1>4, <1>10, <2>2
    <2> HIDE DEF G, N, V
    <2>3. \A n \in 0..N : n \in G
        BY <1>1, <2>1, <2>2, CountUp
    <2> QED
        BY <2>3 DEF G
<1> QED
    BY <1>10, <1>11

-----------------------------------------------------------------------------
(* The address.                                                               *)

Joined(w, s, u) ==
    /\ Len(w) = Len(s) + Len(u)
    /\ \A i \in 1..Len(s) : w[i] = s[i]
    /\ \A i \in 1..Len(u) : w[Len(s) + i] = u[i]

LEMMA Concatenated ==
    ASSUME NEW V, NEW s \in Seq(V), NEW u \in Seq(V)
    PROVE  s \o u \in Seq(V) /\ Joined(s \o u, s, u)
<1>1. Len(s) \in Nat /\ Len(u) \in Nat
    BY LenProperties
<1>2. /\ s \o u \in Seq(V) /\ Len(s \o u) = Len(s) + Len(u)
      /\ \A i \in 1..(Len(s) + Len(u)) : (s \o u)[i] =
             IF i <= Len(s) THEN s[i] ELSE u[i - Len(s)]
    BY ConcatProperties
<1>3. \A i \in 1..Len(s) : i \in 1..(Len(s) + Len(u)) /\ i <= Len(s)
    BY <1>1
<1>4. \A i \in 1..Len(u) : /\ Len(s) + i \in 1..(Len(s) + Len(u))
                           /\ ~(Len(s) + i <= Len(s)) /\ (Len(s) + i) - Len(s) = i
    BY <1>1
<1> QED
    BY <1>2, <1>3, <1>4 DEF Joined

\* What a segment is made of, and what a project's name is before that.
Plain == {"x", "-", "~"}
Project == Seq(Chars \cup {"~"})

LEMMA SegIsPlain ==
    ASSUME NEW s \in Project
    PROVE  seg(s) \in Seq(Plain) /\ seg(s) # <<>>
<1> DEFINE d == [i \in DOMAIN s |-> dash(s[i])]
           S == {i \in strip(s) : IsOutside(s[i]) /\ i - 1 \in strip(s)
                                    => ~IsOutside(s[i - 1])}
<1>1. \A c \in Chars \cup {"~"} : dash(c) \in Plain
    BY DEF dash, IsOutside, Chars, Plain
<1>2. DOMAIN s = 1..Len(s) /\ Len(s) \in Nat /\ \A i \in DOMAIN s : s[i] \in Chars \cup {"~"}
    BY LenProperties, ElementOfSeq DEF Project
<1>3. d \in [1..Len(s) -> Plain]
    BY <1>1, <1>2
<1>4. d \in Seq(Plain) /\ Len(d) \in Nat /\ Len(d) \in 0..Len(d)
    <2>1. d \in Seq(Plain)
        BY <1>2, <1>3
    <2> QED
        BY <2>1, LenProperties
<1>5. At(d, S) \in Seq(Plain)
    <2> HIDE DEF d, S
    <2>1. Picked(d, S) \in [0..Len(d) -> Seq(Plain)]
        BY <1>4, PickedExists
    <2> QED
        BY <1>4, <2>1 DEF At
<1>6. dashed(s) \in Seq(Plain)
    BY <1>5 DEF dashed
<1>7. <<"-">> \in Seq(Plain) /\ <<"-">> # <<>>
    BY DEF Plain
<1> QED
    BY <1>6, <1>7 DEF seg

LEMMA BasenameIsName ==
    ASSUME NEW path \in Path
    PROVE  basename(path) \in Name
<1>1. CASE path = <<>>
    BY <1>1, EmptySeq DEF basename, Name
<1>2. CASE path # <<>>
    <2>1. Len(path) \in 1..Len(path)
        BY <1>2, LenProperties, EmptySeq DEF Path
    <2>2. path[Len(path)] \in Name
        BY <2>1, ElementOfSeq DEF Path
    <2> QED
        BY <1>2, <2>2 DEF basename, Last
<1> QED
    BY <1>1, <1>2

LEMMA ProjectIsProject ==
    ASSUME NEW e \in Environments
    PROVE  /\ derive_project(e) \in Project
           /\ pluginProject(e) \in Project
           /\ e.override \in Project
           /\ e.hostname \in Project
<1>1. Chars \subseteq Chars \cup {"~"}
    OBVIOUS
<1>2. Name \subseteq Project
    BY <1>1, SeqMonotonic DEF Name, Project
<1>3. /\ e.override \in Name /\ e.hostname \in Name /\ e.common \in Path
      /\ e.gitdir \in Path /\ e.toplevel \in Path /\ e.cwd \in Path
    BY WireAssumption DEF WireAssumption
<1>4. pluginProject(e) \in Project
    BY <1>2, <1>3, BasenameIsName DEF pluginProject
<1>5. git_identity(e).repo \in Name /\ git_identity(e).worktree \in Name
    <2>0. <<>> \in Name
        BY EmptySeq DEF Name
    <2>1. CASE e.common = <<>>
        BY <2>0, <2>1 DEF git_identity
    <2>2. CASE e.common # <<>>
        <3>1. Front(e.common) \in Path
            BY <1>3, <2>2, LenProperties, SubSeqProperties DEF Path, Front
        <3>2. basename(Front(e.common)) \in Name /\ basename(e.gitdir) \in Name
            BY <1>3, <3>1, BasenameIsName
        <3> QED
            BY <2>0, <2>2, <3>2 DEF git_identity
    <2> QED
        BY <2>1, <2>2
<1>6. derive_project(e) \in Project
    <2> DEFINE id == git_identity(e)
    <2>1. id.repo \in Project /\ id.worktree \in Project /\ basename(e.cwd) \in Project
        BY <1>2, <1>3, <1>5, BasenameIsName
    <2>2. <<"~">> \in Project
        BY DEF Project
    <2>3. id.repo \o <<"~">> \o id.worktree \in Project
        BY <2>1, <2>2, ConcatProperties DEF Project
    <2>4. derive_project(e) \in {id.repo \o <<"~">> \o id.worktree, id.repo, basename(e.cwd)}
        <3> HIDE DEF id
        <3> QED
            BY DEF derive_project, id
    <2> QED
        BY <2>1, <2>3, <2>4
<1> QED
    BY <1>2, <1>3, <1>4, <1>6

LEMMA ThreeElements ==
    ASSUME NEW x, NEW y, NEW z, x # y, y # z, x # z
    PROVE  Cardinality({x, y, z}) = 3
<1>1. IsFiniteSet({x}) /\ Cardinality({x}) = 1
    BY FS_Singleton
<1>2. y \notin {x} /\ {x} \cup {y} = {x, y}
    OBVIOUS
<1>3. IsFiniteSet({x, y}) /\ Cardinality({x, y}) = 1 + 1
    BY <1>1, <1>2, FS_AddElement
<1>4. z \notin {x, y} /\ {x, y} \cup {z} = {x, y, z}
    OBVIOUS
<1>5. Cardinality({x, y, z}) = (1 + 1) + 1
    BY <1>3, <1>4, FS_AddElement
<1> QED
    BY <1>5

LEMMA HeaderFits ==
    ASSUME NEW A \in Seq(Plain), A # <<>>, NEW B \in Seq(Plain), B # <<>>,
           NEW C \in Seq(Plain), C # <<>>
    PROVE  LET h == A \o <<"/", "x", "/">> \o B \o <<"/">> \o C
           IN  h \in Seq({"x", "-", "~", "/"}) /\ encodes(h) /\ parse_agent_header(h)
<1> DEFINE V == {"x", "-", "~", "/"}
           a == Len(A)
           b == Len(B)
           c == Len(C)
           h == A \o <<"/", "x", "/">> \o B \o <<"/">> \o C
           at == {a + 1, a + 3, a + b + 4}
<1>1. a \in Nat \ {0} /\ b \in Nat \ {0} /\ c \in Nat \ {0}
    BY LenProperties, EmptySeq
<1>2. /\ h \in Seq(V) /\ Len(h) = a + b + c + 4
      /\ \A i \in 1..a : h[i] = A[i]
      /\ h[a + 1] = "/" /\ h[a + 2] = "x" /\ h[a + 3] = "/"
      /\ \A i \in 1..b : h[a + 3 + i] = B[i]
      /\ h[a + b + 4] = "/"
      /\ \A i \in 1..c : h[a + b + 4 + i] = C[i]
    <2> DEFINE m == <<"/", "x", "/">>
               n == <<"/">>
               h1 == A \o m
               h2 == h1 \o B
               h3 == h2 \o n
    <2>1. A \in Seq(V) /\ B \in Seq(V) /\ C \in Seq(V)
        BY SeqMonotonic DEF Plain
    <2>2. m \in Seq(V) /\ Len(m) = 3 /\ m[1] = "/" /\ m[2] = "x" /\ m[3] = "/"
        OBVIOUS
    <2>3. n \in Seq(V) /\ Len(n) = 1 /\ n[1] = "/"
        OBVIOUS
    <2> HIDE DEF V, m, n
    <2>4. /\ h1 \in Seq(V) /\ Len(h1) = a + 3
          /\ \A i \in 1..a : h1[i] = A[i]
          /\ \A i \in 1..3 : h1[a + i] = m[i]
        <3>1. A \o m \in Seq(V) /\ Joined(A \o m, A, m)
            BY <2>1, <2>2, Concatenated
        <3> QED
            BY <2>2, <3>1 DEF Joined
    <2> HIDE DEF h1, a
    <2>5. /\ h2 \in Seq(V) /\ Len(h2) = a + 3 + b
          /\ \A i \in 1..(a + 3) : h2[i] = h1[i]
          /\ \A i \in 1..b : h2[a + 3 + i] = B[i]
        <3>1. h1 \o B \in Seq(V) /\ Joined(h1 \o B, h1, B)
            BY <2>1, <2>4, Concatenated
        <3> QED
            BY <2>4, <3>1 DEF Joined
    <2> HIDE DEF h2, b
    <2>6. /\ h3 \in Seq(V) /\ Len(h3) = a + 3 + b + 1
          /\ \A i \in 1..(a + 3 + b) : h3[i] = h2[i]
          /\ \A i \in 1..1 : h3[a + 3 + b + i] = n[i]
        <3>1. h2 \o n \in Seq(V) /\ Joined(h2 \o n, h2, n)
            BY <2>3, <2>5, Concatenated
        <3> QED
            BY <2>3, <2>5, <3>1 DEF Joined
    <2>7. h = h3 \o C
        BY DEF h1, h2, h3, m, n
    <2> HIDE DEF h3, h
    <2>8. /\ h \in Seq(V) /\ Len(h) = a + 3 + b + 1 + c
          /\ \A i \in 1..(a + 3 + b + 1) : h[i] = h3[i]
          /\ \A i \in 1..c : h[a + 3 + b + 1 + i] = C[i]
        <3>1. h3 \o C \in Seq(V) /\ Joined(h3 \o C, h3, C)
            BY <2>1, <2>6, Concatenated
        <3> QED
            BY <2>6, <2>7, <3>1 DEF Joined
    <2> HIDE DEF c
    <2>9. \A i \in 1..(a + 3) : h[i] = h1[i]
        <3>1. \A i \in 1..(a + 3) : i \in 1..(a + 3 + b) /\ i \in 1..(a + 3 + b + 1)
            BY <1>1
        <3> QED
            BY <2>5, <2>6, <2>8, <3>1
    <2>10. \A i \in 1..a : h[i] = A[i]
        <3>1. \A i \in 1..a : i \in 1..(a + 3)
            BY <1>1
        <3> QED
            BY <2>4, <2>9, <3>1
    <2>11. h[a + 1] = "/" /\ h[a + 2] = "x" /\ h[a + 3] = "/"
        <3>1. \A i \in 1..3 : a + i \in 1..(a + 3)
            BY <1>1
        <3> QED
            BY <2>2, <2>4, <2>9, <3>1
    <2>12. \A i \in 1..b : h[a + 3 + i] = B[i]
        <3>1. \A i \in 1..b : a + 3 + i \in 1..(a + 3 + b) /\ a + 3 + i \in 1..(a + 3 + b + 1)
            BY <1>1
        <3> QED
            BY <2>5, <2>6, <2>8, <3>1
    <2>13. h[a + b + 4] = "/"
        <3>1. a + b + 4 = a + 3 + b + 1 /\ a + 3 + b + 1 \in 1..(a + 3 + b + 1)
            BY <1>1
        <3>2. h3[a + 3 + b + 1] = n[1]
            BY <2>6
        <3> QED
            BY <2>3, <2>8, <3>1, <3>2
    <2>14. Len(h) = a + b + c + 4 /\ \A i \in 1..c : a + b + 4 + i = a + 3 + b + 1 + i
        BY <1>1, <2>8
    <2> QED
        BY <2>8, <2>10, <2>11, <2>12, <2>13, <2>14
<1>4. \A i \in 1..a : A[i] \in Plain
    BY ElementOfSeq
<1>5. \A i \in 1..b : B[i] \in Plain
    BY ElementOfSeq
<1>6. \A i \in 1..c : C[i] \in Plain
    BY ElementOfSeq
<1> HIDE DEF h, a, b, c
<1>7. \A i \in 1..(a + b + c + 4) : (h[i] = "/" <=> i \in at) /\ h[i] \in V
    <2> SUFFICES ASSUME NEW i \in 1..(a + b + c + 4)
                 PROVE  (h[i] = "/" <=> i \in at) /\ h[i] \in V
        OBVIOUS
    <2>1. CASE i \in 1..a
        <3>1. h[i] = A[i] /\ A[i] \in Plain
            BY <1>2, <1>4, <2>1
        <3>2. i \notin at
            BY <1>1, <2>1
        <3> QED
            BY <3>1, <3>2 DEF Plain
    <2>2. CASE i \in at \/ i = a + 2
        <3>1. a + 2 \notin at
            BY <1>1
        <3> QED
            BY <1>2, <2>2, <3>1
    <2>3. CASE i \in (a + 4)..(a + 3 + b)
        <3>1. i - (a + 3) \in 1..b /\ a + 3 + (i - (a + 3)) = i /\ i \notin at
            BY <1>1, <2>3
        <3>2. h[i] \in Plain
            BY <1>2, <1>5, <3>1
        <3> QED
            BY <3>1, <3>2 DEF Plain
    <2>4. CASE i \in (a + b + 5)..(a + b + c + 4)
        <3>1. i - (a + b + 4) \in 1..c /\ a + b + 4 + (i - (a + b + 4)) = i /\ i \notin at
            BY <1>1, <2>4
        <3>2. h[i] \in Plain
            BY <1>2, <1>6, <3>1
        <3> QED
            BY <3>1, <3>2 DEF Plain
    <2>5. \/ i \in 1..a \/ i \in at \/ i = a + 2
          \/ i \in (a + 4)..(a + 3 + b) \/ i \in (a + b + 5)..(a + b + c + 4)
        BY <1>1
    <2> QED
        BY <2>1, <2>2, <2>3, <2>4, <2>5
<1>8. DOMAIN h = 1..(a + b + c + 4)
    BY <1>2, LenProperties
<1>9. {i \in DOMAIN h : h[i] = "/"} = at
    BY <1>1, <1>7, <1>8
<1>10. Cardinality(at) = 3
    <2>1. a + 1 # a + 3 /\ a + 3 # a + b + 4 /\ a + 1 # a + b + 4
        BY <1>1
    <2> QED
        BY <2>1, ThreeElements
<1>11. encodes(h)
    BY <1>7, <1>8 DEF encodes, IsOutside
<1>12. parse_agent_header(h)
    <2>1. at \cap {1, Len(h)} = {}
        BY <1>1, <1>2
    <2>2. \A i \in at : i + 1 \notin at
        BY <1>1
    <2> QED
        BY <1>9, <1>10, <2>1, <2>2 DEF parse_agent_header
<1> QED
    BY <1>2, <1>11, <1>12 DEF h

-----------------------------------------------------------------------------
(* The stream.  What a client of runtime r makes of the first n frames of s.  *)

Events == [event : {"deliver", "_ping", "error"}, payload : Nat]

HeardOf(r, s) == Picked(s, {n \in DOMAIN s : r = "claude" \/ s[n].event # "_ping"})

IsHeard(h, r, s) ==
    /\ h \in [0..Len(s) -> Seq(Events)]
    /\ h[0] = <<>>
    /\ \A n \in 1..Len(s) :
         h[n] = IF r = "claude" \/ s[n].event # "_ping" THEN Append(h[n - 1], s[n])
                ELSE h[n - 1]

LEMMA HeardIs ==
    ASSUME NEW r, NEW s \in Seq(Events)
    PROVE  IsHeard(HeardOf(r, s), r, s)
<1> DEFINE S == {n \in DOMAIN s : r = "claude" \/ s[n].event # "_ping"}
<1>1. DOMAIN s = 1..Len(s)
    BY LenProperties
<1>2. \A n \in 1..Len(s) : n \in S <=> r = "claude" \/ s[n].event # "_ping"
    BY <1>1
<1> HIDE DEF S
<1>3. /\ Picked(s, S) \in [0..Len(s) -> Seq(Events)]
      /\ Picked(s, S)[0] = <<>>
      /\ \A n \in 1..Len(s) :
           Picked(s, S)[n] = IF n \in S THEN Append(Picked(s, S)[n - 1], s[n])
                             ELSE Picked(s, S)[n - 1]
    BY PickedExists
<1>4. HeardOf(r, s) = Picked(s, S)
    BY DEF HeardOf, S
<1> QED
    BY <1>2, <1>3, <1>4 DEF IsHeard

\* A frame more changes nothing about what the earlier ones come to.
LEMMA HeardGrows ==
    ASSUME NEW r, NEW s \in Seq(Events), NEW e \in Events
    PROVE  \A n \in 0..Len(s) : HeardOf(r, Append(s, e))[n] = HeardOf(r, s)[n]
<1> DEFINE u == Append(s, e)
           h == HeardOf(r, s)
           k == HeardOf(r, u)
           N == Len(s)
           G == {n \in 0..N : k[n] = h[n]}
<1>1. u \in Seq(Events) /\ Len(u) = N + 1 /\ N \in Nat /\ \A n \in 1..N : u[n] = s[n]
    BY LenProperties, AppendProperties
<1>2. IsHeard(h, r, s)
    BY HeardIs
<1>3. IsHeard(k, r, u)
    BY <1>1, HeardIs
<1> HIDE DEF u, h, k, N
<1>4. \A n \in 1..N : n \in 1..Len(u) /\ n \in 0..N /\ n - 1 \in 0..N
    BY <1>1
<1>5. 0 \in 0..N
    BY <1>1
<1>6. 0 \in G
    BY <1>2, <1>3, <1>5 DEF IsHeard
<1>7. \A n \in 1..N : h[n] = IF r = "claude" \/ s[n].event # "_ping" THEN Append(h[n - 1], s[n])
                             ELSE h[n - 1]
    BY <1>2 DEF IsHeard, N
<1>8. \A n \in 1..N : k[n] = IF r = "claude" \/ s[n].event # "_ping" THEN Append(k[n - 1], s[n])
                             ELSE k[n - 1]
    BY <1>1, <1>3, <1>4 DEF IsHeard
<1>9. ASSUME NEW n \in 1..N, n - 1 \in G PROVE n \in G
    <2>1. k[n - 1] = h[n - 1]
        BY <1>9
    <2> QED
        BY <1>4, <1>7, <1>8, <2>1
<1> HIDE DEF G
<1>10. \A n \in 0..N : n \in G
    BY <1>1, <1>6, <1>9, CountUp
<1> QED
    BY <1>10 DEF G, N, h, k, u

\* What is made of fewer frames is a prefix of what is made of more.
LEMMA HeardPrefix ==
    ASSUME NEW r, NEW s \in Seq(Events), NEW k \in 0..Len(s)
    PROVE  IsPrefix(HeardOf(r, s)[k], HeardOf(r, s)[Len(s)])
<1> DEFINE N == Len(s)
           h == HeardOf(r, s)
           From(w, u) == Len(w) <= Len(u) /\ \A i \in 1..Len(w) : u[i] = w[i]
           G == {n \in 0..N : n < k \/ From(h[k], h[n])}
<1>1. N \in Nat /\ IsHeard(h, r, s) /\ k \in 0..N
    BY HeardIs, LenProperties
<1>2. \A n \in 1..N : s[n] \in Events
    BY ElementOfSeq
<1> HIDE DEF h, N
<1>3. \A n \in 0..N : h[n] \in Seq(Events) /\ Len(h[n]) \in Nat
    <2>1. \A n \in 0..N : h[n] \in Seq(Events)
        BY <1>1 DEF IsHeard, N
    <2> QED
        BY <2>1, LenProperties
<1>4. From(h[k], h[k])
    BY <1>1, <1>3
<1>5. 0 \in G
    BY <1>1, <1>4
<1>6. ASSUME NEW n \in 1..N, n - 1 \in G PROVE n \in G
    <2>1. n \in 0..N /\ n - 1 \in 0..N
        BY <1>1
    <2>2. CASE n <= k
        BY <1>1, <1>4, <2>1, <2>2
    <2>3. CASE ~(n <= k)
        <3>1. ~(n - 1 < k)
            BY <1>1, <2>1, <2>3
        <3>2. From(h[k], h[n - 1])
            BY <1>6, <3>1
        <3>3. h[n] = h[n - 1] \/ h[n] = Append(h[n - 1], s[n])
            BY <1>1 DEF IsHeard, N
        <3>4. From(h[n - 1], h[n])
            <4>1. CASE h[n] = h[n - 1]
                BY <1>3, <2>1, <4>1
            <4>2. CASE h[n] = Append(h[n - 1], s[n])
                BY <1>2, <1>3, <2>1, <4>2, AppendProperties
            <4> QED
                BY <3>3, <4>1, <4>2
        <3>5. From(h[k], h[n])
            BY <1>1, <1>3, <2>1, <3>2, <3>4
        <3> QED
            BY <2>1, <3>5
    <2> QED
        BY <2>2, <2>3
<1> HIDE DEF G
<1>7. \A n \in 0..N : n \in G
    BY <1>1, <1>5, <1>6, CountUp
<1>8. From(h[k], h[N])
    BY <1>1, <1>7 DEF G
<1>9. IsPrefix(h[k], h[N])
    <2>1. h[k] \in Seq(Events) /\ h[N] \in Seq(Events) /\ Len(h[k]) \in Nat /\ Len(h[N]) \in Nat
        BY <1>1, <1>3
    <2> QED
        BY <1>8, <2>1 DEF IsPrefix
<1> QED
    BY <1>9 DEF h, N

(* Where the lines on the wire stand in what was sent: line l of frame j.     *)

IsPing(s, j) == s[j].event = "_ping"

Tall(s, j) == IF IsPing(s, j) THEN 2 ELSE 3

LineOf(s, j, l) ==
    IF IsPing(s, j)
    THEN IF l = 1 THEN Line("comment", "", 0) ELSE Line("blank", "", 0)
    ELSE IF l = 1 THEN Line("event", s[j].event, 0)
    ELSE IF l = 2 THEN Line("data", "", j) ELSE Line("blank", "", 0)

NextFrame(s, j, l) == IF l = Tall(s, j) THEN j + 1 ELSE j
NextLine(s, j, l) == IF l = Tall(s, j) THEN 1 ELSE l + 1

\* The line x is line l of frame j, or the half of it where the stream was cut.
Carries(x, s, j, l, half) ==
    \/ x = LineOf(s, j, l)
    \/ half /\ LineOf(s, j, l).kind # "blank" /\ x = Torn(LineOf(s, j, l))

Tracks(fr, ln, w, s, c) ==
    /\ fr \in [1..(Len(w) + 1) -> Nat] /\ ln \in [1..(Len(w) + 1) -> Nat]
    /\ \A i \in 1..Len(w) :
         /\ fr[i] \in 1..Len(s) /\ ln[i] \in 1..Tall(s, fr[i])
         /\ fr[i + 1] = NextFrame(s, fr[i], ln[i])
         /\ ln[i + 1] = NextLine(s, fr[i], ln[i])
         /\ Carries(w[i], s, fr[i], ln[i], c /\ i = Len(w))
    /\ ~c => fr[Len(w) + 1] = Len(s) + 1 /\ ln[Len(w) + 1] = 1

\* The lines w follow one another in s from line l of frame j on, to the end
\* unless the connection is cut.
Tracked(w, s, c, j, l) ==
    \E fr, ln : Tracks(fr, ln, w, s, c) /\ fr[1] = j /\ ln[1] = l

LEMMA TrackedStart == Tracked(<<>>, <<>>, FALSE, 1, 1)
<1> DEFINE f == [i \in 1..1 |-> 1]
<1>1. Len(<<>>) = 0
    OBVIOUS
<1>2. Tracks(f, f, <<>>, <<>>, FALSE) /\ f[1] = 1
    BY <1>1 DEF Tracks
<1> QED
    BY <1>2 DEF Tracked

LEMMA TrackedEmpty ==
    ASSUME NEW s, NEW j, NEW l, Tracked(<<>>, s, FALSE, j, l)
    PROVE  j = Len(s) + 1 /\ l = 1
BY DEF Tracked, Tracks

LEMMA TrackedRead ==
    ASSUME NEW V, NEW w \in Seq(V), w # <<>>, NEW s \in Seq(Events), NEW c \in BOOLEAN,
           NEW j, NEW l, Tracked(w, s, c, j, l)
    PROVE  /\ j \in 1..Len(s) /\ l \in 1..Tall(s, j)
           /\ Carries(Head(w), s, j, l, c /\ Tail(w) = <<>>)
           /\ Tracked(Tail(w), s, c, NextFrame(s, j, l), NextLine(s, j, l))
<1>1. PICK fr, ln : Tracks(fr, ln, w, s, c) /\ fr[1] = j /\ ln[1] = l
    BY DEF Tracked
<1> DEFINE n == Len(w)
           u == Tail(w)
           g == [i \in 1..(Len(u) + 1) |-> fr[i + 1]]
           m == [i \in 1..(Len(u) + 1) |-> ln[i + 1]]
<1>2. /\ n \in Nat \ {0} /\ u \in Seq(V) /\ Len(u) = n - 1 /\ Head(w) = w[1]
      /\ \A i \in 1..(n - 1) : u[i] = w[i + 1]
    BY LenProperties, EmptySeq, HeadTailProperties
<1>3. n = 1 <=> u = <<>>
    <2>1. u = <<>> => Len(u) = 0
        <3>1. Len(<<>>) = 0
            OBVIOUS
        <3> QED
            BY <3>1
    <2>2. u # <<>> => Len(u) \in Nat \ {0}
        BY <1>2, EmptySeq
    <2> QED
        BY <1>2, <2>1, <2>2
<1>4. /\ fr \in [1..(n + 1) -> Nat] /\ ln \in [1..(n + 1) -> Nat]
      /\ \A i \in 1..n :
           /\ fr[i] \in 1..Len(s) /\ ln[i] \in 1..Tall(s, fr[i])
           /\ fr[i + 1] = NextFrame(s, fr[i], ln[i])
           /\ ln[i + 1] = NextLine(s, fr[i], ln[i])
           /\ Carries(w[i], s, fr[i], ln[i], c /\ i = n)
      /\ ~c => fr[n + 1] = Len(s) + 1 /\ ln[n + 1] = 1
    BY <1>1 DEF Tracks
<1> HIDE DEF n, u
<1>5. 1 \in 1..n
    BY <1>2
<1>6. /\ j \in 1..Len(s) /\ l \in 1..Tall(s, j)
      /\ fr[2] = NextFrame(s, j, l) /\ ln[2] = NextLine(s, j, l)
      /\ Carries(w[1], s, j, l, c /\ 1 = n)
    <2>1. 1 + 1 = 2
        OBVIOUS
    <2> QED
        BY <1>1, <1>4, <1>5, <2>1
<1>7. Carries(Head(w), s, j, l, c /\ u = <<>>)
    BY <1>2, <1>3, <1>6 DEF Carries
<1>8. Tracks(g, m, u, s, c)
    <2>0. Len(u) + 1 = n /\ \A i \in 1..n : i + 1 \in 1..(n + 1)
        BY <1>2
    <2>1. g \in [1..(Len(u) + 1) -> Nat] /\ m \in [1..(Len(u) + 1) -> Nat]
        BY <1>4, <2>0
    <2>2. ASSUME NEW i \in 1..Len(u)
          PROVE  /\ g[i] \in 1..Len(s) /\ m[i] \in 1..Tall(s, g[i])
                 /\ g[i + 1] = NextFrame(s, g[i], m[i])
                 /\ m[i + 1] = NextLine(s, g[i], m[i])
                 /\ Carries(u[i], s, g[i], m[i], c /\ i = Len(u))
        <3>1. /\ i \in 1..(n - 1) /\ i + 1 \in 1..n /\ i \in 1..n /\ (i + 1 = n <=> i = Len(u))
            BY <1>2
        <3>2. g[i] = fr[i + 1] /\ m[i] = ln[i + 1] /\ u[i] = w[i + 1]
            BY <1>2, <2>0, <3>1
        <3>3. g[i + 1] = fr[(i + 1) + 1] /\ m[i + 1] = ln[(i + 1) + 1]
            BY <2>0, <3>1
        <3>4. /\ fr[i + 1] \in 1..Len(s) /\ ln[i + 1] \in 1..Tall(s, fr[i + 1])
              /\ fr[(i + 1) + 1] = NextFrame(s, fr[i + 1], ln[i + 1])
              /\ ln[(i + 1) + 1] = NextLine(s, fr[i + 1], ln[i + 1])
              /\ Carries(w[i + 1], s, fr[i + 1], ln[i + 1], c /\ i + 1 = n)
            BY <1>4, <3>1
        <3> HIDE DEF g, m
        <3> QED
            BY <3>1, <3>2, <3>3, <3>4 DEF Carries
    <2>3. ~c => g[Len(u) + 1] = Len(s) + 1 /\ m[Len(u) + 1] = 1
        BY <1>2, <1>4, <2>0
    <2> HIDE DEF g, m
    <2> QED
        BY <2>1, <2>2, <2>3 DEF Tracks
<1>9. g[1] = fr[2] /\ m[1] = ln[2]
    BY <1>2
<1>10. Tracked(u, s, c, NextFrame(s, j, l), NextLine(s, j, l))
    <2> HIDE DEF g, m
    <2> QED
        BY <1>6, <1>8, <1>9 DEF Tracked
<1> QED
    BY <1>6, <1>7, <1>10 DEF u

\* A frame that is sent follows what is on the wire already.
LEMMA TrackedSend ==
    ASSUME NEW V, NEW w \in Seq(V), NEW s \in Seq(Events), NEW e \in Events,
           NEW f \in Seq(V), Len(f) = Tall(Append(s, e), Len(s) + 1),
           \A i \in 1..Len(f) : f[i] = LineOf(Append(s, e), Len(s) + 1, i),
           NEW j, NEW l, Tracked(w, s, FALSE, j, l)
    PROVE  Tracked(w \o f, Append(s, e), FALSE, j, l)
<1>1. PICK fr, ln : Tracks(fr, ln, w, s, FALSE) /\ fr[1] = j /\ ln[1] = l
    BY DEF Tracked
<1> DEFINE n == Len(w)
           k == Len(f)
           N == Len(s)
           s2 == Append(s, e)
           w2 == w \o f
           g == [i \in 1..(n + k + 1) |-> IF i <= n THEN fr[i]
                                          ELSE IF i <= n + k THEN N + 1 ELSE N + 2]
           m == [i \in 1..(n + k + 1) |-> IF i <= n THEN ln[i]
                                          ELSE IF i <= n + k THEN i - n ELSE 1]
<1>2. n \in Nat /\ N \in Nat /\ k \in {2, 3} /\ k = Tall(s2, N + 1)
    BY LenProperties DEF Tall
<1>3. /\ w2 \in Seq(V) /\ Joined(w2, w, f)
    BY Concatenated
<1>4. Len(s2) = N + 1 /\ \A i \in 1..N : s2[i] = s[i]
    BY AppendProperties
<1>5. \A i \in 1..k : f[i] = LineOf(s2, N + 1, i)
    OBVIOUS
<1> HIDE DEF s2, w2
<1>6. /\ fr \in [1..(n + 1) -> Nat] /\ ln \in [1..(n + 1) -> Nat]
      /\ \A i \in 1..n :
           /\ fr[i] \in 1..N /\ ln[i] \in 1..Tall(s, fr[i])
           /\ fr[i + 1] = NextFrame(s, fr[i], ln[i])
           /\ ln[i + 1] = NextLine(s, fr[i], ln[i])
           /\ Carries(w[i], s, fr[i], ln[i], FALSE)
      /\ fr[n + 1] = N + 1 /\ ln[n + 1] = 1
    BY <1>1 DEF Tracks, Carries
<1>7. Len(w2) = n + k /\ (\A i \in 1..n : w2[i] = w[i]) /\ (\A i \in 1..k : w2[n + i] = f[i])
    BY <1>3 DEF Joined
<1> HIDE DEF n, k, N
<1>8. g \in [1..(Len(w2) + 1) -> Nat] /\ m \in [1..(Len(w2) + 1) -> Nat]
    <2>1. ASSUME NEW i \in 1..(n + k + 1) PROVE g[i] \in Nat /\ m[i] \in Nat
        <3>1. CASE i <= n
            <4>1. i \in 1..(n + 1)
                BY <1>2, <3>1
            <4> QED
                BY <1>6, <3>1, <4>1
        <3>2. CASE ~(i <= n)
            BY <1>2, <3>2
        <3> QED
            BY <3>1, <3>2
    <2> QED
        BY <1>7, <2>1
<1>9. ASSUME NEW i \in 1..Len(w2)
      PROVE  /\ g[i] \in 1..Len(s2) /\ m[i] \in 1..Tall(s2, g[i])
             /\ g[i + 1] = NextFrame(s2, g[i], m[i])
             /\ m[i + 1] = NextLine(s2, g[i], m[i])
             /\ Carries(w2[i], s2, g[i], m[i], FALSE)
    <2>1. i \in 1..(n + k + 1) /\ i + 1 \in 1..(n + k + 1) /\ i <= n + k
        BY <1>2, <1>7
    <2>2. CASE i <= n
        <3>1. i \in 1..n
            BY <2>1, <2>2
        <3>2. g[i] = fr[i] /\ m[i] = ln[i]
            BY <2>1, <2>2
        <3>3. g[i + 1] = fr[i + 1] /\ m[i + 1] = ln[i + 1]
            <4>1. CASE i = n
                <5>1. ~(i + 1 <= n) /\ i + 1 <= n + k /\ (i + 1) - n = 1
                    BY <1>2, <4>1
                <5> QED
                    BY <1>6, <2>1, <4>1, <5>1
            <4>2. CASE i # n
                <5>1. i + 1 <= n
                    BY <1>2, <3>1, <4>2
                <5> QED
                    BY <2>1, <5>1
            <4> QED
                BY <4>1, <4>2
        <3>4. s2[fr[i]] = s[fr[i]] /\ fr[i] \in 1..Len(s2)
            <4>1. fr[i] \in 1..N
                BY <1>6, <3>1
            <4>2. \A q \in 1..N : q \in 1..(N + 1)
                BY <1>2
            <4> QED
                BY <1>4, <4>1, <4>2
        <3>5. /\ Tall(s2, fr[i]) = Tall(s, fr[i])
              /\ \A x : Carries(x, s, fr[i], ln[i], FALSE) => Carries(x, s2, fr[i], ln[i], FALSE)
            BY <3>4 DEF Tall, IsPing, Carries, LineOf
        <3>6. /\ NextFrame(s2, fr[i], ln[i]) = NextFrame(s, fr[i], ln[i])
              /\ NextLine(s2, fr[i], ln[i]) = NextLine(s, fr[i], ln[i])
            BY <3>5 DEF NextFrame, NextLine
        <3> HIDE DEF g, m
        <3> QED
            BY <1>6, <1>7, <3>1, <3>2, <3>3, <3>4, <3>5, <3>6
    <2>3. CASE ~(i <= n)
        <3>1. i - n \in 1..k /\ n + (i - n) = i
            BY <1>2, <2>1, <2>3
        <3>2. g[i] = N + 1 /\ m[i] = i - n
            BY <2>1, <2>3
        <3>3. g[i + 1] = NextFrame(s2, N + 1, i - n) /\ m[i + 1] = NextLine(s2, N + 1, i - n)
            <4>1. CASE i = n + k
                <5>1. i - n = k /\ ~(i + 1 <= n) /\ ~(i + 1 <= n + k)
                    BY <1>2, <4>1
                <5> QED
                    BY <1>2, <2>1, <5>1 DEF NextFrame, NextLine
            <4>2. CASE i # n + k
                <5>1. i - n # k /\ ~(i + 1 <= n) /\ i + 1 <= n + k /\ (i + 1) - n = (i - n) + 1
                    BY <1>2, <2>1, <2>3, <4>2
                <5> QED
                    BY <1>2, <2>1, <5>1 DEF NextFrame, NextLine
            <4> QED
                BY <4>1, <4>2
        <3>4. Carries(w2[i], s2, N + 1, i - n, FALSE)
            BY <1>5, <1>7, <3>1 DEF Carries
        <3>5. N + 1 \in 1..Len(s2)
            BY <1>2, <1>4
        <3> HIDE DEF g, m
        <3> QED
            BY <1>2, <3>1, <3>2, <3>3, <3>4, <3>5
    <2> QED
        BY <2>2, <2>3
<1>10. g[Len(w2) + 1] = Len(s2) + 1 /\ m[Len(w2) + 1] = 1
    BY <1>2, <1>4, <1>7
<1>11. Tracks(g, m, w2, s2, FALSE)
    <2> HIDE DEF g, m
    <2> QED
        BY <1>8, <1>9, <1>10 DEF Tracks, Carries
<1>12. g[1] = fr[1] /\ m[1] = ln[1]
    <2>1. 1 \in 1..(n + k + 1) /\ 1 <= n + k
        BY <1>2
    <2>2. CASE n = 0
        BY <1>2, <1>6, <2>1, <2>2
    <2>3. CASE n # 0
        BY <1>2, <2>1, <2>3
    <2> QED
        BY <2>2, <2>3
<1>13. Tracked(w2, s2, FALSE, j, l)
    <2> HIDE DEF g, m
    <2> QED
        BY <1>1, <1>11, <1>12 DEF Tracked
<1> QED
    BY <1>13 DEF w2, s2

\* What is left of the wire when the connection is cut, the last line in half.
LEMMA TrackedCut ==
    ASSUME NEW V, NEW w \in Seq(V), NEW s \in Seq(Events), NEW u \in Seq(V),
           Len(u) <= Len(w),
           \A i \in 1..Len(u) : \/ u[i] = w[i]
                                \/ i = Len(u) /\ w[i].kind # "blank" /\ u[i] = Torn(w[i]),
           NEW j, NEW l, Tracked(w, s, FALSE, j, l)
    PROVE  Tracked(u, s, TRUE, j, l)
<1>1. PICK fr, ln : Tracks(fr, ln, w, s, FALSE) /\ fr[1] = j /\ ln[1] = l
    BY DEF Tracked
<1> DEFINE n == Len(w)
           k == Len(u)
           g == [i \in 1..(k + 1) |-> fr[i]]
           m == [i \in 1..(k + 1) |-> ln[i]]
<1>2. n \in Nat /\ k \in Nat /\ k <= n
    BY LenProperties
<1>3. /\ fr \in [1..(n + 1) -> Nat] /\ ln \in [1..(n + 1) -> Nat]
      /\ \A i \in 1..n :
           /\ fr[i] \in 1..Len(s) /\ ln[i] \in 1..Tall(s, fr[i])
           /\ fr[i + 1] = NextFrame(s, fr[i], ln[i])
           /\ ln[i + 1] = NextLine(s, fr[i], ln[i])
           /\ w[i] = LineOf(s, fr[i], ln[i])
    BY <1>1 DEF Tracks, Carries
<1>4. \A i \in 1..k : \/ u[i] = w[i]
                      \/ i = k /\ w[i].kind # "blank" /\ u[i] = Torn(w[i])
    OBVIOUS
<1> HIDE DEF n, k
<1>5. /\ \A i \in 1..(k + 1) : i \in 1..(n + 1)
      /\ \A i \in 1..k : i \in 1..n /\ i \in 1..(k + 1) /\ i + 1 \in 1..(k + 1)
      /\ 1 \in 1..(k + 1)
    BY <1>2
<1>6. g \in [1..(k + 1) -> Nat] /\ m \in [1..(k + 1) -> Nat]
    BY <1>3, <1>5
<1>7. ASSUME NEW i \in 1..k
      PROVE  /\ g[i] \in 1..Len(s) /\ m[i] \in 1..Tall(s, g[i])
             /\ g[i + 1] = NextFrame(s, g[i], m[i])
             /\ m[i + 1] = NextLine(s, g[i], m[i])
             /\ Carries(u[i], s, g[i], m[i], TRUE /\ i = k)
    <2>1. g[i] = fr[i] /\ m[i] = ln[i] /\ g[i + 1] = fr[i + 1] /\ m[i + 1] = ln[i + 1]
        BY <1>5
    <2>2. Carries(u[i], s, fr[i], ln[i], TRUE /\ i = k)
        BY <1>3, <1>4, <1>5 DEF Carries
    <2> HIDE DEF g, m
    <2> QED
        BY <1>3, <1>5, <2>1, <2>2
<1>8. Tracks(g, m, u, s, TRUE) /\ g[1] = j /\ m[1] = l
    <2>1. g[1] = j /\ m[1] = l
        BY <1>1, <1>5
    <2> HIDE DEF g, m
    <2> QED
        BY <1>6, <1>7, <2>1 DEF Tracks, k
<1> QED
    <2> HIDE DEF g, m
    <2> QED
        BY <1>8 DEF Tracked

-----------------------------------------------------------------------------
(* The invariant.                                                             *)

Lines == [kind : {"event", "data", "blank", "comment"},
          name : {"", "torn", "deliver", "_ping", "error"}, number : Nat]

WireTypes ==
    /\ runtime \in {"claude", "opencode"}
    /\ pc \in {"connecting", "streaming", "waiting"}
    /\ serving \in BOOLEAN /\ cut \in BOOLEAN
    /\ serving => pc = "streaming" /\ ~cut
    /\ wire \in Seq(Lines) /\ Len(wire) <= 3 * Len(sent)
    /\ sent \in Seq(Events) /\ Len(sent) <= MaxFrames

Counters ==
    /\ backoff \in 1..Cap
    /\ barren \in 0..MaxSleeps
    /\ idle \in barren..MaxSleeps

\* A frame carries its own number, and an error is the last.
SentFits ==
    \A j \in 1..Len(sent) :
        /\ sent[j].payload = IF IsPing(sent, j) THEN 0 ELSE j
        /\ sent[j].event = "error" => j = Len(sent) /\ ~serving

Heard == HeardOf(runtime, sent)

\* What the reader holds and has passed on when line l of frame j comes next.
Reader(j, l) ==
    /\ l = 1 => /\ j \in 1..(Len(sent) + 1)
                /\ parser = Fresh
                /\ got = Heard[j - 1]
    /\ l # 1 => j \in 1..Len(sent) /\ l \in 2..Tall(sent, j)
    /\ l = 2 /\ IsPing(sent, j) => /\ parser = Fresh
                                   /\ got = Heard[j]
                                   /\ runtime = "claude" => backoff = 1
    /\ l = 2 /\ ~IsPing(sent, j) => /\ parser = [event |-> sent[j].event, data |-> <<>>]
                                    /\ got = Heard[j - 1]
    /\ l = 3 => /\ parser = [event |-> sent[j].event, data |-> <<j>>]
                /\ got = Heard[j - 1]

Framed ==
    pc = "streaming" /\ (wire # <<>> \/ ~cut) =>
        \E j, l : Tracked(wire, sent, cut, j, l) /\ Reader(j, l)

PassedOn == \E k \in 0..Len(sent) : got = Heard[k]

Settled == pc # "streaming" /\ ~cut => got = Heard[Len(sent)]

IInv == WireTypes /\ Counters /\ SentFits /\ Framed /\ PassedOn /\ Settled /\ BackoffFits

LEMMA HeardFacts ==
    ASSUME WireTypes
    PROVE  IsHeard(Heard, runtime, sent) /\ Len(sent) \in Nat
BY HeardIs, LenProperties DEF WireTypes, Heard

LEMMA InitEstablishes == Init => IInv
<1> SUFFICES ASSUME Init PROVE IInv
    OBVIOUS
<1>1. Len(<<>>) = 0 /\ <<>> \in Seq(Events) /\ <<>> \in Seq(Lines)
    OBVIOUS
<1>2. WireTypes
    <2>1. 0 <= MaxFrames /\ 0 <= 3 * 0
        BY WireAssumption DEF WireAssumption
    <2>2. /\ wire \in Seq(Lines) /\ Len(wire) <= 3 * Len(sent)
          /\ sent \in Seq(Events) /\ Len(sent) <= MaxFrames
        BY <1>1, <2>1 DEF Init
    <2>3. /\ runtime \in {"claude", "opencode"}
          /\ pc \in {"connecting", "streaming", "waiting"}
          /\ serving \in BOOLEAN /\ cut \in BOOLEAN
          /\ serving => pc = "streaming" /\ ~cut
        BY DEF Init
    <2> QED
        BY <2>2, <2>3 DEF WireTypes
<1>3. Counters
    BY WireAssumption DEF WireAssumption, Init, Counters
<1>4. SentFits
    BY <1>1 DEF SentFits, Init
<1>5. Heard[0] = <<>>
    BY <1>2, HeardFacts DEF IsHeard
<1>6. Framed /\ PassedOn /\ Settled
    BY <1>1, <1>5 DEF Init, Framed, PassedOn, Settled
<1>7. BackoffFits
    BY DoubledGrows, WireAssumption DEF WireAssumption, Init, BackoffFits, Least
<1> QED
    BY <1>2, <1>3, <1>4, <1>6, <1>7 DEF IInv

LEMMA ConnectKeeps == IInv /\ Connect => IInv'
<1> SUFFICES ASSUME IInv, Connect PROVE IInv'
    OBVIOUS
<1>1. Len(<<>>) = 0 /\ <<>> \in Seq(Events) /\ <<>> \in Seq(Lines)
    OBVIOUS
<1>2. WireTypes'
    <2>1. 0 <= MaxFrames /\ 0 <= 3 * 0
        BY WireAssumption DEF WireAssumption
    <2>2. /\ wire' \in Seq(Lines) /\ Len(wire') <= 3 * Len(sent')
          /\ sent' \in Seq(Events) /\ Len(sent') <= MaxFrames
        BY <1>1, <2>1 DEF Connect
    <2>3. /\ runtime' \in {"claude", "opencode"}
          /\ pc' \in {"connecting", "streaming", "waiting"}
          /\ serving' \in BOOLEAN /\ cut' \in BOOLEAN
          /\ serving' => pc' = "streaming" /\ ~cut'
        BY DEF Connect, IInv, WireTypes
    <2> QED
        BY <2>2, <2>3 DEF WireTypes
<1>3. Counters' /\ BackoffFits'
    BY DEF IInv, Counters, BackoffFits, Connect, history
<1>4. SentFits'
    BY <1>1 DEF SentFits, Connect
<1>5. (WireTypes => IsHeard(Heard, runtime, sent))'
    BY HeardFacts, PTL
<1>6. Heard'[0] = <<>>
    BY <1>2, <1>5 DEF IsHeard
<1>7. Reader(1, 1)'
    BY <1>1, <1>6 DEF Reader, Connect
<1>8. Framed'
    BY <1>7, TrackedStart DEF Framed, Connect
<1>9. PassedOn' /\ Settled'
    BY <1>1, <1>6 DEF Connect, PassedOn, Settled
<1> QED
    BY <1>2, <1>3, <1>4, <1>8, <1>9 DEF IInv

LEMMA ConnectFailsKeeps == IInv /\ ConnectFails => IInv'
<1> SUFFICES ASSUME IInv, ConnectFails PROVE IInv'
    OBVIOUS
<1>1. WireTypes' /\ Counters' /\ BackoffFits'
    BY DEF IInv, WireTypes, Counters, BackoffFits, ConnectFails, connection, history
<1>2. SentFits' /\ Framed' /\ PassedOn' /\ Settled'
    BY DEF IInv, ConnectFails, connection, SentFits, Framed, PassedOn, Settled, Heard
<1> QED
    BY <1>1, <1>2 DEF IInv

\* Doubling the wait keeps it between the two histories of doublings.
LEMMA RetryKeeps == IInv /\ Retry => IInv'
<1> SUFFICES ASSUME IInv, Retry PROVE IInv'
    OBVIOUS
<1>1. WireTypes'
    BY DEF IInv, WireTypes, Retry, connection
<1>2. SentFits' /\ Framed' /\ PassedOn' /\ Settled'
    BY DEF IInv, Retry, connection, SentFits, Framed, PassedOn, Settled, Heard
<1>3. Counters'
    BY WireAssumption DEF WireAssumption, IInv, Counters, Retry, Least
<1>4. BackoffFits'
    <2> DEFINE d(n) == Doubled[n]
    <2>1. Cap \in Nat \ {0} /\ MaxSleeps \in Nat /\ d(MaxSleeps) >= Cap
        BY WireAssumption DEF WireAssumption
    <2>2. /\ backoff \in 1..Cap /\ barren \in 0..MaxSleeps /\ idle \in 0..MaxSleeps
        BY <2>1 DEF IInv, Counters
    <2>3. ASSUME NEW n \in 0..MaxSleeps
          PROVE  /\ d(n) \in Nat \ {0} /\ Least(n + 1, MaxSleeps) \in 0..MaxSleeps
                 /\ d(Least(n + 1, MaxSleeps)) \in Nat \ {0}
                 /\ \/ d(Least(n + 1, MaxSleeps)) = 2 * d(n)
                    \/ d(n) >= Cap /\ d(Least(n + 1, MaxSleeps)) >= Cap
        <3>1. CASE n = MaxSleeps
            <4>1. Least(n + 1, MaxSleeps) = n
                BY <2>1, <3>1 DEF Least
            <4> QED
                BY <2>1, <3>1, <4>1, DoubledGrows
        <3>2. CASE n # MaxSleeps
            <4>1. Least(n + 1, MaxSleeps) = n + 1 /\ n + 1 \in 1..MaxSleeps /\ (n + 1) - 1 = n
                  /\ n + 1 \in 0..MaxSleeps
                BY <2>1, <3>2 DEF Least
            <4>2. d(n + 1) = 2 * d(n)
                BY <4>1, DoubledGrows
            <4> QED
                BY <4>1, <4>2, DoubledGrows
        <3> QED
            BY <3>1, <3>2
    <2>4. Least(d(barren), Cap) <= backoff /\ backoff <= Least(d(idle), Cap)
        BY DEF IInv, BackoffFits
    <2>5. backoff' = Least(2 * backoff, Cap) /\ barren' = Least(barren + 1, MaxSleeps)
          /\ idle' = Least(idle + 1, MaxSleeps)
        BY DEF Retry
    <2> HIDE DEF d
    <2>6. Least(d(barren'), Cap) <= backoff'
        <3> DEFINE x == d(barren)
                   y == d(Least(barren + 1, MaxSleeps))
        <3>1. x \in Nat /\ y \in Nat /\ (y = 2 * x \/ (x >= Cap /\ y >= Cap))
            BY <2>2, <2>3
        <3> HIDE DEF x, y
        <3>2. Least(y, Cap) <= Least(2 * backoff, Cap)
            BY <2>1, <2>2, <2>4, <3>1 DEF Least, x
        <3> QED
            BY <2>5, <3>2 DEF y
    <2>7. backoff' <= Least(d(idle'), Cap)
        <3> DEFINE x == d(idle)
                   y == d(Least(idle + 1, MaxSleeps))
        <3>1. x \in Nat /\ y \in Nat /\ (y = 2 * x \/ (x >= Cap /\ y >= Cap))
            BY <2>2, <2>3
        <3> HIDE DEF x, y
        <3>2. Least(2 * backoff, Cap) <= Least(y, Cap)
            BY <2>1, <2>2, <2>4, <3>1 DEF Least, x
        <3> QED
            BY <2>5, <3>2 DEF y
    <2> QED
        BY <2>6, <2>7 DEF BackoffFits, d
<1> QED
    BY <1>1, <1>2, <1>3, <1>4 DEF IInv

LEMMA EndsKeeps == IInv /\ Ends => IInv'
<1> SUFFICES ASSUME IInv, Ends PROVE IInv'
    OBVIOUS
<1>1. WireTypes' /\ Counters' /\ BackoffFits'
    BY DEF IInv, WireTypes, Counters, BackoffFits, Ends, connection, history
<1>2. SentFits' /\ Framed' /\ PassedOn'
    BY DEF IInv, Ends, connection, SentFits, Framed, PassedOn, Heard
<1>3. ASSUME ~cut PROVE got = Heard[Len(sent)]
    <2>1. PICK j, l : Tracked(<<>>, sent, FALSE, j, l) /\ Reader(j, l)
        BY <1>3 DEF IInv, Ends, Framed, WireTypes
    <2>2. j = Len(sent) + 1 /\ l = 1
        BY <2>1, TrackedEmpty
    <2>3. Len(sent) \in Nat
        BY HeardFacts DEF IInv
    <2> QED
        BY <2>1, <2>2, <2>3 DEF Reader
<1>4. Settled'
    BY <1>3 DEF Ends, connection, Settled, Heard
<1> QED
    BY <1>1, <1>2, <1>4 DEF IInv

LEMMA TimesOutKeeps == IInv /\ TimesOut => IInv'
<1> SUFFICES ASSUME IInv, TimesOut PROVE IInv'
    OBVIOUS
<1>1. WireTypes' /\ Counters' /\ BackoffFits'
    BY DEF IInv, WireTypes, Counters, BackoffFits, TimesOut, history
<1>2. SentFits'
    BY DEF IInv, TimesOut, SentFits
<1>3. Framed' /\ PassedOn' /\ Settled'
    BY DEF IInv, TimesOut, Framed, PassedOn, Settled, Heard
<1> QED
    BY <1>1, <1>2, <1>3 DEF IInv

IsTwo(f, a, b) == Len(f) = 2 /\ f[1] = a /\ f[2] = b

IsThree(f, a, b, c) == Len(f) = 3 /\ f[1] = a /\ f[2] = b /\ f[3] = c

LEMMA TwoLines ==
    ASSUME NEW V, NEW a \in V, NEW b \in V
    PROVE  <<a, b>> \in Seq(V) /\ IsTwo(<<a, b>>, a, b)
BY DEF IsTwo

LEMMA ThreeLines ==
    ASSUME NEW V, NEW a \in V, NEW b \in V, NEW c \in V
    PROVE  <<a, b, c>> \in Seq(V) /\ IsThree(<<a, b, c>>, a, b, c)
BY DEF IsThree

\* The frame that Send puts on the wire, line by line.
LEMMA FrameLines ==
    ASSUME NEW s \in Seq(Events), NEW name \in {"deliver", "_ping", "error"},
           NEW n, n = Len(s) + 1, NEW e, NEW f,
           e = IF name = "_ping" THEN Event("_ping", 0) ELSE Event(name, n),
           f = IF name = "_ping" THEN Ping ELSE _sse(name, n)
    PROVE  /\ e \in Events /\ f \in Seq(Lines)
           /\ Len(f) = Tall(Append(s, e), n)
           /\ \A i \in 1..Len(f) : f[i] = LineOf(Append(s, e), n, i)
<1>1. n \in Nat
    BY LenProperties
<1>2. e \in Events /\ (e.event = "_ping" <=> name = "_ping")
    BY <1>1 DEF Events, Event
<1>3. Append(s, e)[n] = e
    BY <1>2, AppendProperties
<1> DEFINE s2 == Append(s, e)
           Fits(w) == /\ w \in Seq(Lines) /\ Len(w) = Tall(s2, n)
                      /\ \A i \in 1..Len(w) : w[i] = LineOf(s2, n, i)
<1>4. CASE name = "_ping"
    <2> DEFINE a == Line("comment", "", 0)
               b == Line("blank", "", 0)
    <2>1. a \in Lines /\ b \in Lines
        BY DEF Line, Lines
    <2>2. IsPing(s2, n)
        BY <1>2, <1>3, <1>4 DEF IsPing
    <2>3. LineOf(s2, n, 1) = a /\ LineOf(s2, n, 2) = b /\ Tall(s2, n) = 2
        BY <2>2 DEF LineOf, Tall
    <2>4. f = <<a, b>>
        BY <1>4 DEF Ping
    <2> HIDE DEF a, b, s2
    <2>5. f \in Seq(Lines) /\ IsTwo(f, a, b)
        BY <2>1, <2>4, TwoLines
    <2>6. \A i \in 1..2 : i = 1 \/ i = 2
        OBVIOUS
    <2>7. Fits(f)
        BY <2>3, <2>5, <2>6 DEF IsTwo
    <2> QED
        BY <1>2, <2>7 DEF s2
<1>5. CASE name # "_ping"
    <2> DEFINE a == Line("event", name, 0)
               b == Line("data", "", n)
               c == Line("blank", "", 0)
    <2>1. a \in Lines /\ b \in Lines /\ c \in Lines
        BY <1>1 DEF Line, Lines
    <2>2. ~IsPing(s2, n) /\ s2[n].event = name
        BY <1>2, <1>3, <1>5 DEF IsPing, Event
    <2>3. /\ LineOf(s2, n, 1) = a /\ LineOf(s2, n, 2) = b /\ LineOf(s2, n, 3) = c
          /\ Tall(s2, n) = 3
        BY <2>2 DEF LineOf, Tall
    <2>4. f = <<a, b, c>>
        BY <1>5 DEF _sse
    <2> HIDE DEF a, b, c, s2
    <2>5. f \in Seq(Lines) /\ IsThree(f, a, b, c)
        BY <2>1, <2>4, ThreeLines
    <2>6. \A i \in 1..3 : i = 1 \/ i = 2 \/ i = 3
        OBVIOUS
    <2>7. Fits(f)
        BY <2>3, <2>5, <2>6 DEF IsThree
    <2> QED
        BY <1>2, <2>7 DEF s2
<1> QED
    BY <1>2, <1>4, <1>5

LEMMA SendKeeps ==
    ASSUME IInv, NEW name \in {"deliver", "_ping", "error"}, Send(name)
    PROVE  IInv'
<1> DEFINE n0 == Len(sent) + 1
           e0 == IF name = "_ping" THEN Event("_ping", 0) ELSE Event(name, n0)
           f0 == IF name = "_ping" THEN Ping ELSE _sse(name, n0)
<1>1. PICK n, e, f : n = n0 /\ e = e0 /\ f = f0
    OBVIOUS
<1>2. sent' = Append(sent, e) /\ wire' = wire \o f
    BY <1>1 DEF Send
<1>3. /\ sent \in Seq(Events) /\ wire \in Seq(Lines) /\ Len(sent) \in Nat /\ Len(wire) \in Nat
      /\ Len(wire) <= 3 * Len(sent) /\ Len(sent) < MaxFrames
      /\ serving /\ pc = "streaming" /\ ~cut /\ pc' = pc /\ cut' = cut
    BY LenProperties DEF IInv, WireTypes, Send
<1>4. /\ e \in Events /\ f \in Seq(Lines)
      /\ Len(f) = Tall(Append(sent, e), n)
      /\ \A i \in 1..Len(f) : f[i] = LineOf(Append(sent, e), n, i)
    BY <1>1, <1>3, FrameLines
<1>5. /\ e.payload = (IF e.event = "_ping" THEN 0 ELSE n)
      /\ e.event = "error" => ~serving'
    BY <1>1 DEF Event, Send
<1>6. /\ sent' \in Seq(Events) /\ Len(sent') = n /\ n \in Nat /\ n = Len(sent) + 1
      /\ sent'[n] = e /\ \A j \in 1..Len(sent) : sent'[j] = sent[j]
    BY <1>1, <1>2, <1>3, <1>4, AppendProperties
<1>7. wire' \in Seq(Lines) /\ Len(wire') <= 3 * Len(sent')
    <2>1. Len(f) <= 3
        BY <1>4 DEF Tall
    <2>2. wire' \in Seq(Lines) /\ Len(wire') = Len(wire) + Len(f)
        BY <1>2, <1>3, <1>4, ConcatProperties
    <2>3. Len(f) \in Nat
        BY <1>4, LenProperties
    <2> QED
        BY <1>3, <1>6, <2>1, <2>2, <2>3
<1>8. WireTypes'
    BY <1>3, <1>6, <1>7, WireAssumption DEF WireAssumption, IInv, WireTypes, Send
<1>9. Counters' /\ BackoffFits'
    BY DEF IInv, Counters, BackoffFits, Send, history
<1>10. SentFits'
    <2> SUFFICES ASSUME NEW j \in 1..Len(sent')
                 PROVE  /\ sent'[j].payload = IF IsPing(sent', j) THEN 0 ELSE j
                        /\ sent'[j].event = "error" => j = Len(sent') /\ ~serving'
        BY DEF SentFits
    <2>1. CASE j = n
        BY <1>5, <1>6, <2>1 DEF IsPing
    <2>2. CASE j # n
        <3>1. j \in 1..Len(sent)
            BY <1>6, <2>2
        <3> QED
            BY <1>3, <1>6, <3>1 DEF IInv, SentFits, IsPing
    <2> QED
        BY <2>1, <2>2
<1>11. \A k \in 0..Len(sent) : Heard'[k] = Heard[k]
    <2>1. Heard' = HeardOf(runtime, Append(sent, e))
        BY <1>2 DEF Heard, Send
    <2> QED
        BY <1>3, <1>4, <2>1, HeardGrows DEF Heard
<1>12. PassedOn'
    <2>1. PICK k \in 0..Len(sent) : got = Heard[k]
        BY DEF IInv, PassedOn
    <2>2. k \in 0..Len(sent') /\ got' = got
        BY <1>6 DEF Send
    <2> QED
        BY <1>11, <2>1, <2>2 DEF PassedOn
<1>13. Settled'
    BY <1>3 DEF Settled
<1>14. Framed'
    <2>1. PICK j, l : Tracked(wire, sent, FALSE, j, l) /\ Reader(j, l)
        BY <1>3 DEF IInv, Framed, WireTypes
    <2>2. Tracked(wire', sent', FALSE, j, l)
        BY <1>1, <1>2, <1>3, <1>4, <2>1, TrackedSend
    <2>3. parser' = parser /\ got' = got /\ backoff' = backoff /\ runtime' = runtime
        BY DEF Send, history
    <2>4. (Reader(j, l))'
        <3>1. CASE l = 1
            <4>1. j \in 1..(Len(sent) + 1) /\ parser = Fresh /\ got = Heard[j - 1]
                BY <2>1, <3>1 DEF Reader
            <4>2. j - 1 \in 0..Len(sent) /\ j \in 1..(Len(sent') + 1)
                BY <1>3, <1>6, <4>1
            <4> QED
                BY <1>11, <2>3, <3>1, <4>1, <4>2 DEF Reader
        <3>2. CASE l # 1
            <4>1. j \in 1..Len(sent) /\ l \in 2..Tall(sent, j)
                BY <2>1, <3>2 DEF Reader
            <4>2. /\ sent'[j] = sent[j] /\ j \in 1..Len(sent')
                  /\ j \in 0..Len(sent) /\ j - 1 \in 0..Len(sent)
                BY <1>3, <1>6, <4>1
            <4>3. Tall(sent', j) = Tall(sent, j) /\ IsPing(sent', j) = IsPing(sent, j)
                BY <4>2 DEF Tall, IsPing
            <4>4. Heard'[j] = Heard[j] /\ Heard'[j - 1] = Heard[j - 1]
                BY <1>11, <4>2
            <4> QED
                BY <2>1, <2>3, <3>2, <4>1, <4>2, <4>3, <4>4 DEF Reader
        <3> QED
            BY <3>1, <3>2
    <2> QED
        BY <1>3, <1>8, <2>2, <2>4 DEF Framed, WireTypes
<1> QED
    BY <1>8, <1>9, <1>10, <1>12, <1>13, <1>14 DEF IInv

LEMMA BreaksKeeps == IInv /\ Breaks => IInv'
<1> SUFFICES ASSUME IInv, Breaks PROVE IInv'
    OBVIOUS
<1>1. /\ pc = "streaming" /\ ~cut /\ pc' = pc /\ cut' = TRUE /\ serving' = FALSE
      /\ runtime' = runtime /\ sent' = sent /\ got' = got /\ parser' = parser
      /\ backoff' = backoff
    BY DEF Breaks, history
<1>2. wire \in Seq(Lines) /\ sent \in Seq(Events) /\ Len(wire) <= 3 * Len(sent)
      /\ Len(wire) \in Nat /\ Len(sent) \in Nat
    BY LenProperties DEF IInv, WireTypes
<1>3. \A i \in 1..Len(wire) : wire[i] \in Lines
    BY <1>2, ElementOfSeq
<1>4. PICK n \in 0..Len(wire) :
         \/ wire' = SubSeq(wire, 1, n)
         \/ /\ n < Len(wire) /\ wire[n + 1].kind # "blank"
            /\ wire' = Append(SubSeq(wire, 1, n), Torn(wire[n + 1]))
    BY DEF Breaks
<1> DEFINE p == SubSeq(wire, 1, n)
<1>5. p \in Seq(Lines) /\ Len(p) = n /\ \A i \in 1..n : p[i] = wire[i]
    <2>1. \A i \in 1..n : wire[i] \in Lines
        BY <1>2, <1>3
    <2>2. /\ p \in Seq(Lines)
          /\ Len(p) = IF 1 <= n THEN n - 1 + 1 ELSE 0
          /\ \A i \in 1..(n - 1 + 1) : p[i] = wire[1 + i - 1]
        BY <2>1, SubSeqProperties
    <2> HIDE DEF p
    <2>3. n - 1 + 1 = n /\ \A i \in 1..n : 1 + i - 1 = i
        BY <1>2
    <2> QED
        BY <1>2, <2>2, <2>3
<1>6. /\ wire' \in Seq(Lines) /\ Len(wire') <= Len(wire)
      /\ \A i \in 1..Len(wire') :
            \/ wire'[i] = wire[i]
            \/ i = Len(wire') /\ wire[i].kind # "blank" /\ wire'[i] = Torn(wire[i])
    <2>1. CASE wire' = p
        <3> HIDE DEF p
        <3> QED
            BY <1>2, <1>5, <2>1
    <2>2. CASE /\ n < Len(wire) /\ wire[n + 1].kind # "blank"
               /\ wire' = Append(p, Torn(wire[n + 1]))
        <3>1. n + 1 \in 1..Len(wire) /\ n \in Nat
            BY <1>2, <2>2
        <3>2. Torn(wire[n + 1]) \in Lines
            BY <1>3, <3>1 DEF Torn, Line, Lines
        <3> HIDE DEF p
        <3>3. /\ wire' \in Seq(Lines) /\ Len(wire') = n + 1
              /\ \A i \in 1..n : wire'[i] = p[i]
              /\ wire'[n + 1] = Torn(wire[n + 1])
            BY <1>5, <2>2, <3>2, AppendProperties
        <3>4. \A i \in 1..(n + 1) : i \in 1..n \/ i = n + 1
            BY <3>1
        <3> QED
            BY <1>2, <1>5, <2>2, <3>1, <3>3, <3>4
    <2> QED
        BY <1>4, <2>1, <2>2
<1>7. WireTypes'
    <2>1. Len(wire') \in Nat
        BY <1>6, LenProperties
    <2>2. Len(wire') <= 3 * Len(sent')
        BY <1>1, <1>2, <1>6, <2>1
    <2> QED
        BY <1>1, <1>6, <2>2 DEF IInv, WireTypes
<1>8. Counters' /\ BackoffFits'
    BY DEF IInv, Counters, BackoffFits, Breaks, history
<1>9. SentFits'
    BY <1>1 DEF IInv, SentFits
<1>10. PassedOn' /\ Settled'
    BY <1>1 DEF IInv, PassedOn, Settled, Heard
<1>11. Framed'
    <2>1. PICK j, l : Tracked(wire, sent, FALSE, j, l) /\ Reader(j, l)
        BY <1>1 DEF IInv, Framed, WireTypes
    <2>2. Tracked(wire', sent, TRUE, j, l)
        BY <1>2, <1>6, <2>1, TrackedCut
    <2>3. (Reader(j, l))'
        BY <1>1, <2>1 DEF Reader, Heard
    <2> QED
        BY <1>1, <2>2, <2>3 DEF Framed
<1> QED
    BY <1>7, <1>8, <1>9, <1>10, <1>11 DEF IInv

(* Reading one line: what it does to the reader, by what the line is.         *)

\* What Read makes of the line x when it is not skipped.
Reads(x, events, p) ==
    /\ got' = got \o events
    /\ parser' = p
    /\ backoff' = IF runtime = "opencode" \/ events # <<>> THEN 1 ELSE backoff
    /\ pc' = IF runtime = "claude" /\ \E i \in DOMAIN events : events[i].event = "error"
             THEN "waiting" ELSE pc
    /\ idle' = IF x.kind = "blank" THEN 0 ELSE idle

LEMMA ReadReads ==
    ASSUME Read, ~Skips(Head(wire))
    PROVE  Reads(Head(wire), Yields(parser, Head(wire)), Parsed(parser, Head(wire)))
BY DEF Read, Reads, Alive

LEMMA ReadSkips ==
    ASSUME Read, Skips(Head(wire))
    PROVE  /\ got' = got \o <<>> /\ pc' = pc /\ backoff' = 1
           /\ Head(wire).kind # "blank" => idle' = idle
<1>1. DOMAIN <<>> = {}
    OBVIOUS
<1> QED
    BY <1>1 DEF Read, Skips, Alive

LEMMA LineKinds ==
    /\ Line("comment", "", 0).kind = "comment"
    /\ Line("blank", "", 0).kind = "blank"
    /\ \A n : Line("data", "", n).kind = "data" /\ Line("data", "", n).number = n
    /\ \A e : Line("event", e, 0).kind = "event" /\ Line("event", e, 0).name = e
    /\ \A x : Torn(x).kind = x.kind
BY DEF Line, Torn

\* The cases of a line, in the terms of the frame it belongs to.
LEMMA LineCases ==
    ASSUME NEW s, NEW j, NEW l \in 1..Tall(s, j)
    PROVE  /\ l \in {1, 2, 3} /\ (l = 3 => ~IsPing(s, j))
           /\ l = 1 /\ IsPing(s, j) => LineOf(s, j, l) = Line("comment", "", 0)
           /\ l = 2 /\ IsPing(s, j) => LineOf(s, j, l) = Line("blank", "", 0)
           /\ l = 1 /\ ~IsPing(s, j) => LineOf(s, j, l) = Line("event", s[j].event, 0)
           /\ l = 2 /\ ~IsPing(s, j) => LineOf(s, j, l) = Line("data", "", j)
           /\ l = 3 => LineOf(s, j, l) = Line("blank", "", 0)
<1>1. IsPing(s, j) => l \in {1, 2}
    BY DEF Tall
<1>2. ~IsPing(s, j) => l \in {1, 2, 3}
    BY DEF Tall
<1>3. IsPing(s, j) => LineOf(s, j, 1) = Line("comment", "", 0)
    BY DEF LineOf
<1>4. IsPing(s, j) => LineOf(s, j, 2) = Line("blank", "", 0)
    BY DEF LineOf
<1>5. ~IsPing(s, j) => LineOf(s, j, 1) = Line("event", s[j].event, 0)
    BY DEF LineOf
<1>6. ~IsPing(s, j) => LineOf(s, j, 2) = Line("data", "", j)
    BY DEF LineOf
<1>7. ~IsPing(s, j) => LineOf(s, j, 3) = Line("blank", "", 0)
    BY DEF LineOf
<1>8. l = 3 => ~IsPing(s, j)
    BY <1>1
<1> QED
    BY <1>1, <1>2, <1>3, <1>4, <1>5, <1>6, <1>7, <1>8

\* What each kind of line does to the reader.
LEMMA OfComment ==
    ASSUME NEW x, NEW p, x.kind = "comment"
    PROVE  /\ Parsed(p, x) = p
           /\ runtime = "claude" => Yields(p, x) = <<Event("_ping", 0)>>
           /\ runtime = "opencode" => Yields(p, x) = <<>>
BY DEF Parsed, Yields

LEMMA OfEvent ==
    ASSUME NEW x, NEW p, x.kind = "event"
    PROVE  Parsed(p, x) = [p EXCEPT !.event = x.name] /\ Yields(p, x) = <<>>
BY DEF Parsed, Yields

LEMMA OfData ==
    ASSUME NEW x, NEW p, x.kind = "data"
    PROVE  Parsed(p, x) = [p EXCEPT !.data = Append(@, x.number)] /\ Yields(p, x) = <<>>
BY DEF Parsed, Yields

LEMMA OfBlank ==
    ASSUME NEW x, NEW p, x.kind = "blank"
    PROVE  Parsed(p, x) = Fresh /\ Yields(p, x) = Dispatched(p)
BY DEF Parsed, Yields

\* The frames read so far, and one more.
LEMMA HeardNext ==
    ASSUME WireTypes, SentFits, NEW j \in 1..Len(sent)
    PROVE  /\ sent[j] \in Events
           /\ sent[j] = Event(sent[j].event, IF IsPing(sent, j) THEN 0 ELSE j)
           /\ Heard[j - 1] \in Seq(Events)
           /\ j - 1 \in 0..Len(sent) /\ j \in 0..Len(sent)
           /\ runtime = "claude" \/ ~IsPing(sent, j) => Heard[j] = Heard[j - 1] \o <<sent[j]>>
           /\ runtime = "opencode" /\ IsPing(sent, j) => Heard[j] = Heard[j - 1]
           /\ Heard[j] \in Seq(Events)
<1>1. IsHeard(Heard, runtime, sent) /\ Len(sent) \in Nat
    BY HeardFacts
<1>2. j - 1 \in 0..Len(sent) /\ j \in 0..Len(sent)
    BY <1>1
<1>3. sent[j] \in Events
    BY ElementOfSeq DEF WireTypes
<1>4. Heard[j - 1] \in Seq(Events) /\ Heard[j] \in Seq(Events)
    BY <1>1, <1>2 DEF IsHeard
<1>5. Append(Heard[j - 1], sent[j]) = Heard[j - 1] \o <<sent[j]>>
    BY <1>3, <1>4, AppendIsConcat
<1>6. Heard[j] = IF runtime = "claude" \/ ~IsPing(sent, j) THEN Append(Heard[j - 1], sent[j])
                 ELSE Heard[j - 1]
    BY <1>1 DEF IsHeard, IsPing
<1>7. sent[j] = Event(sent[j].event, IF IsPing(sent, j) THEN 0 ELSE j)
    BY <1>3 DEF Events, Event, SentFits
<1> QED
    BY <1>2, <1>3, <1>4, <1>5, <1>6, <1>7

\* A reader that passes on nothing goes on as it is.
LEMMA ReadsNothing ==
    ASSUME NEW x, NEW p, got \in Seq(Events), Reads(x, <<>>, p)
    PROVE  /\ got' = got /\ parser' = p /\ pc' = pc
           /\ backoff' = IF runtime = "opencode" THEN 1 ELSE backoff
           /\ idle' = IF x.kind = "blank" THEN 0 ELSE idle
<1>1. got \o <<>> = got
    BY ConcatEmptySeq
<1>2. DOMAIN <<>> = {}
    OBVIOUS
<1> QED
    BY <1>1, <1>2 DEF Reads

LEMMA ReadsOne ==
    ASSUME NEW x, NEW p, NEW e, Reads(x, <<e>>, p)
    PROVE  /\ got' = got \o <<e>> /\ parser' = p /\ backoff' = 1
           /\ pc' = IF runtime = "claude" /\ e.event = "error" THEN "waiting" ELSE pc
           /\ idle' = IF x.kind = "blank" THEN 0 ELSE idle
<1>1. DOMAIN <<e>> = {1} /\ <<e>>[1] = e /\ <<e>> # <<>>
    OBVIOUS
<1> QED
    BY <1>1 DEF Reads

\* A line of a whole frame moves the reader to the next line.
LEMMA ReadsWhole ==
    ASSUME IInv, NEW j \in 1..Len(sent), NEW l \in 1..Tall(sent, j), Reader(j, l),
           NEW x, x = LineOf(sent, j, l), Reads(x, Yields(parser, x), Parsed(parser, x)),
           sent' = sent, runtime' = runtime,
           NEW k, NEW m, k = NextFrame(sent, j, l), m = NextLine(sent, j, l)
    PROVE  /\ (Reader(k, m))'
           /\ got' \in {Heard[j - 1], Heard[j]}
           /\ pc' = pc \/ (pc' = "waiting" /\ l = 3 /\ sent[j].event = "error" /\ got' = Heard[j])
           /\ backoff' \in {1, backoff}
           /\ idle' = idle \/ (idle' = 0 /\ backoff' = 1)
<1>1. /\ sent[j] \in Events
      /\ sent[j] = Event(sent[j].event, IF IsPing(sent, j) THEN 0 ELSE j)
      /\ Heard[j - 1] \in Seq(Events) /\ Heard[j] \in Seq(Events)
      /\ runtime = "claude" \/ ~IsPing(sent, j) => Heard[j] = Heard[j - 1] \o <<sent[j]>>
      /\ runtime = "opencode" /\ IsPing(sent, j) => Heard[j] = Heard[j - 1]
    BY HeardNext DEF IInv
<1>2. Heard' = Heard /\ Len(sent) \in Nat /\ Len(sent') = Len(sent)
    BY HeardFacts DEF IInv, Heard
<1>3. runtime \in {"claude", "opencode"}
    BY DEF IInv, WireTypes
<1>4. CASE l = 1 /\ IsPing(sent, j)
    <2>1. x = Line("comment", "", 0) /\ parser = Fresh /\ got = Heard[j - 1]
        BY <1>4, LineCases DEF Reader
    <2>2. k = j /\ m = 2
        BY <1>4 DEF NextFrame, NextLine, Tall
    <2>0. x.kind = "comment"
        BY <2>1, LineKinds
    <2>3. Parsed(parser, x) = Fresh /\ x.kind # "blank"
        BY <2>0, <2>1, OfComment
    <2>4. sent[j] = Event("_ping", 0) /\ sent[j].event # "error"
        BY <1>1, <1>4 DEF IsPing
    <2>5. CASE runtime = "claude"
        <3>1. Yields(parser, x) = <<sent[j]>>
            BY <2>0, <2>4, <2>5, OfComment
        <3>2. /\ got' = got \o <<sent[j]>> /\ parser' = Fresh /\ backoff' = 1
              /\ pc' = pc /\ idle' = idle
            BY <2>3, <2>4, <3>1, ReadsOne
        <3>3. got' = Heard[j]
            BY <1>1, <2>1, <2>5, <3>2
        <3>4. (Reader(j, 2))'
            BY <1>2, <1>4, <3>2, <3>3 DEF Reader, Tall, IsPing
        <3> QED
            BY <2>2, <3>2, <3>3, <3>4
    <2>6. CASE runtime = "opencode"
        <3>1. Yields(parser, x) = <<>>
            BY <2>0, <2>6, OfComment
        <3>2. got' = got /\ parser' = Fresh /\ backoff' = 1 /\ pc' = pc /\ idle' = idle
            BY <1>1, <2>1, <2>3, <2>6, <3>1, ReadsNothing
        <3>3. got' = Heard[j]
            BY <1>1, <1>4, <2>1, <2>6, <3>2
        <3>4. (Reader(j, 2))'
            BY <1>2, <1>4, <2>6, <3>2, <3>3 DEF Reader, Tall, IsPing
        <3> QED
            BY <2>2, <3>2, <3>3, <3>4
    <2> QED
        BY <1>3, <2>5, <2>6
<1>5. CASE l = 1 /\ ~IsPing(sent, j)
    <2>1. x = Line("event", sent[j].event, 0) /\ parser = Fresh /\ got = Heard[j - 1]
        BY <1>5, LineCases DEF Reader
    <2>2. k = j /\ m = 2
        BY <1>5 DEF NextFrame, NextLine, Tall
    <2>3. /\ Parsed(parser, x) = [event |-> sent[j].event, data |-> <<>>]
          /\ Yields(parser, x) = <<>> /\ x.kind # "blank"
        <3>1. x.kind = "event" /\ x.name = sent[j].event
            BY <2>1, LineKinds
        <3>2. Parsed(parser, x) = [parser EXCEPT !.event = x.name] /\ Yields(parser, x) = <<>>
            BY <3>1, OfEvent
        <3> QED
            BY <2>1, <3>1, <3>2 DEF Fresh
    <2>4. /\ got' = got /\ parser' = [event |-> sent[j].event, data |-> <<>>]
          /\ backoff' \in {1, backoff} /\ pc' = pc /\ idle' = idle
        BY <1>1, <2>1, <2>3, ReadsNothing
    <2>5. (Reader(j, 2))'
        BY <1>2, <1>5, <2>1, <2>4 DEF Reader, Tall, IsPing
    <2> QED
        BY <2>1, <2>2, <2>4, <2>5
<1>6. CASE l = 2 /\ IsPing(sent, j)
    <2>1. /\ x = Line("blank", "", 0) /\ parser = Fresh /\ got = Heard[j]
          /\ runtime = "claude" => backoff = 1
        BY <1>6, LineCases DEF Reader
    <2>2. k = j + 1 /\ m = 1
        BY <1>6 DEF NextFrame, NextLine, Tall
    <2>3. Parsed(parser, x) = Fresh /\ Yields(parser, x) = <<>> /\ x.kind = "blank"
        <3>1. x.kind = "blank"
            BY <2>1, LineKinds
        <3>2. Parsed(parser, x) = Fresh /\ Yields(parser, x) = Dispatched(parser)
            BY <3>1, OfBlank
        <3>3. Dispatched(Fresh) = <<>>
            BY DEF Fresh, Dispatched
        <3> QED
            BY <2>1, <3>1, <3>2, <3>3
    <2>4. got' = got /\ parser' = Fresh /\ backoff' = 1 /\ pc' = pc /\ idle' = 0
        BY <1>1, <1>3, <2>1, <2>3, ReadsNothing
    <2>5. j + 1 \in 1..(Len(sent) + 1) /\ (j + 1) - 1 = j
        BY <1>2
    <2>6. got' = Heard[j]
        BY <2>1, <2>4
    <2>7. (Reader(j + 1, 1))'
        BY <1>2, <2>4, <2>5, <2>6 DEF Reader
    <2> QED
        BY <2>1, <2>2, <2>4, <2>6, <2>7
<1>7. CASE l = 2 /\ ~IsPing(sent, j)
    <2>1. /\ x = Line("data", "", j) /\ parser = [event |-> sent[j].event, data |-> <<>>]
          /\ got = Heard[j - 1]
        BY <1>7, LineCases DEF Reader
    <2>2. k = j /\ m = 3
        BY <1>7 DEF NextFrame, NextLine, Tall
    <2>3. /\ Parsed(parser, x) = [event |-> sent[j].event, data |-> <<j>>]
          /\ Yields(parser, x) = <<>> /\ x.kind # "blank"
        <3>1. Append(<<>>, j) = <<j>>
            OBVIOUS
        <3>2. x.kind = "data" /\ x.number = j
            BY <2>1, LineKinds
        <3>3. /\ Parsed(parser, x) = [parser EXCEPT !.data = Append(@, x.number)]
              /\ Yields(parser, x) = <<>>
            BY <3>2, OfData
        <3>4. [parser EXCEPT !.data = Append(@, x.number)]
                = [event |-> sent[j].event, data |-> <<j>>]
            <4>1. \A e, d : [[event |-> e, data |-> <<>>] EXCEPT !.data = d]
                                = [event |-> e, data |-> d]
                OBVIOUS
            <4>2. parser.data = <<>>
                BY <2>1
            <4> QED
                BY <2>1, <3>1, <3>2, <4>1, <4>2
        <3> QED
            BY <3>2, <3>3, <3>4
    <2>4. /\ got' = got /\ parser' = [event |-> sent[j].event, data |-> <<j>>]
          /\ backoff' \in {1, backoff} /\ pc' = pc /\ idle' = idle
        BY <1>1, <2>1, <2>3, ReadsNothing
    <2>5. (Reader(j, 3))'
        <3>1. ~IsPing(sent', j) /\ sent'[j].event = sent[j].event /\ j \in 1..Len(sent')
            BY <1>2, <1>7
        <3>2. 3 \in 2..Tall(sent', j)
            BY <3>1 DEF Tall
        <3>3. got' = Heard'[j - 1]
            BY <1>2, <2>1, <2>4
        <3> QED
            BY <2>4, <3>1, <3>2, <3>3 DEF Reader
    <2> QED
        BY <2>1, <2>2, <2>4, <2>5
<1>8. CASE l = 3
    <2>1. /\ x = Line("blank", "", 0) /\ parser = [event |-> sent[j].event, data |-> <<j>>]
          /\ got = Heard[j - 1] /\ ~IsPing(sent, j)
        BY <1>8, LineCases DEF Reader
    <2>2. k = j + 1 /\ m = 1
        BY <1>8, <2>1 DEF NextFrame, NextLine, Tall
    <2>3. Parsed(parser, x) = Fresh /\ x.kind = "blank"
        <3>1. x.kind = "blank"
            BY <2>1, LineKinds
        <3> QED
            BY <3>1, OfBlank
    <2>4. sent[j].event # "" /\ sent[j] = Event(sent[j].event, j)
        BY <1>1, <2>1 DEF Events
    <2>5. Yields(parser, x) = <<sent[j]>>
        <3>1. <<j>> # <<>> /\ Len(<<j>>) = 1 /\ <<j>>[1] = j
            OBVIOUS
        <3>2. Yields(parser, x) = Dispatched(parser)
            BY <2>3, OfBlank
        <3>3. parser.event = sent[j].event /\ parser.data = <<j>>
            BY <2>1
        <3>4. Payload(parser.data) = j
            BY <3>1, <3>3 DEF Payload
        <3>5. Dispatched(parser) = <<Event(sent[j].event, j)>>
            BY <2>4, <3>1, <3>3, <3>4 DEF Dispatched
        <3> QED
            BY <2>4, <3>2, <3>5
    <2>6. /\ got' = got \o <<sent[j]>> /\ parser' = Fresh /\ backoff' = 1 /\ idle' = 0
          /\ pc' = IF runtime = "claude" /\ sent[j].event = "error" THEN "waiting" ELSE pc
        BY <2>3, <2>5, ReadsOne
    <2>7. got' = Heard[j]
        BY <1>1, <2>1, <2>6
    <2>8. j + 1 \in 1..(Len(sent) + 1) /\ (j + 1) - 1 = j
        BY <1>2
    <2>9. (Reader(j + 1, 1))'
        BY <1>2, <2>6, <2>7, <2>8 DEF Reader
    <2> QED
        BY <1>8, <2>2, <2>6, <2>7, <2>9
<1> QED
    BY <1>4, <1>5, <1>6, <1>7, <1>8, LineCases

\* Half a line, at the end of a connection that was cut, adds at most a ping.
LEMMA ReadsHalf ==
    ASSUME IInv, NEW j \in 1..Len(sent), NEW l \in 1..Tall(sent, j), Reader(j, l),
           NEW x, x = Torn(LineOf(sent, j, l)), LineOf(sent, j, l).kind # "blank",
           Reads(x, Yields(parser, x), Parsed(parser, x))
    PROVE  /\ got' \in {Heard[j - 1], Heard[j]}
           /\ pc' = pc /\ backoff' \in {1, backoff} /\ idle' = idle
<1>1. /\ sent[j] = Event(sent[j].event, IF IsPing(sent, j) THEN 0 ELSE j)
      /\ Heard[j - 1] \in Seq(Events)
      /\ runtime = "claude" \/ ~IsPing(sent, j) => Heard[j] = Heard[j - 1] \o <<sent[j]>>
    BY HeardNext DEF IInv
<1>2. runtime \in {"claude", "opencode"}
    BY DEF IInv, WireTypes
<1>3. CASE l = 1 /\ IsPing(sent, j)
    <2>0. LineOf(sent, j, l) = Line("comment", "", 0) /\ got = Heard[j - 1]
        BY <1>3, LineCases DEF Reader
    <2>1. x.kind = "comment"
        BY <2>0, LineKinds
    <2>2. sent[j] = Event("_ping", 0) /\ sent[j].event # "error" /\ x.kind # "blank"
        BY <1>1, <1>3, <2>1 DEF IsPing, Event
    <2>3. CASE runtime = "claude"
        <3>1. Yields(parser, x) = <<sent[j]>>
            BY <2>1, <2>2, <2>3, OfComment
        <3> QED
            BY <1>1, <2>0, <2>2, <2>3, <3>1, ReadsOne
    <2>4. CASE runtime = "opencode"
        <3>1. Yields(parser, x) = <<>>
            BY <2>1, <2>4, OfComment
        <3> QED
            BY <1>1, <2>0, <2>2, <3>1, ReadsNothing
    <2> QED
        BY <1>2, <2>3, <2>4
<1>4. CASE l \in {1, 2} /\ ~IsPing(sent, j)
    <2>1. got = Heard[j - 1] /\ x.kind \in {"event", "data"}
        <3>1. got = Heard[j - 1]
            BY <1>4 DEF Reader
        <3>2. LineOf(sent, j, l).kind \in {"event", "data"}
            <4>1. \/ LineOf(sent, j, l) = Line("event", sent[j].event, 0)
                  \/ LineOf(sent, j, l) = Line("data", "", j)
                BY <1>4, LineCases
            <4> QED
                BY <4>1, LineKinds
        <3> QED
            BY <3>1, <3>2, LineKinds
    <2>2. Yields(parser, x) = <<>> /\ x.kind # "blank"
        BY <2>1, OfEvent, OfData
    <2> QED
        BY <1>1, <2>1, <2>2, ReadsNothing
<1>5. CASE l = 3 \/ (l = 2 /\ IsPing(sent, j))
    <2>1. LineOf(sent, j, l) = Line("blank", "", 0)
        BY <1>5, LineCases
    <2> QED
        BY <2>1, LineKinds
<1> QED
    BY <1>3, <1>4, <1>5, LineCases

LEMMA NeverTorn ==
    ASSUME WireTypes, NEW j \in 1..Len(sent), NEW l
    PROVE  LineOf(sent, j, l).name # "torn"
<1>1. sent[j].event # "torn"
    <2>1. sent[j] \in Events
        BY ElementOfSeq DEF WireTypes
    <2> QED
        BY <2>1 DEF Events
<1>2. /\ Line("comment", "", 0).name # "torn"
      /\ Line("blank", "", 0).name # "torn"
      /\ \A n : Line("data", "", n).name # "torn"
      /\ \A e : Line("event", e, 0).name = e
    BY DEF Line
<1>3. LineOf(sent, j, l) \in {Line("comment", "", 0), Line("blank", "", 0),
                               Line("event", sent[j].event, 0), Line("data", "", j)}
    BY DEF LineOf
<1> QED
    BY <1>1, <1>2, <1>3

LEMMA ReadKeeps == IInv /\ Read => IInv'
<1> SUFFICES ASSUME IInv, Read PROVE IInv'
    OBVIOUS
<1>1. /\ pc = "streaming" /\ wire # <<>> /\ wire' = Tail(wire) /\ barren' = 0
      /\ runtime' = runtime /\ serving' = serving /\ cut' = cut /\ sent' = sent
    BY DEF Read
<1>2. /\ wire \in Seq(Lines) /\ sent \in Seq(Events) /\ cut \in BOOLEAN /\ Len(sent) \in Nat
      /\ runtime \in {"claude", "opencode"}
    BY LenProperties DEF IInv, WireTypes
<1>3. PICK j, l : Tracked(wire, sent, cut, j, l) /\ Reader(j, l)
    BY <1>1 DEF IInv, Framed
<1>4. /\ j \in 1..Len(sent) /\ l \in 1..Tall(sent, j)
      /\ Carries(Head(wire), sent, j, l, cut /\ Tail(wire) = <<>>)
      /\ Tracked(Tail(wire), sent, cut, NextFrame(sent, j, l), NextLine(sent, j, l))
    BY <1>1, <1>2, <1>3, TrackedRead
<1>5. /\ Heard[j - 1] \in Seq(Events) /\ Heard[j] \in Seq(Events)
      /\ j - 1 \in 0..Len(sent) /\ j \in 0..Len(sent)
    BY <1>4, HeardNext DEF IInv
<1>6. Heard' = Heard
    BY <1>1 DEF Heard
<1>7. /\ got' \in {Heard[j - 1], Heard[j]}
      /\ \/ pc' = pc
         \/ pc' = "waiting" /\ sent[j].event = "error" /\ got' = Heard[j]
      /\ backoff' \in {1, backoff}
      /\ idle' = idle \/ (idle' = 0 /\ backoff' = 1)
      /\ Framed'
    <2>1. CASE Head(wire) = LineOf(sent, j, l)
        <3>1. ~Skips(Head(wire))
            BY <1>4, <2>1, NeverTorn DEF IInv, Skips
        <3>2. PICK x : x = Head(wire)
            OBVIOUS
        <3>3. PICK k, m : k = NextFrame(sent, j, l) /\ m = NextLine(sent, j, l)
            OBVIOUS
        <3>4. Reads(x, Yields(parser, x), Parsed(parser, x))
            BY <3>1, <3>2, ReadReads
        <3>5. x = LineOf(sent, j, l)
            BY <2>1, <3>2
        <3>6. /\ (Reader(k, m))'
              /\ got' \in {Heard[j - 1], Heard[j]}
              /\ \/ pc' = pc
                 \/ pc' = "waiting" /\ l = 3 /\ sent[j].event = "error" /\ got' = Heard[j]
              /\ backoff' \in {1, backoff}
              /\ idle' = idle \/ (idle' = 0 /\ backoff' = 1)
            BY <1>1, <1>3, <1>4, <3>3, <3>4, <3>5, ReadsWhole
        <3>7. Tracked(wire', sent', cut', k, m)
            BY <1>1, <1>4, <3>3
        <3>8. Framed'
            BY <3>6, <3>7 DEF Framed
        <3> QED
            BY <3>6, <3>8
    <2>2. CASE /\ cut /\ Tail(wire) = <<>> /\ LineOf(sent, j, l).kind # "blank"
               /\ Head(wire) = Torn(LineOf(sent, j, l))
        <3>1. Framed'
            BY <1>1, <2>2 DEF Framed
        <3>2. PICK x : x = Head(wire)
            OBVIOUS
        <3>3. x = Torn(LineOf(sent, j, l)) /\ LineOf(sent, j, l).kind # "blank"
            BY <2>2, <3>2
        <3>4. CASE ~Skips(Head(wire))
            <4>1. Reads(x, Yields(parser, x), Parsed(parser, x))
                BY <3>2, <3>4, ReadReads
            <4>2. /\ got' \in {Heard[j - 1], Heard[j]}
                  /\ pc' = pc /\ backoff' \in {1, backoff} /\ idle' = idle
                BY <1>3, <1>4, <3>3, <4>1, ReadsHalf
            <4> QED
                BY <3>1, <4>2
        <3>5. CASE Skips(Head(wire))
            <4>1. Head(wire).kind # "blank"
                <5>1. Torn(LineOf(sent, j, l)).kind = LineOf(sent, j, l).kind
                    BY DEF Torn, Line
                <5> QED
                    BY <2>2, <5>1
            <4>2. got' = got \o <<>> /\ pc' = pc /\ backoff' = 1 /\ idle' = idle
                BY <3>5, <4>1, ReadSkips
            <4>3. got \in {Heard[j - 1], Heard[j]}
                BY <1>3, <1>4, LineCases DEF Reader
            <4>4. got' = got
                BY <1>5, <4>2, <4>3, ConcatEmptySeq
            <4> QED
                BY <3>1, <4>2, <4>3, <4>4
        <3> QED
            BY <3>4, <3>5
    <2> QED
        BY <1>4, <2>1, <2>2 DEF Carries
<1>8. pc' # pc => j = Len(sent) /\ ~serving
    BY <1>4, <1>7 DEF IInv, SentFits
<1>9. WireTypes'
    <2>1. /\ Tail(wire) \in Seq(Lines) /\ Len(Tail(wire)) = Len(wire) - 1 /\ Len(wire) \in Nat
        BY <1>1, <1>2, HeadTailProperties, LenProperties
    <2>2. Len(wire') <= 3 * Len(sent')
        BY <1>1, <1>2, <2>1 DEF IInv, WireTypes
    <2>3. pc' \in {"connecting", "streaming", "waiting"} /\ (serving' => pc' = "streaming" /\ ~cut')
        BY <1>1, <1>7, <1>8 DEF IInv, WireTypes
    <2> QED
        BY <1>1, <2>1, <2>2, <2>3 DEF IInv, WireTypes
<1>10. Counters'
    BY <1>1, <1>7, WireAssumption DEF WireAssumption, IInv, Counters
<1>11. BackoffFits'
    <2>1. /\ Cap \in Nat \ {0} /\ backoff \in 1..Cap /\ idle \in 0..MaxSleeps
          /\ MaxSleeps \in Nat /\ 0 \in 0..MaxSleeps
        BY WireAssumption DEF WireAssumption, IInv, Counters
    <2>2. Doubled[0] = 1 /\ Doubled[idle] \in Nat \ {0}
        BY <2>1, DoubledGrows
    <2>3. Least(Doubled[0], Cap) = 1
        BY <2>1, <2>2 DEF Least
    <2>4. backoff <= Least(Doubled[idle], Cap) /\ 1 <= Least(Doubled[idle], Cap)
        BY <2>1, <2>2 DEF IInv, BackoffFits, Least
    <2>5. Least(Doubled[barren'], Cap) <= backoff'
        BY <1>1, <1>7, <2>1, <2>3
    <2>6. backoff' <= Least(Doubled[idle'], Cap)
        <3>1. CASE idle' = idle
            BY <1>7, <2>4, <3>1
        <3>2. CASE idle' = 0 /\ backoff' = 1
            BY <2>3, <3>2
        <3> QED
            BY <1>7, <3>1, <3>2
    <2> QED
        BY <2>5, <2>6 DEF BackoffFits
<1>12. SentFits'
    BY <1>1 DEF IInv, SentFits
<1>13. PassedOn'
    BY <1>1, <1>5, <1>6, <1>7 DEF PassedOn
<1>14. Settled'
    BY <1>1, <1>6, <1>7, <1>8 DEF Settled
<1> QED
    BY <1>7, <1>9, <1>10, <1>11, <1>12, <1>13, <1>14 DEF IInv

LEMMA NextKeeps == IInv /\ [Next]_vars => IInv'
<1> SUFFICES ASSUME IInv, [Next]_vars PROVE IInv'
    OBVIOUS
<1>1. CASE UNCHANGED vars
    <2>1. WireTypes' /\ Counters' /\ BackoffFits'
        BY <1>1 DEF IInv, WireTypes, Counters, BackoffFits, vars, connection, history
    <2>2. SentFits' /\ Framed' /\ PassedOn' /\ Settled'
        BY <1>1 DEF IInv, vars, connection, SentFits, Framed, PassedOn, Settled, Heard, Reader
    <2> QED
        BY <2>1, <2>2 DEF IInv
<1>2. CASE Breaks
    BY <1>2, BreaksKeeps
<1>3. ASSUME NEW name \in {"deliver", "_ping", "error"}, Send(name) PROVE IInv'
    BY <1>3, SendKeeps
<1>4. CASE Connect
    BY <1>4, ConnectKeeps
<1>5. CASE ConnectFails
    BY <1>5, ConnectFailsKeeps
<1>6. CASE Read
    BY <1>6, ReadKeeps
<1>7. CASE Ends
    BY <1>7, EndsKeeps
<1>8. CASE TimesOut
    BY <1>8, TimesOutKeeps
<1>9. CASE Retry
    BY <1>9, RetryKeeps
<1> QED
    BY <1>1, <1>2, <1>3, <1>4, <1>5, <1>6, <1>7, <1>8, <1>9 DEF Next, Server, Client

-----------------------------------------------------------------------------
(* The theorems.                                                              *)

HeaderInv ==
    /\ agent \in Seq({"x", "-", "~", "/"}) /\ HeaderAccepted
    /\ sendable \in BOOLEAN

\* The name of the client itself is short and plain.
LEMMA HeaderDerived ==
    ASSUME NEW r, NEW e \in Environments
    PROVE  LET h == derive_address(r, e)
           IN  h \in Seq({"x", "-", "~", "/"}) /\ encodes(h) /\ parse_agent_header(h)
<1> DEFINE host == IF e.override # <<>> THEN e.override ELSE e.hostname
           project == IF r = "claude" THEN derive_project(e) ELSE pluginProject(e)
<1>1. host \in Project /\ project \in Project
    BY ProjectIsProject
<1>2. <<"x">> \in Project
    BY DEF Project, Chars
<1> HIDE DEF host, project
<1>3. /\ seg(host) \in Seq(Plain) /\ seg(host) # <<>>
      /\ seg(project) \in Seq(Plain) /\ seg(project) # <<>>
      /\ seg(<<"x">>) \in Seq(Plain) /\ seg(<<"x">>) # <<>>
    BY <1>1, <1>2, SegIsPlain
<1>4. derive_address(r, e) =
        seg(host) \o <<"/", "x", "/">> \o seg(project) \o <<"/">> \o seg(<<"x">>)
    BY DEF derive_address, host, project
<1> QED
    BY <1>3, <1>4, HeaderFits

LEMMA HeaderKept ==
    /\ Init => HeaderInv
    /\ HeaderInv /\ [Next]_vars => HeaderInv'
<1>1. Init => HeaderInv
    BY HeaderDerived DEF Init, HeaderInv, HeaderAccepted, MetaEncodes
<1>2. [Next]_vars => agent' = agent /\ sendable' = sendable
    BY DEF Next, Server, Client, Breaks, Send, Connect, ConnectFails, Read, Ends, TimesOut,
           Retry, vars
<1>3. HeaderInv /\ agent' = agent /\ sendable' = sendable => HeaderInv'
    BY DEF HeaderInv, HeaderAccepted
<1> QED
    BY <1>1, <1>2, <1>3

\* The header an agent derives (naming.derive_address, the plugin's copy) can be
\* encoded and is accepted by parse_agent_header, on any machine.
THEOREM HeaderAcceptedHolds == Spec => []HeaderAccepted
<1>1. HeaderInv => HeaderAccepted
    BY DEF HeaderInv
<1> QED
    BY <1>1, HeaderKept, PTL DEF Spec

LEMMA Invariance == Spec => [](IInv /\ HeaderInv)
    BY InitEstablishes, NextKeeps, HeaderKept, PTL DEF Spec

\* The variables keep to their types and the wait between two attempts of either
\* client (muster_channel.relay, muster-chat.js) to its cap.
THEOREM TypeOKHolds == Spec => []TypeOK
<1>1. IInv /\ HeaderInv => TypeOK
    <2> SUFFICES ASSUME IInv, HeaderInv PROVE TypeOK
        OBVIOUS
    <2>1. Len(wire) <= 3 * MaxFrames
        <3>1. Len(sent) \in Nat /\ Len(wire) \in Nat /\ MaxFrames \in Nat
            BY WireAssumption, LenProperties DEF WireAssumption, IInv, WireTypes
        <3> QED
            BY <3>1 DEF IInv, WireTypes
    <2> QED
        BY <2>1 DEF IInv, WireTypes, Counters, HeaderInv, TypeOK
<1> QED
    BY <1>1, Invariance, PTL

\* Either reader (parse_sse, the plugin's relay) passes on whole events of its
\* own connection in the order sent, wherever the stream is torn, and all of
\* them when it ends in order.
THEOREM EventsArriveWholeHolds == Spec => []EventsArriveWhole
<1>1. IInv => EventsArriveWhole
    <2> SUFFICES ASSUME IInv PROVE EventsArriveWhole
        OBVIOUS
    <2>1. Shown = Heard[Len(sent)]
        BY DEF Shown, Heard, HeardOf, At
    <2>2. PICK k \in 0..Len(sent) : got = Heard[k]
        BY DEF IInv, PassedOn
    <2>3. IsPrefix(Heard[k], Heard[Len(sent)])
        BY HeardPrefix DEF IInv, WireTypes, Heard
    <2>4. pc = "waiting" /\ ~cut => got = Shown
        BY <2>1 DEF IInv, Settled
    <2> QED
        BY <2>1, <2>2, <2>3, <2>4 DEF EventsArriveWhole
<1> QED
    BY <1>1, Invariance, PTL

\* The wait (the backoff of both reconnect loops) has doubled at most once for
\* every wait since a whole frame, and at least once for every wait since
\* anything at all was read, up to the cap.
THEOREM BackoffFitsHolds == Spec => []BackoffFits
<1>1. IInv => BackoffFits
    BY DEF IInv
<1> QED
    BY <1>1, Invariance, PTL
=============================================================================
