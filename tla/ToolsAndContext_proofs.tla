---------------------- MODULE ToolsAndContext_proofs ----------------------
(***************************************************************************)
(* Theorems about Toolbox, for every set of calls, every disk and any      *)
(* number of requests, and about SessionContext, for all lengths of texts  *)
(* and any number of turns, files and rounds.                              *)
(*                                                                         *)
(* Both are about what is computed along a sequence: the registry folds the*)
(* entries of a dictionary, replacing flattens the pieces of a text, and a *)
(* context is made of sums of lengths.  The first lemmas are about these, by*)
(* induction over the length.  The library's principles of induction are   *)
(* about operators; the one here is about sets, and comes from a least     *)
(* counterexample.  Both halves of the module rest on it.                  *)
(***************************************************************************)
EXTENDS Toolbox, SessionContext, FiniteSetTheorems, SequenceTheorems, WellFoundedInduction, TLAPS

-----------------------------------------------------------------------------
(* Induction.                                                              *)

\* Every set of naturals that is not empty has a least element.
LEMMA LeastExists ==
    ASSUME NEW T, T \subseteq Nat, T # {}
    PROVE  \E x \in T : \A y \in T : x <= y
<1>1. PICK n \in T : TRUE
    OBVIOUS
<1>2. IsWellFoundedOn(StrictSubsetOrdering(0 .. n), SUBSET (0 .. n))
    <2>1. IsFiniteSet(0 .. n)
        BY FS_Interval
    <2>2. FiniteSubsetsOf(0 .. n) = SUBSET (0 .. n)
        BY <2>1, FS_FiniteSubsetsOfFinite
    <2> QED
        BY <2>2, FS_StrictSubsetOrderingWellFounded
<1> DEFINE U == {0 .. k : k \in T \cap 0 .. n}
<1>3. U \subseteq SUBSET (0 .. n) /\ U # {}
    OBVIOUS
<1>4. PICK u \in U : \A v \in U : ~(<<v, u>> \in StrictSubsetOrdering(0 .. n))
    <2> HIDE DEF U
    <2> DEFINE R == StrictSubsetOrdering(0 .. n)
               S == SUBSET (0 .. n)
    <2>1. IsWellFoundedOn(R, S) /\ U \subseteq S /\ U # {}
        BY <1>2, <1>3
    <2> HIDE DEF R, S
    <2>2. \E u \in U : \A v \in U : ~(<<v, u>> \in R)
        BY <2>1, WFMin
    <2> QED
        BY <2>2 DEF R
<1>5. PICK x \in T \cap 0 .. n : u = 0 .. x
    BY <1>4
<1>6. ASSUME NEW y \in T, y < x PROVE FALSE
    <2>1. (0 .. y) \in U /\ 0 .. y \subseteq u /\ 0 .. y # u
        BY <1>5, <1>6
    <2>2. <<0 .. y, u>> \in StrictSubsetOrdering(0 .. n)
        BY <2>1, <1>3 DEF StrictSubsetOrdering
    <2> QED
        BY <2>1, <2>2, <1>4
<1>7. QED
    BY <1>5, <1>6

\* A set that holds 0, and with each number below n the next one, holds all
\* numbers up to n.
LEMMA UpTo ==
    ASSUME NEW n \in Nat, NEW T, 0 \in T, \A i \in 0 .. n - 1 : i \in T => i + 1 \in T
    PROVE  \A i \in 0 .. n : i \in T
<1> SUFFICES ASSUME (0 .. n) \ T # {} PROVE FALSE
    OBVIOUS
<1>1. (0 .. n) \ T \subseteq Nat
    OBVIOUS
<1>2. PICK x \in (0 .. n) \ T : \A y \in (0 .. n) \ T : x <= y
    BY <1>1, LeastExists
<1>3. x # 0 /\ x - 1 \in 0 .. n - 1
    BY <1>2
<1>4. x - 1 \in T
    BY <1>2, <1>3
<1>5. QED
    BY <1>2, <1>3, <1>4

-----------------------------------------------------------------------------
(* Flattened texts: what replacing a piece makes of a text.                *)

\* g[k] is s[1] .. s[k] joined.
Joins(s, k, g) == g = [i \in 1 .. k |-> IF i = 1 THEN s[i] ELSE g[i - 1] \o s[i]]

\* The recursive function of FlattenSeq exists.
LEMMA JoinExists ==
    ASSUME NEW n \in Nat, NEW s
    PROVE  \E g : Joins(s, n, g)
<1> DEFINE T == {k \in 0 .. n : \E g : Joins(s, k, g)}
<1>1. 0 \in T
    <2>1. \A g : g = <<>> => Joins(s, 0, g)
        BY DEF Joins
    <2> QED
        BY <2>1
<1>2. ASSUME NEW k \in 0 .. n - 1, k \in T PROVE k + 1 \in T
    <2>1. PICK g : Joins(s, k, g)
        BY <1>2
    <2> DEFINE h == [i \in 1 .. k + 1 |-> IF i = 1 THEN s[1]
                                          ELSE IF i = k + 1 THEN g[k] \o s[k + 1] ELSE g[i]]
    <2>2. \A i \in 1 .. k : h[i] = g[i]
        BY <2>1 DEF Joins
    <2>3. \A i \in 1 .. k : g[i] = IF i = 1 THEN s[i] ELSE g[i - 1] \o s[i]
        BY <2>1 DEF Joins
    <2>4. ASSUME NEW i \in 1 .. k + 1
          PROVE  h[i] = IF i = 1 THEN s[i] ELSE h[i - 1] \o s[i]
        <3>1. CASE i = 1
            BY <3>1
        <3>2. CASE i # 1 /\ i = k + 1
            <4>1. i - 1 = k /\ k \in 1 .. k
                BY <3>2
            <4>2. h[i] = g[k] \o s[k + 1]
                BY <3>2
            <4> QED
               BY <3>2, <4>1, <4>2, <2>2
        <3>3. CASE i # 1 /\ i # k + 1
            <4>1. i - 1 \in 1 .. k /\ i \in 1 .. k
                BY <3>3
            <4> HIDE DEF h
            <4> QED
                BY <4>1, <3>3, <2>2, <2>3
        <3> QED
            BY <3>1, <3>2, <3>3
    <2>5. Joins(s, k + 1, h)
        BY <2>4 DEF Joins
    <2> HIDE DEF h
    <2> QED
        BY <2>5
<1>3. n \in T
    <2> HIDE DEF T
    <2> QED
        BY <1>1, <1>2, UpTo
<1>4. QED
    BY <1>3

\* t is a text over S that contains what s[1] .. s[k] contain.
Gathers(S, s, k, t) ==
    t \in Seq(S) /\ \A x : x \in ToSet(t) <=> \E i \in 1 .. k : x \in ToSet(s[i])

\* What the flattening of a sequence of texts contains is what they contain.
LEMMA Flattened ==
    ASSUME NEW S, NEW s \in Seq(Seq(S))
    PROVE  /\ FlattenSeq(s) \in Seq(S)
           /\ \A x : x \in ToSet(FlattenSeq(s)) <=> \E i \in DOMAIN s : x \in ToSet(s[i])
<1>1. CASE s = <<>>
    BY <1>1 DEF FlattenSeq, ToSet
<1> DEFINE n == Len(s)
<1>2. DOMAIN s = 1 .. n /\ \A i \in 1 .. n : s[i] \in Seq(S)
    OBVIOUS
<1>3. CASE s # <<>>
    <2>1. n \in Nat \ {0}
        BY <1>3
    <2>2. PICK f : FlattenSeq(s) = f[n] /\ Joins(s, n, f)
        <3>1. FlattenSeq(s) = (CHOOSE g : g = [i \in 1 .. Len(s) |-> IF i = 1 THEN s[i]
                                                            ELSE g[i - 1] \o s[i]])[Len(s)]
            BY <2>1 DEF FlattenSeq
        <3>2. FlattenSeq(s) = (CHOOSE g : Joins(s, n, g))[n]
            BY <3>1 DEF Joins
        <3>3. Joins(s, n, CHOOSE g : Joins(s, n, g))
            BY <2>1, JoinExists
        <3> QED
            BY <3>2, <3>3
    <2> HIDE DEF n
    <2>3. \A i \in 1 .. n : f[i] = IF i = 1 THEN s[i] ELSE f[i - 1] \o s[i]
        BY <2>2 DEF Joins
    <2> DEFINE V == {k \in 0 .. n : k = 0 \/ Gathers(S, s, k, f[k])}
    <2>4. 0 \in V
        BY <2>1
    <2>5. ASSUME NEW k \in 0 .. n - 1, k \in V PROVE k + 1 \in V
        <3> SUFFICES Gathers(S, s, k + 1, f[k + 1])
            BY <2>1
        <3>1. k + 1 \in 1 .. n /\ s[k + 1] \in Seq(S)
            BY <1>2, <2>1
        <3>2. CASE k = 0
            <4>1. f[1] = s[1]
                BY <2>3, <3>1, <3>2
            <4> QED
                BY <4>1, <3>1, <3>2 DEF Gathers
        <3>3. CASE k # 0
            <4>1. Gathers(S, s, k, f[k])
                BY <2>5, <3>3
            <4>2. f[k + 1] = f[k] \o s[k + 1]
                <5>1. k + 1 # 1 /\ (k + 1) - 1 = k
                    BY <3>3, <2>1
                <5>2. f[k + 1] = f[(k + 1) - 1] \o s[k + 1]
                    BY <2>3, <3>1, <5>1
                <5> QED
                    BY <5>1, <5>2
            <4>3. f[k] \in Seq(S)
                BY <4>1 DEF Gathers
            <4> DEFINE t == f[k] u == s[k + 1]
            <4>4. t \in Seq(S) /\ u \in Seq(S)
                BY <3>1, <4>3
            <4> HIDE DEF t, u
            <4>5. t \o u \in Seq(S) /\ Range(t \o u) = Range(t) \cup Range(u)
                BY <4>4, RangeConcatenation
            <4>6. \A x : x \in ToSet(t \o u) <=> x \in ToSet(t) \/ x \in ToSet(u)
                BY <4>5 DEF ToSet, Range
            <4>7. \A x : x \in ToSet(t) <=> \E i \in 1 .. k : x \in ToSet(s[i])
                BY <4>1 DEF t, Gathers
            <4>8. \A i : i \in 1 .. k + 1 <=> i \in 1 .. k \/ i = k + 1
                OBVIOUS
            <4>9. \A x : x \in ToSet(t \o u) <=> \E i \in 1 .. k + 1 : x \in ToSet(s[i])
                BY <4>6, <4>7, <4>8 DEF u
            <4> QED
                BY <4>2, <4>5, <4>9 DEF t, u, Gathers
        <3> QED
            BY <3>2, <3>3
    <2>6. n \in V
        <3> HIDE DEF V
        <3>1. n \in Nat /\ n \in 0 .. n
            BY <2>1
        <3> QED
            BY <3>1, <2>4, <2>5, UpTo
    <2>7. Gathers(S, s, n, f[n])
        BY <2>1, <2>6
    <2> QED
        BY <1>2, <2>2, <2>7 DEF Gathers
<1> QED
    BY <1>1, <1>3

-----------------------------------------------------------------------------
(* The fold over the entries of a dictionary.                              *)

\* The greatest number of a set is Max of it.
LEMMA MaxOf ==
    ASSUME NEW S, NEW m \in S, S \subseteq Nat, \A x \in S : x <= m
    PROVE  Max(S) = m
<1> DEFINE P(y) == y \in S /\ \A x \in S : y >= x
<1>1. P(m)
    OBVIOUS
<1>2. Max(S) = CHOOSE y : P(y)
    BY DEF Max
<1>3. P(CHOOSE y : P(y))
    <2> HIDE DEF P
    <2> QED
        BY <1>1
<1>4. ASSUME NEW y, P(y) PROVE y = m
    <2>1. y >= m /\ m >= y /\ y \in Nat /\ m \in Nat
        BY <1>4
    <2> QED
        BY <2>1
<1>5. QED
    BY <1>2, <1>3, <1>4

\* g folds every set of the first k entries of w, from the first one on.
Folds(t, w, k, g) ==
    g = [s \in SUBSET (1 .. k) |-> IF s = {} THEN <<>>
                                   ELSE Take(t, g[s \ {Max(s)}], w[Max(s)])]

\* The recursive function of the fold exists.
LEMMA FoldExists ==
    ASSUME NEW t, NEW w, NEW n \in Nat
    PROVE  \E g : Folds(t, w, n, g)
<1> DEFINE T == {k \in 0 .. n : \E g : Folds(t, w, k, g)}
<1>1. 0 \in T
    <2> DEFINE g == [s \in SUBSET (1 .. 0) |-> <<>>]
    <2>1. g = [s \in SUBSET (1 .. 0) |-> IF s = {} THEN <<>>
                                   ELSE Take(t, g[s \ {Max(s)}], w[Max(s)])]
        OBVIOUS
    <2>2. Folds(t, w, 0, g)
        BY <2>1 DEF Folds
    <2> QED
        BY <2>2
<1>2. ASSUME NEW k \in 0 .. n - 1, k \in T PROVE k + 1 \in T
    <2>1. PICK g : Folds(t, w, k, g)
        BY <1>2
    <2> DEFINE h == [s \in SUBSET (1 .. k + 1) |-> IF k + 1 \in s
                        THEN Take(t, g[s \ {k + 1}], w[k + 1]) ELSE g[s]]
    <2>2. \A s \in SUBSET (1 .. k) : s \in SUBSET (1 .. k + 1) /\ k + 1 \notin s
        OBVIOUS
    <2>3. \A s \in SUBSET (1 .. k) : h[s] = g[s]
        BY <2>2
    <2>4. \A s \in SUBSET (1 .. k) :
             g[s] = IF s = {} THEN <<>> ELSE Take(t, g[s \ {Max(s)}], w[Max(s)])
        BY <2>1 DEF Folds
    <2>5. ASSUME NEW s \in SUBSET (1 .. k + 1)
          PROVE  h[s] = IF s = {} THEN <<>> ELSE Take(t, h[s \ {Max(s)}], w[Max(s)])
        <3>1. CASE k + 1 \in s
            <4>1. \A x \in s : x \in Nat /\ x <= k + 1
                OBVIOUS
            <4>2. Max(s) = k + 1
                BY <3>1, <4>1, MaxOf
            <4>3. s \ {k + 1} \in SUBSET (1 .. k)
                OBVIOUS
            <4>4. h[s \ {k + 1}] = g[s \ {k + 1}]
                BY <4>3, <2>3
            <4>5. h[s] = Take(t, g[s \ {k + 1}], w[k + 1])
                BY <3>1
            <4> HIDE DEF h
            <4> QED
                BY <3>1, <4>2, <4>4, <4>5
        <3>2. CASE k + 1 \notin s
            <4>1. \A x \in s : x \in 1 .. k
                <5>1. \A x \in 1 .. k + 1 : x # k + 1 => x \in 1 .. k
                    OBVIOUS
                <5> QED
                    BY <5>1, <3>2
            <4>2. s \in SUBSET (1 .. k) /\ s \ {Max(s)} \in SUBSET (1 .. k)
                BY <4>1
            <4> HIDE DEF h
            <4> QED
                BY <4>2, <2>3, <2>4
        <3> QED
            BY <3>1, <3>2
    <2>6. Folds(t, w, k + 1, h)
        BY <2>5 DEF Folds
    <2> HIDE DEF h
    <2> QED
        BY <2>6
<1>3. n \in T
    <2> HIDE DEF T
    <2> QED
        BY <1>1, <1>2, UpTo
<1>4. QED
    BY <1>3

\* a[i] is what the first i of n entries have given.
Course(t, w, n, a) ==
    a[0] = <<>> /\ \A i \in 0 .. n - 1 : a[i + 1] = Take(t, a[i], w[i + 1])

\* Normalising takes one entry after the other.
LEMMA NormalizeCourse ==
    ASSUME NEW t, NEW w, NEW n \in Nat, DOMAIN w = 1 .. n
    PROVE  \E a : Course(t, w, n, a) /\ Normalize(t, w) = a[n]
<1>1. PICK g : Folds(t, w, n, g) /\ Normalize(t, w) = g[1 .. n]
    <2>1. Normalize(t, w) = (CHOOSE g : g = [s \in SUBSET DOMAIN w |-> IF s = {} THEN <<>>
                                   ELSE Take(t, g[s \ {Max(s)}], w[Max(s)])])[DOMAIN w]
        BY DEF Normalize, FoldLeft, MapThenFoldSet
    <2>2. Normalize(t, w) = (CHOOSE g : Folds(t, w, n, g))[1 .. n]
        BY <2>1 DEF Folds
    <2>3. Folds(t, w, n, CHOOSE g : Folds(t, w, n, g))
        BY FoldExists
    <2> QED
        BY <2>2, <2>3
<1>2. \A s \in SUBSET (1 .. n) :
         g[s] = IF s = {} THEN <<>> ELSE Take(t, g[s \ {Max(s)}], w[Max(s)])
    BY <1>1 DEF Folds
<1> DEFINE a == [i \in 0 .. n |-> g[1 .. i]]
<1>3. a[0] = <<>>
    <2>1. 1 .. 0 = {} /\ {} \in SUBSET (1 .. n)
        OBVIOUS
    <2>2. g[{}] = <<>>
        BY <1>2, <2>1
    <2> QED
        BY <2>1, <2>2
<1>4. ASSUME NEW i \in 0 .. n - 1 PROVE a[i + 1] = Take(t, a[i], w[i + 1])
    <2> DEFINE s == 1 .. i + 1
    <2>1. s \in SUBSET (1 .. n) /\ i + 1 \in s /\ \A x \in s : x \in Nat /\ x <= i + 1
        OBVIOUS
    <2>2. s \ {i + 1} = 1 .. i
        OBVIOUS
    <2> HIDE DEF s
    <2>3. Max(s) = i + 1
        BY <2>1, MaxOf
    <2>4. g[s] = Take(t, g[s \ {Max(s)}], w[Max(s)])
        BY <1>2, <2>1
    <2>5. g[s] = Take(t, g[1 .. i], w[i + 1])
        BY <2>2, <2>3, <2>4
    <2>6. a[i] = g[1 .. i] /\ a[i + 1] = g[s]
        BY DEF s
    <2> HIDE DEF a
    <2> QED
        BY <2>5, <2>6
<1>5. Normalize(t, w) = a[n]
    BY <1>1
<1>6. Course(t, w, n, a)
    BY <1>3, <1>4 DEF Course
<1> HIDE DEF a
<1> QED
    BY <1>5, <1>6


-----------------------------------------------------------------------------
(* What the registry hands to a handler.                                   *)

\* An alias stands for an argument its tool takes.
LEMMA AliasTargets ==
    ASSUME NEW t \in Tool, NEW x \in DOMAIN Aliases(t)
    PROVE  Aliases(t)[x] \in Allowed(t)
<1> USE DEF Aliases, Allowed, Required, Optional, Writing, Looking
<1>1. CASE t \in Writing
    BY <1>1
<1>2. CASE t \in Looking \cup {"file_delete"}
    BY <1>2
<1>3. CASE t = "create_directory"
    BY <1>3
<1>4. CASE t = "modify_file"
    BY <1>4
<1>5. CASE t = "file_copy"
    BY <1>5
<1>6. CASE t = "generate_tests"
    BY <1>6
<1>7. CASE t = "create_project"
    BY <1>7
<1>8. CASE t = "execute_command"
    BY <1>8
<1> QED
    BY <1>1, <1>2, <1>3, <1>4, <1>5, <1>6, <1>7, <1>8
       DEF Tool, FileTool, DevelopmentTool, ProjectTool, CommandTool

\* j is the entry that gives the argument k its value, when i entries were taken.
Gives(c, i, j, k) ==
    \/ j \in Written(c, k)
    \/ /\ j \in Spellings(c, k)
       /\ \A m \in 1 .. i : m \notin Written(c, k) /\ (m < j => m \notin Spellings(c, k))

\* What a holds when i entries were taken.
Taken(c, i, a) ==
    /\ \A k : k \in DOMAIN a <=>
          k \in Allowed(c.tool) /\ \E j \in 1 .. i : j \in Spellings(c, k)
    /\ \A k \in DOMAIN a : \E j \in 1 .. i : a[k] = c.args[j][2] /\ Gives(c, i, j, k)

\* Taking an entry keeps to that.
LEMMA TakeKeeps ==
    ASSUME NEW c \in Arguments, NEW n \in Nat, DOMAIN c.args = 1 .. n,
           NEW i \in 0 .. n - 1, NEW a, Taken(c, i, a)
    PROVE  Taken(c, i + 1, Take(c.tool, a, c.args[i + 1]))
<1> DEFINE x == c.args[i + 1][1]
           v == c.args[i + 1][2]
           b == Take(c.tool, a, c.args[i + 1])
           t == c.tool
<1>1. i + 1 \in DOMAIN c.args /\ i \in Nat
    OBVIOUS
<1>2. \A j : j \in 1 .. i + 1 <=> j \in 1 .. i \/ j = i + 1
    OBVIOUS
<1>3. \A k : i + 1 \in Written(c, k) <=> x = k
    BY <1>1 DEF Written
<1>4. \A k : i + 1 \in Spellings(c, k) <=>
         x = k \/ (x \in DOMAIN Aliases(t) /\ x \notin Allowed(t) /\ Aliases(t)[x] = k)
    BY <1>1 DEF Spellings
<1>5. \A j, k : j \in Written(c, k) => j \in Spellings(c, k)
    BY DEF Written, Spellings
<1>6. \A j \in 1 .. i : j < i + 1 /\ ~(i + 1 < j)
    BY <1>1
<1>7. t \in Tool
    BY DEF Arguments
<1>8. ASSUME NEW k \in Allowed(t), b = Set(a, k, v), 
             x = k \/ (k \notin DOMAIN a /\ x \notin Allowed(t) /\ i + 1 \in Spellings(c, k)),
             \A l \in Allowed(t) : i + 1 \in Spellings(c, l) => l = k
      PROVE  Taken(c, i + 1, b)
    <2>1. DOMAIN b = DOMAIN a \cup {k} /\ b[k] = v /\ \A l \in DOMAIN a \ {k} : b[l] = a[l]
        BY <1>8 DEF Set
    <2>2. i + 1 \in Spellings(c, k)
        BY <1>4, <1>8
    <2>3. Gives(c, i + 1, i + 1, k)
        <3>1. CASE x = k
            BY <1>3, <3>1 DEF Gives
        <3>2. CASE x # k
            <4>1. k \notin DOMAIN a
                BY <1>8, <3>2
            <4>2. \A j \in 1 .. i : j \notin Spellings(c, k)
                BY <4>1 DEF Taken
            <4> QED
                BY <4>2, <3>2, <2>2, <1>2, <1>3, <1>5, <1>6 DEF Gives
        <3> QED
            BY <3>1, <3>2
    <2>4. ASSUME NEW l \in DOMAIN a \ {k}
          PROVE  \E j \in 1 .. i + 1 : b[l] = c.args[j][2] /\ Gives(c, i + 1, j, l)
        <3>1. PICK j \in 1 .. i : a[l] = c.args[j][2] /\ Gives(c, i, j, l)
            BY DEF Taken
        <3>2. l \in Allowed(t)
            BY DEF Taken
        <3>3. i + 1 \notin Spellings(c, l) /\ i + 1 \notin Written(c, l)
            BY <3>2, <1>5, <1>8
        <3>4. Gives(c, i + 1, j, l)
            BY <3>1, <3>3, <1>2 DEF Gives
        <3> QED
            BY <3>1, <3>4, <2>1, <1>2
    <2>5. \A l : l \in DOMAIN b <=>
             l \in Allowed(t) /\ \E j \in 1 .. i + 1 : j \in Spellings(c, l)
        BY <2>1, <2>2, <1>2, <1>8 DEF Taken
    <2> HIDE DEF b
    <2>6. \E j \in 1 .. i + 1 : b[k] = c.args[j][2] /\ Gives(c, i + 1, j, k)
        BY <2>1, <2>3, <1>1
    <2> QED
        BY <2>1, <2>4, <2>5, <2>6 DEF Taken
<1>9. ASSUME b = a, x \notin Allowed(t),
             \A l \in Allowed(t) : i + 1 \in Spellings(c, l) => l \in DOMAIN a
      PROVE  Taken(c, i + 1, b)
    <2>1. \A l \in Allowed(t) : i + 1 \notin Written(c, l)
        BY <1>3, <1>9
    <2>2. ASSUME NEW l \in DOMAIN a
          PROVE  \E j \in 1 .. i + 1 : a[l] = c.args[j][2] /\ Gives(c, i + 1, j, l)
        <3>1. PICK j \in 1 .. i : a[l] = c.args[j][2] /\ Gives(c, i, j, l)
            BY DEF Taken
        <3>2. l \in Allowed(t)
            BY DEF Taken
        <3>3. Gives(c, i + 1, j, l)
            BY <3>1, <3>2, <2>1, <1>2, <1>6 DEF Gives
        <3> QED
            BY <3>1, <3>3, <1>2
    <2>3. \A l : l \in DOMAIN a <=>
             l \in Allowed(t) /\ \E j \in 1 .. i + 1 : j \in Spellings(c, l)
        BY <1>2, <1>9 DEF Taken
    <2> HIDE DEF b
    <2> QED
        BY <2>2, <2>3, <1>9 DEF Taken
<1>10. CASE x \in Allowed(t)
    <2>1. b = Set(a, x, v)
        BY <1>10 DEF Take
    <2> QED
        BY <2>1, <1>4, <1>8, <1>10
<1>11. CASE x \notin Allowed(t) /\ x \in DOMAIN Aliases(t) /\ Aliases(t)[x] \notin DOMAIN a
    <2>1. b = Set(a, Aliases(t)[x], v) /\ Aliases(t)[x] \in Allowed(t)
        BY <1>7, <1>11, AliasTargets DEF Take
    <2> QED
        BY <2>1, <1>4, <1>8, <1>11
<1>12. CASE x \notin Allowed(t) /\ ~(x \in DOMAIN Aliases(t) /\ Aliases(t)[x] \notin DOMAIN a)
    <2>1. b = a
        BY <1>12 DEF Take
    <2> QED
        BY <2>1, <1>4, <1>9, <1>12
<1> QED
    BY <1>10, <1>11, <1>12

\* Normalising gives every argument that was written, by the value of its own
\* name, or of its first alias.
LEMMA NormalizedArguments ==
    ASSUME NEW c \in Arguments
    PROVE  /\ \A k : k \in DOMAIN Normalize(c.tool, c.args) <=>
                k \in Allowed(c.tool) /\ Spellings(c, k) # {}
           /\ \A k \in DOMAIN Normalize(c.tool, c.args) :
                /\ Chosen(c, k) \in DOMAIN c.args
                /\ Normalize(c.tool, c.args)[k] = c.args[Chosen(c, k)][2]
<1> DEFINE n == Len(c.args)
<1>1. n \in Nat /\ DOMAIN c.args = 1 .. n
    BY DEF Arguments
<1> HIDE DEF n
<1>2. PICK a : Course(c.tool, c.args, n, a) /\ Normalize(c.tool, c.args) = a[n]
    BY <1>1, NormalizeCourse
<1> DEFINE T == {i \in 0 .. n : Taken(c, i, a[i])}
<1>3. 0 \in T
    <2>1. DOMAIN a[0] = {} /\ \A j : j \notin 1 .. 0
        BY <1>2 DEF Course
    <2>2. Taken(c, 0, a[0])
        BY <2>1 DEF Taken
    <2> QED
        BY <2>2, <1>1
<1>4. ASSUME NEW i \in 0 .. n - 1, i \in T PROVE i + 1 \in T
    <2>1. Taken(c, i + 1, Take(c.tool, a[i], c.args[i + 1]))
        BY <1>1, <1>4, TakeKeeps
    <2> QED
        BY <2>1, <1>1, <1>2 DEF Course
<1>5. Taken(c, n, Normalize(c.tool, c.args))
    <2>1. n \in T
        <3>1. \A i \in 0 .. n - 1 : i \in T => i + 1 \in T
            BY <1>4
        <3> HIDE DEF T
        <3>2. \A i \in 0 .. n : i \in T
            BY <1>1, <1>3, <3>1, UpTo
        <3> QED
            BY <1>1, <3>2
    <2> QED
        BY <2>1, <1>2
<1>6. \A k : Spellings(c, k) # {} <=> \E j \in 1 .. n : j \in Spellings(c, k)
    BY <1>1 DEF Spellings
<1>7. ASSUME NEW k, NEW j \in 1 .. n, Gives(c, n, j, k)
      PROVE  Chosen(c, k) = j
    <2>1. CASE j \in Written(c, k)
        <3>1. Written(c, k) = {j}
            BY <2>1 DEF Written, Arguments
        <3>2. Least({j}) = j
            BY <1>1 DEF Least
        <3> QED
            BY <3>1, <3>2 DEF Chosen
    <2>2. CASE j \notin Written(c, k)
        <3>1. Written(c, k) = {}
            BY <2>2, <1>1, <1>7 DEF Gives, Written
        <3>2. j \in Spellings(c, k) /\ Spellings(c, k) \subseteq 1 .. n
            BY <2>2, <1>1, <1>7 DEF Gives, Spellings
        <3>3. \A m \in Spellings(c, k) : ~(m < j)
            BY <3>2, <2>2, <1>7 DEF Gives
        <3>4. Least(Spellings(c, k)) = j
            <4> DEFINE P(m) == m \in Spellings(c, k) /\ \A l \in Spellings(c, k) : m <= l
            <4>1. P(j)
                BY <3>2, <3>3, <1>1
            <4>2. \A m : P(m) => m = j
                BY <4>1, <3>2, <1>1
            <4>3. Least(Spellings(c, k)) = CHOOSE m : P(m)
                BY DEF Least
            <4> HIDE DEF P
            <4> QED
                BY <4>1, <4>2, <4>3
        <3> QED
            BY <3>1, <3>4 DEF Chosen
    <2> QED
        BY <2>1, <2>2
<1> DEFINE b == Normalize(c.tool, c.args)
<1> HIDE DEF b
<1>8. Taken(c, n, b)
    BY <1>5 DEF b
<1>9. \A k : k \in DOMAIN b <=> k \in Allowed(c.tool) /\ Spellings(c, k) # {}
    BY <1>6, <1>8 DEF Taken
<1>10. ASSUME NEW k \in DOMAIN b
       PROVE  Chosen(c, k) \in DOMAIN c.args /\ b[k] = c.args[Chosen(c, k)][2]
    <2>1. PICK j \in 1 .. n : b[k] = c.args[j][2] /\ Gives(c, n, j, k)
        BY <1>8 DEF Taken
    <2> QED
        BY <2>1, <1>1, <1>7
<1> QED
    BY <1>9, <1>10 DEF b

\* The arguments a tool can be handed: all that was written, and what one repair
\* may add or replace.
LEMMA HandedArguments ==
    ASSUME NEW c \in Arguments, NEW k \in DOMAIN Handed(c)
    PROVE  /\ k \in Allowed(c.tool)
           /\ Handed(c)[k] \in Word
           /\ \/ k = "mode" /\ Spellings(c, k) = {}
              \/ /\ Spellings(c, k) # {}
                 /\ \/ Handed(c)[k] = c.args[Chosen(c, k)][2]
                    \/ /\ c.args[Chosen(c, k)][2] \in Number
                       /\ Handed(c)[k] = Str[c.args[Chosen(c, k)][2]]
<1> DEFINE t == c.tool
           a == Normalize(t, c.args)
           v(l) == c.args[Chosen(c, l)][2]
<1>1. \A l : l \in DOMAIN a <=> l \in Allowed(t) /\ Spellings(c, l) # {}
    BY NormalizedArguments
<1>2. \A l \in DOMAIN a : a[l] = v(l) /\ Chosen(c, l) \in DOMAIN c.args
    BY NormalizedArguments
<1>3. \A i \in DOMAIN c.args : c.args[i] \in Word \X Word
    BY DEF Arguments
<1>4. \A l \in DOMAIN a : v(l) \in Word
    BY <1>2, <1>3
<1> HIDE DEF a, v
<1>5. Handed(c) \in {a, Repaired(t, a)}
    BY DEF Handed, a
<1>6. CASE Handed(c) = a
    BY <1>1, <1>2, <1>4, <1>6 DEF v
<1>7. ASSUME NEW m \in {"replace", "overwrite"}, Missing(t, a) = {"mode"}, Handed(c) = Set(a, "mode", m)
      PROVE  /\ k \in Allowed(t)
             /\ Handed(c)[k] \in Word
             /\ \/ k = "mode" /\ Spellings(c, k) = {}
                \/ Spellings(c, k) # {} /\ Handed(c)[k] = v(k)
    <2>1. "mode" \in Required(t) /\ "mode" \notin DOMAIN a
        BY <1>7 DEF Missing
    <2>2. "mode" \in Allowed(t) /\ Spellings(c, "mode") = {}
        BY <2>1, <1>1 DEF Allowed
    <2>3. CASE k = "mode"
        <3>1. Handed(c)[k] = m
            BY <2>3, <1>7 DEF Set
        <3>2. m \in Word
            BY ToolboxAssumption
        <3> QED
            BY <2>2, <2>3, <3>1, <3>2
    <2>4. CASE k # "mode"
        <3>1. k \in DOMAIN a /\ Handed(c)[k] = a[k]
            BY <2>4, <1>7 DEF Set
        <3> QED
            BY <3>1, <1>1, <1>2, <1>4
    <2> QED
        BY <2>3, <2>4
<1>8. ASSUME NEW l \in NotStrings(t, a), Handed(c) = Set(a, l, Str[a[l]])
      PROVE  /\ k \in Allowed(t)
             /\ Handed(c)[k] \in Word
             /\ Spellings(c, k) # {}
             /\ Handed(c)[k] = v(k) \/ (v(k) \in Number /\ Handed(c)[k] = Str[v(k)])
    <2>1. l \in DOMAIN a /\ a[l] \in Number /\ Str[a[l]] \in Word
        BY ToolboxAssumption DEF NotStrings
    <2>2. k \in DOMAIN a /\ Handed(c)[k] = IF k = l THEN Str[a[l]] ELSE a[k]
        BY <2>1, <1>8 DEF Set
    <2> QED
        BY <2>1, <2>2, <1>1, <1>2, <1>4
<1>9. \/ Handed(c) = a
      \/ \E m \in {"replace", "overwrite"} :
            Missing(t, a) = {"mode"} /\ Handed(c) = Set(a, "mode", m)
      \/ \E l \in NotStrings(t, a) : Handed(c) = Set(a, l, Str[a[l]])
    BY <1>5 DEF Repaired
<1> QED
    BY <1>6, <1>7, <1>8, <1>9 DEF v

\* The value of an argument, "" if there is none, is a string.
LEMMA ArgIsString ==
    ASSUME NEW c \in Arguments, NEW k
    PROVE  Arg(Handed(c), k) \in Word
<1>1. CASE k \in DOMAIN Handed(c)
    BY <1>1, HandedArguments DEF Arg
<1>2. CASE k \notin DOMAIN Handed(c)
    BY <1>2, ToolboxAssumption DEF Arg
<1> QED
    BY <1>1, <1>2

-----------------------------------------------------------------------------
(* What an edit makes of a text.                                           *)

\* A joined text contains what its parts contain.
LEMMA JoinedText ==
    ASSUME NEW u \in Seq(Word), NEW v \in Seq(Word)
    PROVE  u \o v \in Seq(Word) /\ ToSet(u \o v) = ToSet(u) \cup ToSet(v)
<1>1. u \o v \in Seq(Word) /\ Range(u \o v) = Range(u) \cup Range(v)
    BY RangeConcatenation
<1> QED
    BY <1>1 DEF ToSet, Range

\* A value is one piece, or none if it is empty.
LEMMA PiecesOf ==
    ASSUME NEW v \in Word
    PROVE  Pieces(v) \in Seq(Word) /\ ToSet(Pieces(v)) = Whole(v) /\ Whole(v) \subseteq Word
<1>1. CASE v = ""
    <2>1. <<>> \in Seq(Word)
        OBVIOUS
    <2>2. ToSet(<<>>) = {}
        BY DEF ToSet
    <2>3. Pieces(v) = <<>>
        BY <1>1 DEF Pieces
    <2> QED
        BY <2>1, <2>2, <2>3 DEF Whole
<1>2. CASE v # ""
    <2>1. <<v>> \in Seq(Word)
        OBVIOUS
    <2>2. ToSet(<<v>>) = {v}
        BY DEF ToSet
    <2>3. Pieces(v) = <<v>>
        BY <1>2 DEF Pieces
    <2> QED
        BY <2>1, <2>2, <2>3 DEF Whole
<1> QED
    BY <1>1, <1>2

\* A text consists of a piece and of what is before and behind it.
LEMMA Parts ==
    ASSUME NEW s \in Seq(Word), NEW i \in DOMAIN s
    PROVE  /\ SubSeq(s, 1, i - 1) \in Seq(Word)
           /\ SubSeq(s, i + 1, Len(s)) \in Seq(Word)
           /\ ToSet(s) = ToSet(SubSeq(s, 1, i - 1)) \cup {s[i]} \cup ToSet(SubSeq(s, i + 1, Len(s)))
<1> DEFINE n == Len(s)
           u == SubSeq(s, 1, i - 1)
           v == SubSeq(s, i + 1, n)
<1>1. n \in Nat /\ DOMAIN s = 1 .. n /\ i \in 1 .. n /\ \A j \in 1 .. n : s[j] \in Word
    OBVIOUS
<1>2. u \in Seq(Word) /\ Len(u) = i - 1 /\ \A j \in 1 .. i - 1 : u[j] = s[j]
    <2>1. \A j \in 1 .. i - 1 : s[j] \in Word
        BY <1>1
    <2> QED
        BY <1>1, <2>1, SubSeqProperties
<1>3. v \in Seq(Word) /\ Len(v) = n - i /\ \A j \in 1 .. n - i : v[j] = s[i + j]
    <2>1. \A j \in i + 1 .. n : s[j] \in Word
        BY <1>1
    <2>2. Len(v) = n - i /\ v \in Seq(Word)
        BY <1>1, <2>1, SubSeqProperties
    <2>3. \A j \in 1 .. n - (i + 1) + 1 : v[j] = s[(i + 1) + j - 1]
        BY <1>1, <2>1, SubSeqProperties
    <2>4. \A j \in 1 .. n - i : (i + 1) + j - 1 = i + j /\ j \in 1 .. n - (i + 1) + 1
        BY <1>1
    <2> QED
        BY <2>2, <2>3, <2>4
<1> HIDE DEF n, u, v
<1>4. DOMAIN u = 1 .. i - 1 /\ DOMAIN v = 1 .. n - i
    BY <1>1, <1>2, <1>3
<1>5. \A x : x \in ToSet(s) <=> \E j \in 1 .. n : s[j] = x
    BY <1>1 DEF ToSet
<1>6. \A x : x \in ToSet(u) <=> \E j \in 1 .. i - 1 : s[j] = x
    BY <1>2, <1>4 DEF ToSet
<1>7. \A x : x \in ToSet(v) <=> \E j \in 1 .. n - i : s[i + j] = x
    BY <1>3, <1>4 DEF ToSet
<1>8. ASSUME NEW x \in ToSet(s) PROVE x \in ToSet(u) \/ x = s[i] \/ x \in ToSet(v)
    <2>1. PICK j \in 1 .. n : s[j] = x
        BY <1>5
    <2>2. CASE j < i
        BY <2>1, <2>2, <1>1, <1>6
    <2>3. CASE i < j
        <3>1. j - i \in 1 .. n - i /\ i + (j - i) = j
            BY <2>1, <2>3, <1>1
        <3> QED
            BY <3>1, <2>1, <1>7
    <2> QED
        BY <2>1, <2>2, <2>3, <1>1
<1>9. ASSUME NEW x \in ToSet(u) \cup {s[i]} \cup ToSet(v) PROVE x \in ToSet(s)
    <2>1. \A j \in 1 .. i - 1 : j \in 1 .. n
        BY <1>1
    <2>2. \A j \in 1 .. n - i : i + j \in 1 .. n
        BY <1>1
    <2> QED
        BY <2>1, <2>2, <1>1, <1>5, <1>6, <1>7
<1> QED
    BY <1>2, <1>3, <1>8, <1>9 DEF n, u, v

\* The first occurrence of a piece that is there.
LEMMA FirstOccurs ==
    ASSUME NEW s \in Seq(Word), NEW x \in ToSet(s)
    PROVE  First(s, x) \in DOMAIN s /\ s[First(s, x)] = x
<1> DEFINE T == {i \in DOMAIN s : s[i] = x}
           P(i) == i \in DOMAIN s /\ s[i] = x /\ \A j \in 1 .. i - 1 : s[j] # x
<1>1. T \subseteq Nat /\ T # {}
    BY DEF ToSet
<1>2. PICK i \in T : \A j \in T : i <= j
    BY <1>1, LeastExists
<1>3. P(i)
    <2>1. \A j \in 1 .. i - 1 : j \in DOMAIN s /\ ~(i <= j)
        BY <1>1
    <2> QED
        BY <2>1, <1>2
<1>4. First(s, x) = CHOOSE k : P(k)
    BY DEF First
<1>5. P(CHOOSE k : P(k))
    <2> HIDE DEF P
    <2> QED
        BY <1>3
<1> QED
    BY <1>4, <1>5

\* An insertion keeps the text and what is inserted.
LEMMA AroundKeeps ==
    ASSUME NEW s \in Seq(Word), NEW i \in DOMAIN s, NEW b \in Seq(Word), NEW a \in Seq(Word)
    PROVE  /\ Around(s, i, b, a) \in Seq(Word)
           /\ ToSet(Around(s, i, b, a)) = ToSet(s) \cup ToSet(b) \cup ToSet(a)
<1> DEFINE u == SubSeq(s, 1, i - 1)
           v == SubSeq(s, i + 1, Len(s))
           m == <<s[i]>>
<1>1. u \in Seq(Word) /\ v \in Seq(Word) /\ ToSet(s) = ToSet(u) \cup {s[i]} \cup ToSet(v)
    BY Parts
<1>2. m \in Seq(Word) /\ ToSet(m) = {s[i]}
    BY DEF ToSet
<1>3. Around(s, i, b, a) = u \o b \o m \o a \o v
    BY DEF Around
<1> HIDE DEF u, v, m
<1>4. u \o b \in Seq(Word) /\ ToSet(u \o b) = ToSet(u) \cup ToSet(b)
    BY <1>1, JoinedText
<1>5. u \o b \o m \in Seq(Word) /\ ToSet(u \o b \o m) = ToSet(u) \cup ToSet(b) \cup {s[i]}
    BY <1>2, <1>4, JoinedText
<1>6. /\ u \o b \o m \o a \in Seq(Word)
      /\ ToSet(u \o b \o m \o a) = ToSet(u) \cup ToSet(b) \cup {s[i]} \cup ToSet(a)
    BY <1>5, JoinedText
<1>7. /\ u \o b \o m \o a \o v \in Seq(Word)
      /\ ToSet(u \o b \o m \o a \o v) = ToSet(u) \cup ToSet(b) \cup {s[i]} \cup ToSet(a) \cup ToSet(v)
    BY <1>1, <1>6, JoinedText
<1> QED
    BY <1>1, <1>3, <1>7

\* An edit keeps the pieces it does not take away, and adds its own.
LEMMA EditKeeps ==
    ASSUME NEW c \in Arguments, NEW s \in Seq(Word), NEW k, k \subseteq ToSet(s),
           Handed(c)["mode"] \in Mode,
           Handed(c)["mode"] \in Searching => Arg(Handed(c), "search") \in ToSet(s)
    PROVE  /\ Edit(Handed(c), s) \in Seq(Word)
           /\ (k \ Gone(Handed(c), k)) \cup Added(Handed(c)) \subseteq ToSet(Edit(Handed(c), s))
           /\ Added(Handed(c)) \subseteq Word
<1> DEFINE a == Handed(c)
           m == a["mode"]
           x == Arg(a, "search")
           new == Pieces(Arg(a, "content"))
           y == Pieces(Arg(a, "replacement"))
<1>1. /\ new \in Seq(Word) /\ ToSet(new) = Whole(Arg(a, "content"))
      /\ Whole(Arg(a, "content")) \subseteq Word
    BY ArgIsString, PiecesOf
<1>2. /\ y \in Seq(Word) /\ ToSet(y) = Whole(Arg(a, "replacement"))
      /\ Whole(Arg(a, "replacement")) \subseteq Word
    BY ArgIsString, PiecesOf
<1>3. /\ m = "overwrite" => Gone(a, k) = k
      /\ m \in {"replace", "replace_first"} =>
            Gone(a, k) = {x} /\ Added(a) = Whole(Arg(a, "replacement"))
      /\ m \notin {"replace", "replace_first"} => Added(a) = Whole(Arg(a, "content"))
    BY DEF Gone, Added
<1>4. /\ m = "overwrite" => Edit(a, s) = new
      /\ m = "append" => Edit(a, s) = s \o new
      /\ m = "prepend" => Edit(a, s) = new \o s
      /\ m = "replace" => Edit(a, s) =
            FlattenSeq([i \in DOMAIN s |-> IF s[i] = x THEN y ELSE <<s[i]>>])
      /\ m = "replace_first" => Edit(a, s) =
            SubSeq(s, 1, First(s, x) - 1) \o y \o SubSeq(s, First(s, x) + 1, Len(s))
      /\ m = "insert_after" => Edit(a, s) = Around(s, First(s, x), <<>>, new)
      /\ m = "insert_before" => Edit(a, s) = Around(s, First(s, x), new, <<>>)
    BY DEF Edit
<1>5. Added(a) \subseteq Word
    BY <1>1, <1>2, <1>3
<1>6. m \in Searching => x \in ToSet(s)
    OBVIOUS
<1>7. m \in Mode
    OBVIOUS
<1> DEFINE e == Edit(a, s)
<1> SUFFICES e \in Seq(Word) /\ (k \ Gone(a, k)) \cup Added(a) \subseteq ToSet(e)
    BY <1>5
<1> HIDE DEF a, m, x, new, y, e
<1>8. CASE m = "overwrite"
    BY <1>1, <1>3, <1>4, <1>8 DEF e
<1>9. CASE m \in {"append", "prepend"}
    <2>1. e = s \o new \/ e = new \o s
        BY <1>4, <1>9 DEF e
    <2>2. e \in Seq(Word) /\ ToSet(e) = ToSet(s) \cup ToSet(new)
        <3>1. s \o new \in Seq(Word) /\ ToSet(s \o new) = ToSet(s) \cup ToSet(new)
            BY <1>1, JoinedText
        <3>2. new \o s \in Seq(Word) /\ ToSet(new \o s) = ToSet(new) \cup ToSet(s)
            BY <1>1, JoinedText
        <3> QED
            BY <2>1, <3>1, <3>2
    <2>3. Added(a) = ToSet(new)
        BY <1>1, <1>3, <1>9
    <2> QED
        BY <2>2, <2>3
<1>10. CASE m = "replace"
    <2> DEFINE f == [i \in DOMAIN s |-> IF s[i] = x THEN y ELSE <<s[i]>>]
    <2>1. \A i \in DOMAIN s : s[i] \in Word /\ <<s[i]>> \in Seq(Word) /\ ToSet(<<s[i]>>) = {s[i]}
        BY DEF ToSet
    <2>2. f \in Seq(Seq(Word)) /\ DOMAIN f = DOMAIN s
        <3> DEFINE n == Len(s)
        <3>1. n \in Nat /\ DOMAIN s = 1 .. n
            OBVIOUS
        <3>2. f \in [1 .. n -> Seq(Word)]
            BY <3>1, <2>1, <1>2
        <3> HIDE DEF f, n
        <3> QED
            BY <3>1, <3>2
    <2>3. \A i \in DOMAIN s : f[i] = IF s[i] = x THEN y ELSE <<s[i]>>
        OBVIOUS
    <2>4. e = FlattenSeq(f)
        BY <1>4, <1>10 DEF e
    <2> HIDE DEF f
    <2>5. e \in Seq(Word) /\ \A z : z \in ToSet(e) <=> \E i \in DOMAIN f : z \in ToSet(f[i])
        BY <2>2, <2>4, Flattened
    <2>6. ASSUME NEW z \in ToSet(s) \ {x} PROVE z \in ToSet(e)
        <3>1. PICK i \in DOMAIN s : s[i] = z
            BY DEF ToSet
        <3> QED
            BY <3>1, <2>1, <2>2, <2>3, <2>5
    <2>7. ASSUME NEW z \in ToSet(y) PROVE z \in ToSet(e)
        <3>1. PICK i \in DOMAIN s : s[i] = x
            BY <1>6, <1>10 DEF ToSet, Searching
        <3> QED
            BY <3>1, <2>2, <2>3, <2>5
    <2>8. Gone(a, k) = {x} /\ Added(a) = ToSet(y)
        BY <1>2, <1>3, <1>10
    <2> QED
        BY <2>5, <2>6, <2>7, <2>8
<1>11. CASE m \in Searching \ {"replace"}
    <2>1. x \in ToSet(s)
        BY <1>6, <1>11
    <2> DEFINE i == First(s, x)
               u == SubSeq(s, 1, i - 1)
               v == SubSeq(s, i + 1, Len(s))
    <2>2. i \in DOMAIN s /\ s[i] = x
        BY <2>1, FirstOccurs
    <2>3. u \in Seq(Word) /\ v \in Seq(Word) /\ ToSet(s) = ToSet(u) \cup {x} \cup ToSet(v)
        BY <2>2, Parts
    <2>4. /\ m = "replace_first" => e = u \o y \o v
          /\ m = "insert_after" => e = Around(s, i, <<>>, new)
          /\ m = "insert_before" => e = Around(s, i, new, <<>>)
        BY <1>4 DEF e
    <2> HIDE DEF i, u, v
    <2>5. CASE m = "replace_first"
        <3>1. u \o y \in Seq(Word) /\ ToSet(u \o y) = ToSet(u) \cup ToSet(y)
            BY <1>2, <2>3, JoinedText
        <3>2. e \in Seq(Word) /\ ToSet(e) = ToSet(u) \cup ToSet(y) \cup ToSet(v)
            BY <2>3, <2>4, <2>5, <3>1, JoinedText
        <3>3. Gone(a, k) = {x} /\ Added(a) = ToSet(y)
            BY <1>2, <1>3, <2>5
        <3> QED
            BY <2>3, <3>2, <3>3
    <2>6. CASE m \in {"insert_after", "insert_before"}
        <3> DEFINE none == <<>>
        <3>1. none \in Seq(Word) /\ ToSet(none) = {}
            BY DEF ToSet
        <3>2. e = Around(s, i, none, new) \/ e = Around(s, i, new, none)
            BY <2>4, <2>6
        <3> HIDE DEF none
        <3>3. e \in Seq(Word) /\ ToSet(e) = ToSet(s) \cup ToSet(new)
            <4>1. /\ Around(s, i, none, new) \in Seq(Word)
                  /\ ToSet(Around(s, i, none, new)) = ToSet(s) \cup ToSet(new)
                BY <1>1, <2>2, <3>1, AroundKeeps
            <4>2. /\ Around(s, i, new, none) \in Seq(Word)
                  /\ ToSet(Around(s, i, new, none)) = ToSet(s) \cup ToSet(new)
                BY <1>1, <2>2, <3>1, AroundKeeps
            <4> QED
                BY <3>2, <4>1, <4>2
        <3>4. Added(a) = ToSet(new)
            BY <1>1, <1>3, <2>6
        <3> QED
            BY <3>3, <3>4
    <2> QED
        BY <2>5, <2>6, <1>11 DEF Searching
<1> QED
    BY <1>7, <1>8, <1>9, <1>10, <1>11 DEF Mode, Searching

\* A path is allowed or it is denied.
LEMMA PlaceIs ==
    ASSUME NEW v
    PROVE  Place(v) \in Path \cup {"denied"}
BY ToolboxAssumption DEF Place

-----------------------------------------------------------------------------
(* What a handler does, to the disk and to the others.                     *)

ResultType == [what : Outcome, place : Path \cup {"denied"}, size : Nat, names : SUBSET Word]

\* The disk stays sound, and whoever waits for the verification of a place that
\* a step of r has changed is disturbed.
DiskStep(r) ==
    /\ files' \subseteq Path /\ folders' \subseteq Path /\ files' \cap folders' = {}
    /\ text' \in [Path -> Seq(Word)]
    /\ kept' \in [Path -> SUBSET Word]
    /\ wrote' \in [Request -> SUBSET Path]
    /\ disturbed' \subseteq Request
    /\ EditsSurvive' /\ DiskInv'
    /\ folders \subseteq folders'
    /\ \A q \in Request : wrote[q] \subseteq wrote'[q]
    /\ \A q \in Request \ {r} : q \in disturbed => q \in disturbed'
    /\ \A q \in Request \ {r} : pc[q] = "verifying" /\ q \notin disturbed' =>
          /\ result[q].place \in files => result[q].place \in files'
          /\ result[q].place \in Path => text'[result[q].place] = text[result[q].place]

\* A result is about what the handler of the tool t has left on the disk.
Stands(r, t, res) ==
    res.what # "error" =>
       /\ t \in Writing \cup {"modify_file", "create_directory"} => res.place \in Path
       /\ t \in Writing \cup {"modify_file"} => res.place \in files'
       /\ t \in Writing => res.size = Len(text'[res.place])
       /\ t = "create_directory" => res.place \in folders'
       /\ t \in Backing("created") => wrote'[r] # {}

\* What the handler of the tool t leaves its request with.
Leaving(r, t) ==
    \/ \E res \in ResultType : Answered(r, res) /\ Stands(r, t, res)
    \/ /\ t = "execute_command" /\ pc' = [pc EXCEPT ![r] = "running"]
       /\ UNCHANGED <<original, result>>

\* What _modify_file leaves its request with that has something to write.
Reading(r, c) ==
    LET a == Handed(c) p == Place(Arg(a, "path"))
    IN /\ c.tool = "modify_file" /\ pc' = [pc EXCEPT ![r] = "editing"]
       /\ original' = [original EXCEPT ![r] = text[p]]
       /\ UNCHANGED <<disk, result, wrote, disturbed>>
       /\ p \in files /\ a["mode"] \in Mode
       /\ a["mode"] \in Searching => Arg(a, "search") \in ToSet(text[p])

\* A file gets a text that has in it what must stay.
LEMMA PutStep ==
    ASSUME ToolInv, NEW r \in Request, NEW p \in Path \ folders, NEW t \in Seq(Word),
           NEW k \in SUBSET Word, OneWorker => k \subseteq ToSet(t), Put(r, p, t, k)
    PROVE  DiskStep(r) /\ p \in files' /\ text'[p] = t /\ wrote'[r] # {}
<1> USE DEF ToolInv, TypeOK, Put, Disturb
<1>1. files' \subseteq Path /\ folders' \subseteq Path /\ files' \cap folders' = {}
    OBVIOUS
<1>2. text' \in [Path -> Seq(Word)] /\ text'[p] = t /\ \A o \in Path \ {p} : text'[o] = text[o]
    OBVIOUS
<1>3. kept' \in [Path -> SUBSET Word] /\ kept'[p] = k /\ \A o \in Path \ {p} : kept'[o] = kept[o]
    OBVIOUS
<1>4. /\ wrote' \in [Request -> SUBSET Path] /\ p \in wrote'[r]
      /\ \A q \in Request : wrote[q] \subseteq wrote'[q]
    OBVIOUS
<1>5. EditsSurvive'
    BY <1>2, <1>3 DEF EditsSurvive
<1>6. DiskInv'
    BY <1>2, <1>3 DEF DiskInv
<1>7. disturbed' \subseteq Request /\ \A q \in Request \ {r} : q \in disturbed => q \in disturbed'
    OBVIOUS
<1>8. ASSUME NEW q \in Request \ {r}, pc[q] = "verifying", q \notin disturbed'
      PROVE  /\ result[q].place \in files => result[q].place \in files'
             /\ result[q].place \in Path => text'[result[q].place] = text[result[q].place]
    <2>1. result[q].place # p
        BY <1>8
    <2> QED
        BY <2>1, <1>2
<1> QED
    BY <1>1, <1>2, <1>3, <1>4, <1>5, <1>6, <1>7, <1>8 DEF DiskStep

\* Nothing changes on disk.
LEMMA IdleStep ==
    ASSUME ToolInv, NEW r \in Request, UNCHANGED <<disk, wrote, disturbed>>
    PROVE  DiskStep(r)
BY DEF ToolInv, TypeOK, EditsSurvive, DiskInv, disk, DiskStep

\* A file goes.
LEMMA DeleteStep ==
    ASSUME ToolInv, NEW r \in Request, NEW p \in files,
           files' = files \ {p}, text' = [text EXCEPT ![p] = <<>>],
           kept' = [kept EXCEPT ![p] = {}], Disturb(r, {p}), UNCHANGED <<folders, wrote>>
    PROVE  DiskStep(r)
<1> USE DEF ToolInv, TypeOK, Disturb
<1>1. files' \subseteq Path /\ folders' \subseteq Path /\ files' \cap folders' = {}
    OBVIOUS
<1>2. text' \in [Path -> Seq(Word)] /\ text'[p] = <<>> /\ \A o \in Path \ {p} : text'[o] = text[o]
    OBVIOUS
<1>3. kept' \in [Path -> SUBSET Word] /\ kept'[p] = {} /\ \A o \in Path \ {p} : kept'[o] = kept[o]
    OBVIOUS
<1>4. EditsSurvive'
    BY <1>2, <1>3 DEF EditsSurvive
<1>5. DiskInv'
    BY <1>2, <1>3 DEF DiskInv
<1>6. disturbed' \subseteq Request /\ \A q \in Request \ {r} : q \in disturbed => q \in disturbed'
    OBVIOUS
<1>7. ASSUME NEW q \in Request \ {r}, pc[q] = "verifying", q \notin disturbed'
      PROVE  /\ result[q].place \in files => result[q].place \in files'
             /\ result[q].place \in Path => text'[result[q].place] = text[result[q].place]
    <2>1. result[q].place # p
        BY <1>7
    <2> QED
        BY <2>1, <1>2
<1> QED
    BY <1>1, <1>2, <1>3, <1>4, <1>5, <1>6, <1>7 DEF DiskStep

\* A folder is made.
LEMMA FolderStep ==
    ASSUME ToolInv, NEW r \in Request, NEW p \in Path \ files,
           folders' = folders \cup {p}, wrote' = [wrote EXCEPT ![r] = @ \cup {p}],
           UNCHANGED <<files, text, kept, disturbed>>
    PROVE  DiskStep(r) /\ p \in folders' /\ wrote'[r] # {}
<1> USE DEF ToolInv, TypeOK
<1>1. EditsSurvive' /\ DiskInv'
    BY DEF EditsSurvive, DiskInv
<1>2. /\ wrote' \in [Request -> SUBSET Path] /\ p \in wrote'[r]
      /\ \A q \in Request : wrote[q] \subseteq wrote'[q]
    OBVIOUS
<1> QED
    BY <1>1, <1>2 DEF DiskStep

\* The files of a project are made, and its folder.
LEMMA ProjectStep ==
    ASSUME ToolInv, NEW r \in Request, NEW root \in Path \ files,
           NEW made \in SUBSET (Path \ (folders \cup {root})), NEW word \in [made -> Word],
           folders' = folders \cup {root}, files' = files \cup made,
           text' = [p \in Path |-> IF p \in made THEN Pieces(word[p]) ELSE text[p]],
           kept' = [p \in Path |-> IF p \in made THEN Whole(word[p]) ELSE kept[p]],
           wrote' = [wrote EXCEPT ![r] = @ \cup {root} \cup made],
           Disturb(r, made)
    PROVE  DiskStep(r) /\ wrote'[r] # {}
<1> USE DEF ToolInv, TypeOK, Disturb
<1>1. files' \subseteq Path /\ folders' \subseteq Path /\ files' \cap folders' = {}
    OBVIOUS
<1>2. \A p \in made : /\ Pieces(word[p]) \in Seq(Word) /\ Whole(word[p]) \subseteq Word
                      /\ Whole(word[p]) \subseteq ToSet(Pieces(word[p]))
    BY PiecesOf
<1>3. text' \in [Path -> Seq(Word)] /\ \A o \in Path \ made : text'[o] = text[o]
    BY <1>2
<1>4. kept' \in [Path -> SUBSET Word] /\ \A o \in Path \ made : kept'[o] = kept[o]
    BY <1>2
<1>5. EditsSurvive'
    <2> SUFFICES ASSUME OneWorker, NEW p \in Path PROVE kept'[p] \subseteq ToSet(text'[p])
        BY DEF EditsSurvive
    <2>1. CASE p \in made
        BY <2>1, <1>2
    <2>2. CASE p \notin made
        BY <2>2, <1>3, <1>4 DEF EditsSurvive
    <2> QED
        BY <2>1, <2>2
<1>6. DiskInv'
    BY <1>3, <1>4 DEF DiskInv
<1>7. /\ wrote' \in [Request -> SUBSET Path] /\ root \in wrote'[r]
      /\ \A q \in Request : wrote[q] \subseteq wrote'[q]
    OBVIOUS
<1>8. disturbed' \subseteq Request /\ \A q \in Request : q \in disturbed => q \in disturbed'
    OBVIOUS
<1>9. ASSUME NEW q \in Request \ {r}, pc[q] = "verifying", q \notin disturbed'
      PROVE  /\ result[q].place \in files => result[q].place \in files'
             /\ result[q].place \in Path => text'[result[q].place] = text[result[q].place]
    <2>1. result[q].place \notin made
        BY <1>9
    <2> QED
        BY <2>1, <1>3
<1> QED
    BY <1>1, <1>3, <1>4, <1>5, <1>6, <1>7, <1>8, <1>9 DEF DiskStep

\* A handler that fails.
LEMMA FailsStep ==
    ASSUME ToolInv, NEW r \in Request, NEW t, Fails(r)
    PROVE  DiskStep(r) /\ Leaving(r, t)
<1>1. DiskStep(r)
    BY IdleStep DEF Fails
<1>2. Error \in ResultType /\ Stands(r, t, Error)
    BY DEF Error, Result, ResultType, Outcome, Stands
<1> QED
    BY <1>1, <1>2 DEF Fails, Leaving

\* A handler that leaves the disk as it is.
LEMMA LeavesStep ==
    ASSUME ToolInv, NEW r \in Request, NEW t \in Tool, t \notin Writing \cup {"create_directory", "create_project"},
           NEW what \in Outcome, NEW p \in Path \cup {"denied"}, t = "modify_file" => p \in files,
           Leaves(r, what, p)
    PROVE  DiskStep(r) /\ Leaving(r, t)
<1>1. DiskStep(r) /\ files' = files
    BY IdleStep DEF Leaves, disk
<1> DEFINE res == Result(what, p, 0, {})
<1>2. res \in ResultType /\ res.place = p
    BY DEF Result, ResultType
<1>3. Stands(r, t, res)
    <2> HIDE DEF res
    <2> QED
        BY <1>1, <1>2 DEF Stands, Backing, ToolInv, TypeOK
<1> QED
    BY <1>1, <1>2, <1>3 DEF Leaves, Leaving

\* A handler that gives a file a text and reports it.
LEMMA WritesStep ==
    ASSUME ToolInv, NEW r \in Request, NEW c \in Call, NEW p \in Path \ folders, NEW t \in Seq(Word),
           NEW k \in SUBSET Word, OneWorker => k \subseteq ToSet(t), Put(r, p, t, k),
           NEW what \in Outcome, NEW place \in Path \cup {"denied"}, NEW n \in Nat,
           c.tool # "create_directory",
           c.tool \in Writing \cup {"modify_file"} => place = p /\ n = Len(t),
           Answered(r, Result(what, place, n, {}))
    PROVE  DiskStep(r) /\ Leaving(r, c.tool)
<1>1. DiskStep(r) /\ p \in files' /\ text'[p] = t /\ wrote'[r] # {}
    BY PutStep
<1> DEFINE res == Result(what, place, n, {})
<1>2. res \in ResultType /\ res.place = place /\ res.size = n
    BY DEF Result, ResultType
<1>3. Stands(r, c.tool, res)
    <2> HIDE DEF res
    <2> QED
        BY <1>1, <1>2 DEF Stands
<1> QED
    BY <1>1, <1>2, <1>3 DEF Leaving

-----------------------------------------------------------------------------
(* The handlers, one by one.                                               *)

\* write_file never appends: there is no "mode" in its arguments.
LEMMA NeverAppends ==
    ASSUME NEW c \in Arguments, c.tool = "write_file"
    PROVE  Arg(Handed(c), "mode") # "append"
<1>1. "mode" \notin Allowed(c.tool)
    BY DEF Allowed, Required, Optional, Writing, Looking
<1> QED
    BY <1>1, HandedArguments DEF Arg

\* create_file, write_file
LEMMA WritingHandler ==
    ASSUME ToolInv, NEW r \in Request, NEW c \in Call,
           \/ c.tool = "create_file" /\ CreateFile(r, Handed(c))
           \/ c.tool = "write_file" /\ WriteFile(r, Handed(c))
    PROVE  DiskStep(r) /\ Leaving(r, c.tool)
<1> DEFINE a == Handed(c)
           p == Place(Arg(a, "path"))
           t == Pieces(Arg(a, "content"))
           k == Whole(Arg(a, "content"))
<1>1. c \in Arguments
    BY ToolboxAssumption
<1>2. p \in Path \cup {"denied"}
    BY PlaceIs
<1>3. t \in Seq(Word) /\ k \in SUBSET Word /\ k \subseteq ToSet(t) /\ Len(t) \in Nat
    BY <1>1, ArgIsString, PiecesOf
<1>4. CASE Fails(r)
    BY <1>4, FailsStep
<1>5. CASE ~Fails(r)
    <2>1. \E what \in {"created", "updated"} :
             p \in Path \ folders /\ Put(r, p, t, k) /\ Answered(r, Result(what, p, Len(t), {}))
        <3>1. CASE c.tool = "create_file"
            BY <1>5, <3>1 DEF CreateFile
        <3>2. CASE c.tool = "write_file"
            <4>1. Arg(a, "mode") # "append"
                BY <1>1, <3>2, NeverAppends
            <4> QED
                BY <1>5, <3>2, <4>1 DEF WriteFile
        <3> QED
            BY <3>1, <3>2
    <2>2. PICK what \in {"created", "updated"} :
             p \in Path \ folders /\ Put(r, p, t, k) /\ Answered(r, Result(what, p, Len(t), {}))
        BY <2>1
    <2>3. what \in Outcome
        BY DEF Outcome
    <2>4. c.tool # "create_directory"
        OBVIOUS
    <2> HIDE DEF p, t, k
    <2> QED
        BY <1>2, <1>3, <2>2, <2>3, <2>4, WritesStep
<1> QED
    BY <1>4, <1>5

\* create_directory
LEMMA FolderHandler ==
    ASSUME ToolInv, NEW r \in Request, NEW c \in Call,
           c.tool = "create_directory", CreateDirectory(r, Handed(c))
    PROVE  DiskStep(r) /\ Leaving(r, c.tool)
<1> DEFINE p == Place(Arg(Handed(c), "path"))
<1>1. CASE Fails(r)
    BY <1>1, FailsStep
<1>2. CASE ~Fails(r)
    <2>1. /\ p \in Path \ files /\ folders' = folders \cup {p}
          /\ wrote' = [wrote EXCEPT ![r] = @ \cup {p}]
          /\ UNCHANGED <<files, text, kept, disturbed>>
          /\ Answered(r, Result("created", p, 0, {}))
        BY <1>2 DEF CreateDirectory
    <2> HIDE DEF p
    <2>2. DiskStep(r) /\ p \in folders' /\ wrote'[r] # {}
        BY <2>1, FolderStep
    <2> DEFINE res == Result("created", p, 0, {})
    <2>3. res \in ResultType /\ res.place = p
        BY <2>1 DEF Result, ResultType, Outcome
    <2>4. Stands(r, c.tool, res)
        <3> HIDE DEF res
        <3> QED
            BY <2>1, <2>2, <2>3 DEF Stands, Writing
    <2> QED
        BY <2>1, <2>2, <2>3, <2>4 DEF Leaving
<1> QED
    BY <1>1, <1>2

\* read_file, file_exists
LEMMA LookingHandler ==
    ASSUME ToolInv, NEW r \in Request, NEW c \in Call,
           \/ c.tool = "read_file" /\ ReadFile(r, Handed(c))
           \/ c.tool = "file_exists" /\ FileExists(r, Handed(c))
    PROVE  DiskStep(r) /\ Leaving(r, c.tool)
<1> DEFINE p == Place(Arg(Handed(c), "path"))
<1>1. p \in Path \cup {"denied"}
    BY PlaceIs
<1>2. Fails(r) \/ Leaves(r, "read", p)
    BY DEF ReadFile, FileExists
<1>3. "read" \in Outcome /\ c.tool \in Tool /\ c.tool # "modify_file"
      /\ c.tool \notin Writing \cup {"create_directory", "create_project"}
    BY DEF Outcome, Tool, FileTool, Looking, Writing
<1> HIDE DEF p
<1> QED
    BY <1>1, <1>2, <1>3, FailsStep, LeavesStep

\* file_delete
LEMMA DeleteHandler ==
    ASSUME ToolInv, NEW r \in Request, NEW c \in Call,
           c.tool = "file_delete", DeleteFile(r, Handed(c))
    PROVE  DiskStep(r) /\ Leaving(r, c.tool)
<1> DEFINE p == Place(Arg(Handed(c), "path"))
<1>1. CASE Fails(r)
    BY <1>1, FailsStep
<1>2. CASE ~Fails(r)
    <2>1. /\ p \in files /\ files' = files \ {p} /\ text' = [text EXCEPT ![p] = <<>>]
          /\ kept' = [kept EXCEPT ![p] = {}] /\ Disturb(r, {p}) /\ UNCHANGED <<folders, wrote>>
          /\ Answered(r, Result("deleted", p, 0, {}))
        BY <1>2 DEF DeleteFile
    <2> HIDE DEF p
    <2>2. DiskStep(r)
        BY <2>1, DeleteStep
    <2>3. p \in Path
        BY <2>1 DEF ToolInv, TypeOK
    <2> DEFINE res == Result("deleted", p, 0, {})
    <2>4. res \in ResultType
        BY <2>3 DEF Result, ResultType, Outcome
    <2>5. Stands(r, c.tool, res)
        BY DEF Stands, Writing, Backing
    <2> QED
        BY <2>1, <2>2, <2>4, <2>5 DEF Leaving
<1> QED
    BY <1>1, <1>2

\* file_copy
LEMMA CopyHandler ==
    ASSUME ToolInv, NEW r \in Request, NEW c \in Call,
           c.tool = "file_copy", CopyFile(r, Handed(c))
    PROVE  DiskStep(r) /\ Leaving(r, c.tool)
<1> DEFINE p == Place(Arg(Handed(c), "source"))
           q == Place(Arg(Handed(c), "destination"))
           into == IF q \in folders THEN Inside[<<p, q>>] ELSE q
           n == IF into = q THEN Len(text[p]) ELSE 0
<1>1. \/ Fails(r)
      \/ /\ p \in files /\ q \in Path /\ into \notin folders
         /\ Put(r, into, text[p], kept[p]) /\ Answered(r, Result("copied", q, n, {}))
    BY DEF CopyFile
<1>2. "copied" \in Outcome /\ c.tool # "create_directory" /\ c.tool \notin Writing \cup {"modify_file"}
    BY DEF Outcome, Writing
<1>3. p \in files /\ q \in Path => into \in Path
    <2> HIDE DEF p, q
    <2> QED
        BY ToolboxAssumption DEF ToolInv, TypeOK
<1> HIDE DEF p, q, into
<1>4. p \in files => /\ text[p] \in Seq(Word) /\ kept[p] \in SUBSET Word
                     /\ OneWorker => kept[p] \subseteq ToSet(text[p])
    BY DEF ToolInv, TypeOK, EditsSurvive
<1>5. p \in files => n \in Nat
    BY <1>4
<1> HIDE DEF n
<1>6. CASE Fails(r)
    BY <1>6, FailsStep
<1>7. CASE /\ p \in files /\ q \in Path /\ into \notin folders
           /\ Put(r, into, text[p], kept[p]) /\ Answered(r, Result("copied", q, n, {}))
    BY <1>2, <1>3, <1>4, <1>5, <1>7, WritesStep
<1> QED
    BY <1>1, <1>6, <1>7

\* generate_tests
LEMMA TestsHandler ==
    ASSUME ToolInv, NEW r \in Request, NEW c \in Call,
           c.tool = "generate_tests", GenerateTests(r, Handed(c))
    PROVE  DiskStep(r) /\ Leaving(r, c.tool)
<1> DEFINE p == Place(Arg(Handed(c), "module_path"))
           t == <<"test">>
           k == {"test"}
<1>1. CASE Fails(r)
    BY <1>1, FailsStep
<1>2. CASE ~Fails(r)
    <2>1. /\ p \in files /\ TestOf[p] \notin folders
          /\ Put(r, TestOf[p], t, k) /\ Answered(r, Result("created", "denied", 0, {}))
        BY <1>2 DEF GenerateTests
    <2> HIDE DEF p
    <2>2. TestOf[p] \in Path
        BY <2>1, ToolboxAssumption DEF ToolInv, TypeOK
    <2>3. "test" \in Word
        BY ToolboxAssumption
    <2>4. t \in Seq(Word)
        BY <2>3
    <2>5. k \in SUBSET Word /\ k \subseteq ToSet(t)
        BY <2>3 DEF ToSet
    <2>6. c.tool \notin Writing \cup {"modify_file"} /\ c.tool # "create_directory" /\ "created" \in Outcome
        BY DEF Writing, Outcome
    <2> HIDE DEF t, k
    <2> QED
        BY <2>1, <2>2, <2>4, <2>5, <2>6, WritesStep
<1> QED
    BY <1>1, <1>2

\* modify_file, up to its write
LEMMA ModifyHandler ==
    ASSUME ToolInv, NEW r \in Request, NEW c \in Call,
           c.tool = "modify_file", ModifyFile(r, Handed(c))
    PROVE  DiskStep(r) /\ (Leaving(r, c.tool) \/ Reading(r, c))
<1> DEFINE p == Place(Arg(Handed(c), "path"))
<1>1. \/ Fails(r)
      \/ p \in files /\ Leaves(r, "unchanged", p)
      \/ Reading(r, c)
    BY DEF ModifyFile, Reading
<1>2. "unchanged" \in Outcome /\ c.tool \in Tool
      /\ c.tool \notin Writing \cup {"create_directory", "create_project"}
    BY DEF Outcome, Tool, DevelopmentTool, Writing
<1>3. CASE Fails(r)
    BY <1>3, FailsStep
<1>4. CASE p \in files /\ Leaves(r, "unchanged", p)
    <2> HIDE DEF p
    <2>1. p \in Path \cup {"denied"}
        BY <1>4 DEF ToolInv, TypeOK
    <2> QED
        BY <1>2, <1>4, <2>1, LeavesStep
<1>5. CASE Reading(r, c)
    BY <1>5, IdleStep DEF Reading
<1> QED
    BY <1>1, <1>3, <1>4, <1>5

\* create_project
LEMMA ProjectHandler ==
    ASSUME ToolInv, NEW r \in Request, NEW c \in Call,
           c.tool = "create_project", CreateProject(r, Handed(c))
    PROVE  DiskStep(r) /\ Leaving(r, c.tool)
<1> DEFINE a == Handed(c)
           root == Place(Arg(a, "base_path"))
           plan == IF Arg(a, "files") \in DOMAIN Plan THEN Plan[Arg(a, "files")] ELSE <<>>
           ok == {i \in DOMAIN plan : Place(plan[i][1]) \in Path \ (folders \cup {root})}
           made == {Place(plan[i][1]) : i \in ok}
           word == [p \in made |-> plan[CHOOSE i \in ok : Place(plan[i][1]) = p][2]]
           res == Result("project", root, Len(plan) - Cardinality(ok), {plan[i][1] : i \in ok})
<1>1. CASE Fails(r)
    BY <1>1, FailsStep
<1>2. CASE ~Fails(r)
    <2>1. /\ root \in Path \ files /\ Arg(a, "files") \in DOMAIN Plan
          /\ folders' = folders \cup {root} /\ files' = files \cup made
          /\ text' = [p \in Path |-> IF p \in made THEN Pieces(word[p]) ELSE text[p]]
          /\ kept' = [p \in Path |-> IF p \in made THEN Whole(word[p]) ELSE kept[p]]
          /\ wrote' = [wrote EXCEPT ![r] = @ \cup {root} \cup made]
          /\ Disturb(r, made) /\ Answered(r, res)
        BY <1>2 DEF CreateProject
    <2>2. plan \in Seq(Word \X Word)
        BY <2>1, ToolboxAssumption
    <2> DEFINE n == Len(plan)
    <2>3. n \in Nat /\ DOMAIN plan = 1 .. n /\ \A i \in 1 .. n : plan[i] \in Word \X Word
        <3> HIDE DEF plan
        <3> QED
            BY <2>2
    <2>4. ok \subseteq 1 .. n /\ \A i \in ok : plan[i][1] \in Word /\ plan[i][2] \in Word
        BY <2>3
    <2>5. n - Cardinality(ok) \in Nat
        <3>1. IsFiniteSet(1 .. n) /\ Cardinality(1 .. n) = n
            BY <2>3, FS_Interval
        <3> HIDE DEF ok, n
        <3>2. IsFiniteSet(ok) /\ Cardinality(ok) <= n
            BY <2>4, <3>1, FS_Subset
        <3>3. Cardinality(ok) \in Nat
            BY <3>2, FS_CardinalityType
        <3> QED
            BY <2>3, <3>2, <3>3
    <2>6. made \subseteq Path \ (folders \cup {root})
        OBVIOUS
    <2>7. word \in [made -> Word]
        <3> SUFFICES ASSUME NEW p \in made PROVE word[p] \in Word
            OBVIOUS
        <3>1. \E i \in ok : Place(plan[i][1]) = p
            OBVIOUS
        <3> DEFINE j == CHOOSE i \in ok : Place(plan[i][1]) = p
        <3>2. j \in ok
            <4> HIDE DEF ok, plan
            <4> QED
                BY <3>1
        <3>3. word[p] = plan[j][2]
            OBVIOUS
        <3> HIDE DEF j, word
        <3> QED
            BY <2>4, <3>2, <3>3
    <2>8. {plan[i][1] : i \in ok} \subseteq Word
        BY <2>4
    <2>9. res \in ResultType
        <3> DEFINE names == {plan[i][1] : i \in ok}
                   size == n - Cardinality(ok)
        <3>1. res = Result("project", root, size, names)
            OBVIOUS
        <3> HIDE DEF names, size, root, res
        <3>2. names \subseteq Word /\ size \in Nat
            BY <2>5, <2>8 DEF names, size
        <3> QED
            BY <2>1, <3>1, <3>2 DEF Result, ResultType, Outcome
    <2> HIDE DEF root, plan, ok, made, word, res
    <2>10. DiskStep(r) /\ wrote'[r] # {}
        BY <2>1, <2>6, <2>7, ProjectStep
    <2>11. Stands(r, c.tool, res)
        BY <2>10 DEF Stands, Writing
    <2> QED
        BY <2>1, <2>9, <2>10, <2>11 DEF Leaving
<1> QED
    BY <1>1, <1>2

\* execute_command, up to its await
LEMMA CommandHandler ==
    ASSUME ToolInv, NEW r \in Request, NEW c \in Call,
           c.tool = "execute_command", StartCommand(r) \/ RefuseCommand(r)
    PROVE  DiskStep(r) /\ Leaving(r, c.tool)
<1>1. CASE StartCommand(r)
    BY <1>1, IdleStep DEF StartCommand, Leaving
<1>2. CASE RefuseCommand(r)
    BY <1>2, FailsStep DEF RefuseCommand
<1> QED
    BY <1>1, <1>2

\* Whatever tool it is.
LEMMA AnyHandler ==
    ASSUME ToolInv, NEW r \in Request, NEW c \in Call, Handle(r, c.tool, Handed(c))
    PROVE  DiskStep(r) /\ (Leaving(r, c.tool) \/ Reading(r, c))
<1>1. c.tool \in Tool
    BY ToolboxAssumption DEF Arguments
<1>2. CASE c.tool \in Writing
    BY <1>2, WritingHandler DEF Handle, Writing
<1>3. CASE c.tool = "create_directory"
    BY <1>3, FolderHandler DEF Handle
<1>4. CASE c.tool \in Looking
    BY <1>4, LookingHandler DEF Handle, Looking
<1>5. CASE c.tool = "file_delete"
    BY <1>5, DeleteHandler DEF Handle
<1>6. CASE c.tool = "file_copy"
    BY <1>6, CopyHandler DEF Handle
<1>7. CASE c.tool = "generate_tests"
    BY <1>7, TestsHandler DEF Handle
<1>8. CASE c.tool = "modify_file"
    BY <1>8, ModifyHandler DEF Handle
<1>9. CASE c.tool = "create_project"
    BY <1>9, ProjectHandler DEF Handle
<1>10. CASE c.tool = "execute_command"
    BY <1>10, CommandHandler DEF Handle
<1> QED
    BY <1>1, <1>2, <1>3, <1>4, <1>5, <1>6, <1>7, <1>8, <1>9, <1>10
    DEF Tool, FileTool, DevelopmentTool, ProjectTool, CommandTool

-----------------------------------------------------------------------------
(* The steps.                                                              *)

\* What a step of r leaves of the others.
Only(r) ==
    \A q \in Request \ {r} :
       /\ pc'[q] = pc[q] /\ call'[q] = call[q] /\ args'[q] = args[q]
       /\ original'[q] = original[q]
       /\ result'[q] = result[q] /\ evidence'[q] = evidence[q] /\ answer'[q] = answer[q]

\* A step of r adds nothing to what must stay in a file another one edits.
SparesEdits(r) ==
    OneWorker => \A q \in Request \ {r} :
                    pc[q] = "editing" => kept'[Target(q)] \subseteq kept[Target(q)]

\* So does every step of an event loop, which no edit keeps to itself.
LEMMA FreeSpares ==
    ASSUME NEW r \in Request, Free(r)
    PROVE  SparesEdits(r)
BY DEF Free, SparesEdits, OneWorker

\* A step of one request leaves true what was true of another.
LEMMA OthersStand ==
    ASSUME ToolInv, NEW r \in Request, DiskStep(r), SparesEdits(r), Only(r),
           NEW q \in Request \ {r}
    PROVE  CallStands(q)' /\ EditStands(q)' /\ ResultStands(q)' /\ ClaimStands(q)'
<1>1. /\ pc'[q] = pc[q] /\ call'[q] = call[q] /\ args'[q] = args[q]
      /\ original'[q] = original[q]
      /\ result'[q] = result[q] /\ evidence'[q] = evidence[q] /\ answer'[q] = answer[q]
    BY DEF Only
<1>2. CallStands(q) /\ EditStands(q) /\ ResultStands(q) /\ ClaimStands(q)
    BY DEF ToolInv, CallInv, EditInv, ResultInv, ClaimInv
<1>3. CallStands(q)'
    BY <1>1, <1>2 DEF CallStands
<1>6. EditStands(q)'
    <2>1. Target(q)' = Target(q)
        BY <1>1 DEF Target
    <2> QED
        BY <1>1, <1>2, <2>1 DEF EditStands, SparesEdits
<1>4. ResultStands(q)'
    <2>1. /\ folders \subseteq folders'
          /\ q \in disturbed => q \in disturbed'
          /\ pc[q] = "verifying" /\ q \notin disturbed' =>
                /\ result[q].place \in files => result[q].place \in files'
                /\ result[q].place \in Path => text'[result[q].place] = text[result[q].place]
        BY DEF DiskStep
    <2> QED
        BY <1>1, <1>2, <2>1 DEF ResultStands
<1>5. ClaimStands(q)'
    <2>1. wrote[q] \subseteq wrote'[q]
        BY DEF DiskStep
    <2> QED
        BY <1>1, <1>2, <2>1 DEF ClaimStands, HasEvidence
<1> QED
    BY <1>3, <1>4, <1>5, <1>6

\* A step of r keeps the invariant if it does so for r.
LEMMA OwnStep ==
    ASSUME ToolInv, NEW r \in Request, DiskStep(r), SparesEdits(r), Only(r),
           TypeOK', CallStands(r)', EditStands(r)', ResultStands(r)', ClaimStands(r)'
    PROVE  ToolInv'
<1>1. EditsSurvive' /\ DiskInv'
    BY DEF DiskStep
<1>2. \A q \in Request : CallStands(q)' /\ EditStands(q)' /\ ResultStands(q)' /\ ClaimStands(q)'
    BY OthersStand
<1> QED
    BY <1>1, <1>2 DEF ToolInv, CallInv, EditInv, ResultInv, ClaimInv

\* A step that only takes r itself off the disturbed.
LEMMA QuietStep ==
    ASSUME ToolInv, NEW r \in Request, UNCHANGED <<disk, wrote>>, disturbed' = disturbed \ {r}
    PROVE  DiskStep(r)
BY DEF ToolInv, TypeOK, EditsSurvive, DiskInv, disk, DiskStep

\* ToolRegistry.execute keeps the invariant.
LEMMA ExecuteStep ==
    ASSUME ToolInv, NEW r \in Request, NEW c \in Call, Execute(r, c)
    PROVE  ToolInv'
<1>1. DiskStep(r) /\ (Leaving(r, c.tool) \/ Reading(r, c))
    BY AnyHandler, FailsStep DEF Execute
<1>2. /\ calls' = calls + 1 /\ calls < MaxCalls
      /\ call' = [call EXCEPT ![r] = c] /\ args' = [args EXCEPT ![r] = Handed(c)]
      /\ UNCHANGED <<evidence, created, modified, answer>>
    BY DEF Execute
<1>3. \/ /\ c.tool = "execute_command" /\ pc' = [pc EXCEPT ![r] = "running"]
         /\ UNCHANGED <<original, result>>
      \/ \E res \in ResultType :
            /\ pc' = [pc EXCEPT ![r] = "verifying"] /\ result' = [result EXCEPT ![r] = res]
            /\ original' = [original EXCEPT ![r] = <<>>]
            /\ Stands(r, c.tool, res)
      \/ Reading(r, c)
    BY <1>1 DEF Leaving, Answered
<1>11. Reading(r, c) =>
          /\ c.tool = "modify_file" /\ pc' = [pc EXCEPT ![r] = "editing"] /\ result' = result
          /\ original' = [original EXCEPT ![r] = text[Place(Arg(Handed(c), "path"))]]
          /\ text[Place(Arg(Handed(c), "path"))] \in Seq(Word)
    BY DEF Reading, ToolInv, TypeOK
<1>4. TypeOK'
    <2>1. /\ files' \subseteq Path /\ folders' \subseteq Path /\ files' \cap folders' = {}
          /\ text' \in [Path -> Seq(Word)] /\ kept' \in [Path -> SUBSET Word]
          /\ wrote' \in [Request -> SUBSET Path] /\ disturbed' \subseteq Request
        BY <1>1 DEF DiskStep
    <2>2. pc' \in [Request -> {"thinking", "editing", "running", "reaping", "verifying", "ended"}]
        BY <1>3, <1>11 DEF ToolInv, TypeOK
    <2>3. result' \in [Request -> ResultType]
        <3>1. result \in [Request -> ResultType]
            BY DEF ToolInv, TypeOK, ResultType
        <3> QED
            BY <3>1, <1>3, <1>11
    <2>6. original' \in [Request -> Seq(Word)]
        <3> DEFINE none == <<>>
        <3>1. none \in Seq(Word) /\ original \in [Request -> Seq(Word)]
            BY DEF ToolInv, TypeOK
        <3>2. \/ original' = original \/ original' = [original EXCEPT ![r] = none]
              \/ \E o \in Seq(Word) : original' = [original EXCEPT ![r] = o]
            BY <1>3, <1>11
        <3> HIDE DEF none
        <3> QED
            BY <3>1, <3>2
    <2>4. call' \in [Request -> Call \cup {NoCall}] /\ DOMAIN args' = Request
        BY <1>2 DEF ToolInv, TypeOK
    <2>5. calls' \in 0 .. MaxCalls
        <3>1. MaxCalls \in Nat
            BY ToolboxAssumption
        <3>2. calls \in 0 .. MaxCalls
            BY DEF ToolInv, TypeOK
        <3> QED
            BY <3>1, <3>2, <1>2
    <2> QED
        BY <1>2, <2>1, <2>2, <2>3, <2>4, <2>5, <2>6 DEF ToolInv, TypeOK, ResultType
<1>5. Only(r)
    <2>1. CASE Reading(r, c)
        BY <1>2, <1>11, <2>1 DEF Only, ToolInv, TypeOK
    <2>2. CASE ~Reading(r, c)
        BY <1>2, <1>3, <2>2 DEF Only, ToolInv, TypeOK
    <2> QED
        BY <2>1, <2>2
<1>6. call'[r] = c /\ args'[r] = Handed(c)
    BY <1>2 DEF ToolInv, TypeOK
<1>7. \/ c.tool = "execute_command" /\ pc'[r] = "running"
      \/ pc'[r] = "verifying" /\ Stands(r, c.tool, result'[r])
      \/ c.tool = "modify_file" /\ pc'[r] = "editing" /\ Reading(r, c)
    <2>1. CASE Reading(r, c)
        BY <1>11, <2>1 DEF ToolInv, TypeOK
    <2>2. CASE ~Reading(r, c)
        BY <1>3, <2>2 DEF ToolInv, TypeOK
    <2> QED
        BY <2>1, <2>2
<1>8. CallStands(r)'
    BY <1>6, <1>7 DEF CallStands
<1>9. ResultStands(r)'
    BY <1>6, <1>7 DEF ResultStands, Stands
<1>10. ClaimStands(r)'
    <2>1. wrote[r] \subseteq wrote'[r]
        BY <1>1 DEF DiskStep
    <2>2. HasEvidence(r, Backing("created"))' => wrote'[r] # {}
        BY <1>2, <2>1 DEF HasEvidence, ToolInv, ClaimInv, ClaimStands
    <2>3. pc'[r] = "verifying" /\ c.tool \in Backing("created") /\ result'[r].what \notin Bad
             => wrote'[r] # {}
        BY <1>7 DEF Stands, Bad
    <2>4. pc'[r] # "ended"
        BY <1>7
    <2> QED
        BY <1>6, <2>2, <2>3, <2>4 DEF ClaimStands
<1>12. EditStands(r)'
    <2> SUFFICES ASSUME pc'[r] = "editing" PROVE EditStands(r)'
        BY DEF EditStands
    <2> DEFINE a == Handed(c)
               p == Place(Arg(a, "path"))
    <2>1. Reading(r, c)
        BY <1>7
    <2>2. p \in files /\ kept' = kept /\ original'[r] = text[p]
        BY <2>1 DEF Reading, disk, ToolInv, TypeOK
    <2>3. Target(r)' = p /\ args'[r] = a
        BY <1>6 DEF Target
    <2>4. a["mode"] \in Mode /\ (a["mode"] \in Searching => Arg(a, "search") \in ToSet(text[p]))
        BY <2>1 DEF Reading
    <2> HIDE DEF a, p
    <2>5. p \in Path
        BY <2>2 DEF ToolInv, TypeOK
    <2>6. OneWorker => kept[p] \subseteq ToSet(text[p])
        BY <2>5 DEF ToolInv, EditsSurvive
    <2>7. OneWorker => kept'[p] \subseteq ToSet(original'[r])
        BY <2>2, <2>6
    <2> QED
        BY <2>2, <2>3, <2>4, <2>5, <2>7, Zenon DEF EditStands
<1>13. SparesEdits(r)
    BY FreeSpares DEF Execute
<1> QED
    BY <1>1, <1>4, <1>5, <1>8, <1>9, <1>10, <1>12, <1>13, OwnStep

\* The write of an edit keeps the invariant.
LEMMA WriteEditStep ==
    ASSUME ToolInv, NEW r \in Request, WriteEdit(r)
    PROVE  ToolInv'
<1> DEFINE a == args[r]
           p == Target(r)
           s == original[r]
           new == Edit(a, s)
           k == (kept[p] \ Gone(a, kept[p])) \cup Added(a)
<1>1. /\ pc[r] = "editing" /\ Free(r)
      /\ \/ Fails(r)
         \/ p \notin folders /\ Put(r, p, new, k) /\ Answered(r, Result("modified", p, Len(new), {}))
      /\ UNCHANGED <<call, args, evidence, created, modified, answer, calls>>
    BY DEF WriteEdit
<1>2. /\ call[r] \in Call /\ call[r] \in Arguments /\ call[r].tool = "modify_file"
      /\ a = Handed(call[r])
    BY <1>1, ToolboxAssumption DEF ToolInv, CallInv, CallStands
<1>3. /\ p \in Path /\ a["mode"] \in Mode
      /\ a["mode"] \in Searching => Arg(a, "search") \in ToSet(s)
      /\ OneWorker => kept[p] \subseteq ToSet(s)
    BY <1>1 DEF ToolInv, EditInv, EditStands
<1>4. s \in Seq(Word) /\ kept[p] \subseteq Word
    BY <1>3 DEF ToolInv, TypeOK
<1> HIDE DEF a, p, s
<1>5. new \in Seq(Word) /\ Added(a) \subseteq Word
    <2> DEFINE none == {}
    <2>1. none \subseteq ToSet(s)
        OBVIOUS
    <2> HIDE DEF none
    <2> QED
        BY <1>2, <1>3, <1>4, <2>1, EditKeeps
<1>6. OneWorker => k \subseteq ToSet(new)
    BY <1>2, <1>3, <1>4, EditKeeps
<1>7. k \in SUBSET Word
    BY <1>4, <1>5
<1> HIDE DEF new, k
<1>8. DiskStep(r) /\ Leaving(r, call[r].tool)
    <2>1. CASE Fails(r)
        BY <2>1, FailsStep
    <2>2. CASE p \notin folders /\ Put(r, p, new, k) /\ Answered(r, Result("modified", p, Len(new), {}))
        <3>1. "modified" \in Outcome /\ Len(new) \in Nat /\ p \in Path \ folders
              /\ call[r].tool # "create_directory"
            BY <1>2, <1>3, <1>5, <2>2 DEF Outcome
        <3> QED
            BY <1>2, <1>5, <1>6, <1>7, <2>2, <3>1, WritesStep
    <2> QED
        BY <1>1, <2>1, <2>2
<1>9. PICK res \in ResultType : Answered(r, res) /\ Stands(r, "modify_file", res)
    BY <1>2, <1>8 DEF Leaving
<1>10. /\ pc' = [pc EXCEPT ![r] = "verifying"] /\ result' = [result EXCEPT ![r] = res]
       /\ original' = [original EXCEPT ![r] = <<>>]
    BY <1>9 DEF Answered
<1>11. TypeOK'
    <2>1. /\ pc' \in [Request -> {"thinking", "editing", "running", "reaping", "verifying", "ended"}]
          /\ original' \in [Request -> Seq(Word)]
        BY <1>10 DEF ToolInv, TypeOK
    <2>2. result' \in [Request -> ResultType]
        BY <1>9, <1>10 DEF ToolInv, TypeOK, ResultType
    <2> QED
        BY <1>1, <1>8, <2>1, <2>2 DEF DiskStep, ToolInv, TypeOK, ResultType
<1>12. Only(r)
    BY <1>1, <1>10 DEF Only, ToolInv, TypeOK
<1>13. pc'[r] = "verifying" /\ result'[r] = res /\ call' = call /\ args' = args /\ evidence' = evidence
    BY <1>1, <1>10 DEF ToolInv, TypeOK
<1>14. CallStands(r)' /\ EditStands(r)'
    BY <1>2, <1>13 DEF CallStands, EditStands, a
<1>15. ResultStands(r)'
    BY <1>2, <1>9, <1>13 DEF ResultStands, Stands, Writing
<1>16. ClaimStands(r)'
    <2>1. wrote[r] \subseteq wrote'[r]
        BY <1>8 DEF DiskStep
    <2> QED
        BY <1>2, <1>13, <2>1 DEF ToolInv, ClaimInv, ClaimStands, HasEvidence, Backing, Writing
<1>17. SparesEdits(r)
    BY <1>1, FreeSpares
<1> QED
    BY <1>8, <1>11, <1>12, <1>14, <1>15, <1>16, <1>17, OwnStep

\* A command writes a file.
LEMMA CommandWritesStep ==
    ASSUME ToolInv, NEW r \in Request, NEW p \in Path, CommandWrites(r, p)
    PROVE  ToolInv'
<1>1. DiskStep(r)
    <2> DEFINE t == <<"built">>
               k == IF \E q \in Request : pc[q] = "editing" /\ Target(q) = p
                    THEN {} ELSE {"built"}
    <2>1. "built" \in Word
        BY ToolboxAssumption
    <2>2. t \in Seq(Word)
        BY <2>1
    <2>3. k \in SUBSET Word /\ k \subseteq ToSet(t)
        BY <2>1 DEF ToSet
    <2>4. p \in Path \ folders /\ Put(r, p, t, k)
        BY DEF CommandWrites
    <2> HIDE DEF t, k
    <2> QED
        BY <2>2, <2>3, <2>4, PutStep
<1>2. /\ pc[r] \in {"running", "reaping"}
      /\ UNCHANGED <<pc, call, args, original, result, evidence, created, modified, answer, calls>>
    BY DEF CommandWrites
<1>3. TypeOK'
    BY <1>1, <1>2 DEF DiskStep, ToolInv, TypeOK
<1>4. Only(r)
    BY <1>2 DEF Only
<1>5. CallStands(r)' /\ EditStands(r)' /\ ResultStands(r)'
    BY <1>2 DEF ToolInv, CallInv, CallStands, EditStands, ResultStands
<1>7. SparesEdits(r)
    <2> SUFFICES ASSUME NEW q \in Request \ {r}, pc[q] = "editing"
                 PROVE  kept'[Target(q)] \subseteq kept[Target(q)]
        BY DEF SparesEdits
    <2>1. Target(q) \in Path
        BY DEF ToolInv, EditInv, EditStands
    <2>2. CASE Target(q) = p
        <3>1. kept' = [kept EXCEPT ![p] = {}]
            BY <2>2 DEF CommandWrites, Put
        <3> QED
            BY <2>2, <3>1 DEF ToolInv, TypeOK
    <2>3. CASE Target(q) # p
        <3>1. \E k \in SUBSET Word : kept' = [kept EXCEPT ![p] = k]
            BY ToolboxAssumption DEF CommandWrites, Put
        <3> QED
            BY <2>1, <2>3, <3>1 DEF ToolInv, TypeOK
    <2> QED
        BY <2>2, <2>3
<1>6. ClaimStands(r)'
    <2>1. wrote[r] \subseteq wrote'[r]
        BY <1>1 DEF DiskStep
    <2> QED
        BY <1>2, <2>1 DEF ToolInv, ClaimInv, ClaimStands, HasEvidence
<1> QED
    BY <1>1, <1>3, <1>4, <1>5, <1>6, <1>7, OwnStep

\* A command comes to an end, or is killed.
LEMMA CommandEndsStep ==
    ASSUME ToolInv, NEW r \in Request,
           \/ \E what \in {"succeeded", "failed", "error"} : CommandExits(r, what)
           \/ CommandTimesOut(r)
           \/ CommandReaped(r)
    PROVE  ToolInv'
<1>1. /\ pc[r] \in {"running", "reaping"}
      /\ UNCHANGED <<disk, call, args, evidence, created, modified, answer, calls, wrote, disturbed>>
      /\ Free(r)
      /\ \/ pc' = [pc EXCEPT ![r] = "reaping"] /\ UNCHANGED <<original, result>>
         \/ \E what \in Outcome : Answered(r, Result(what, "denied", 0, {}))
    BY DEF CommandExits, CommandTimesOut, CommandReaped, Outcome
<1>2. DiskStep(r)
    BY <1>1, IdleStep
<1>3. call[r].tool = "execute_command" /\ CallStands(r) /\ ClaimStands(r)
    BY <1>1 DEF ToolInv, CallInv, ClaimInv, CallStands
<1>4. \A what \in Outcome : Result(what, "denied", 0, {}) \in ResultType
    BY DEF Result, ResultType
<1>5. \/ pc' = [pc EXCEPT ![r] = "reaping"] /\ UNCHANGED <<original, result>>
      \/ \E res \in ResultType :
            /\ pc' = [pc EXCEPT ![r] = "verifying"] /\ result' = [result EXCEPT ![r] = res]
            /\ original' = [original EXCEPT ![r] = <<>>]
    BY <1>1, <1>4 DEF Answered
<1>6. TypeOK'
    <2>1. pc' \in [Request -> {"thinking", "editing", "running", "reaping", "verifying", "ended"}]
        BY <1>5 DEF ToolInv, TypeOK
    <2>2. result' \in [Request -> ResultType]
        <3>1. result \in [Request -> ResultType]
            BY DEF ToolInv, TypeOK, ResultType
        <3> QED
            BY <3>1, <1>5
    <2>3. original' \in [Request -> Seq(Word)]
        <3> DEFINE none == <<>>
        <3>1. none \in Seq(Word) /\ original \in [Request -> Seq(Word)]
            BY DEF ToolInv, TypeOK
        <3>2. original' = original \/ original' = [original EXCEPT ![r] = none]
            BY <1>5
        <3> HIDE DEF none
        <3> QED
            BY <3>1, <3>2
    <2> QED
        BY <1>1, <2>1, <2>2, <2>3 DEF ToolInv, TypeOK, disk, ResultType
<1>7. Only(r)
    BY <1>1, <1>5 DEF Only, ToolInv, TypeOK
<1>8. pc'[r] \in {"reaping", "verifying"} /\ call' = call /\ args' = args /\ evidence' = evidence
      /\ wrote' = wrote
    BY <1>1, <1>5 DEF ToolInv, TypeOK
<1>9. CallStands(r)' /\ EditStands(r)'
    BY <1>1, <1>3, <1>8 DEF CallStands, EditStands
<1>10. ResultStands(r)'
    BY <1>3, <1>8 DEF ResultStands, Writing
<1>11. ClaimStands(r)'
    BY <1>3, <1>8 DEF ClaimStands, HasEvidence, Backing, Writing
<1>12. SparesEdits(r)
    BY <1>1, FreeSpares
<1> QED
    BY <1>12, <1>2, <1>6, <1>7, <1>9, <1>10, <1>11, OwnStep

\* The paths that a call spells are strings.
LEMMA NamedFiles ==
    ASSUME NEW c \in Arguments
    PROVE  NamedFile(c) \subseteq Word
<1>1. c.args \in Seq(Word \X Word)
    BY DEF Arguments
<1>2. \A pair \in ToSet(c.args) : pair[2] \in Word
    <2> DEFINE w == c.args
    <2> HIDE DEF w
    <2> SUFFICES w \in Seq(Word \X Word) => \A pair \in ToSet(w) : pair[2] \in Word
        BY <1>1 DEF w
    <2> QED
        BY DEF ToSet
<1> QED
    BY <1>2 DEF NamedFile

\* The verification of a result keeps the invariant.
LEMMA VerifyStep ==
    ASSUME ToolInv, NEW r \in Request, Verify(r)
    PROVE  ToolInv'
<1>1. /\ pc[r] = "verifying" /\ Free(r) /\ pc' = [pc EXCEPT ![r] = "thinking"]
      /\ evidence' = [evidence EXCEPT ![r] = @ \cup {<<call[r].tool, result[r].what \in Bad>>}]
      /\ disturbed' = disturbed \ {r}
      /\ call' = [call EXCEPT ![r] = NoCall] /\ args' = [args EXCEPT ![r] = <<>>]
      /\ result' = [result EXCEPT ![r] = Nothing]
      /\ UNCHANGED <<disk, original, answer, calls, wrote>>
    BY DEF Verify
<1>2. DiskStep(r)
    BY <1>1, QuietStep
<1>3. call[r] \in Call /\ call[r] \in Arguments /\ call[r].tool \in Tool /\ ClaimStands(r)
    BY <1>1, ToolboxAssumption DEF ToolInv, CallInv, ClaimInv, CallStands, Arguments
<1>4. NamedFile(call[r]) \subseteq Word
    BY <1>3, NamedFiles
<1>5. TypeOK'
    <2>1. created' \in [Request -> SUBSET Word] /\ modified' \in [Request -> SUBSET Word]
        BY <1>4 DEF Verify, ToolInv, TypeOK
    <2>2. evidence' \in [Request -> SUBSET (Tool \X BOOLEAN)]
        <3> DEFINE bad == result[r].what \in Bad
        <3>1. bad \in BOOLEAN
            OBVIOUS
        <3>2. evidence' = [evidence EXCEPT ![r] = @ \cup {<<call[r].tool, bad>>}]
            BY <1>1
        <3> HIDE DEF bad
        <3> QED
            BY <1>3, <3>1, <3>2 DEF ToolInv, TypeOK
    <2>3. Nothing \in ResultType
        BY DEF Nothing, Result, ResultType, Outcome
    <2>4. result' \in [Request -> ResultType]
        BY <1>1, <2>3 DEF ToolInv, TypeOK, ResultType
    <2>5. /\ pc' \in [Request -> {"thinking", "editing", "running", "reaping", "verifying", "ended"}]
          /\ call' \in [Request -> Call \cup {NoCall}] /\ DOMAIN args' = Request
          /\ disturbed' \subseteq Request
        BY <1>1 DEF ToolInv, TypeOK
    <2> QED
        BY <1>1, <2>1, <2>2, <2>4, <2>5 DEF ToolInv, TypeOK, disk, ResultType
<1>6. Only(r)
    BY <1>1 DEF Only, ToolInv, TypeOK
<1>7. pc'[r] = "thinking" /\ wrote' = wrote
      /\ evidence'[r] = evidence[r] \cup {<<call[r].tool, result[r].what \in Bad>>}
    BY <1>1 DEF ToolInv, TypeOK
<1>8. CallStands(r)' /\ EditStands(r)' /\ ResultStands(r)'
    BY <1>7 DEF CallStands, EditStands, ResultStands
<1>9. ClaimStands(r)'
    <2>1. ASSUME HasEvidence(r, Backing("created"))' PROVE wrote[r] # {}
        <3>1. PICK e \in evidence'[r] : e[1] \in Backing("created") /\ ~e[2]
            BY <2>1 DEF HasEvidence
        <3>2. CASE e \in evidence[r]
            BY <3>1, <3>2, <1>3 DEF ClaimStands, HasEvidence
        <3>3. CASE e = <<call[r].tool, result[r].what \in Bad>>
            BY <3>1, <3>3, <1>1, <1>3 DEF ClaimStands
        <3> QED
            BY <3>2, <3>3, <1>7
    <2> QED
        BY <2>1, <1>7 DEF ClaimStands
<1>10. SparesEdits(r)
    BY <1>1, FreeSpares
<1> QED
    BY <1>10, <1>2, <1>5, <1>6, <1>8, <1>9, OwnStep

\* An answer keeps the invariant.
LEMMA AnswerStep ==
    ASSUME ToolInv, NEW r \in Request, NEW claims \in Claims, Answer(r, claims)
    PROVE  ToolInv'
<1> DEFINE missing == {v \in created[r] \cup modified[r] : ~Found(v)}
           notes == Unbacked(r, claims) \cup (IF missing # {} THEN {"missing"} ELSE {})
<1>1. /\ pc[r] = "thinking" /\ Free(r) /\ pc' = [pc EXCEPT ![r] = "ended"]
      /\ answer' = [answer EXCEPT ![r] = [claims |-> claims, notes |-> notes]]
      /\ created' = [created EXCEPT ![r] = {}] /\ modified' = [modified EXCEPT ![r] = {}]
      /\ UNCHANGED <<disk, call, args, original, result, evidence, calls, wrote, disturbed>>
    BY DEF Answer
<1>2. DiskStep(r)
    BY <1>1, IdleStep
<1>3. claims \subseteq {"created", "executed", "fixed"}
    BY ToolboxAssumption
<1>4. notes \subseteq {"missing", "created", "executed", "fixed"}
    BY <1>3 DEF Unbacked
<1>5. "created" \in claims \ notes => evidence[r] = {} \/ HasEvidence(r, Backing("created"))
    BY DEF Unbacked, Recognized
<1> HIDE DEF notes, missing
<1>6. TypeOK'
    <2>1. answer' \in [Request -> [claims : SUBSET {"created", "executed", "fixed"},
                                   notes : SUBSET {"missing", "created", "executed", "fixed"}]]
        BY <1>1, <1>3, <1>4 DEF ToolInv, TypeOK
    <2>2. /\ pc' \in [Request -> {"thinking", "editing", "running", "reaping", "verifying", "ended"}]
          /\ created' \in [Request -> SUBSET Word] /\ modified' \in [Request -> SUBSET Word]
        BY <1>1 DEF ToolInv, TypeOK
    <2> QED
        BY <1>1, <2>1, <2>2 DEF ToolInv, TypeOK, disk
<1>7. Only(r)
    BY <1>1 DEF Only, ToolInv, TypeOK
<1>8. pc'[r] = "ended" /\ answer'[r] = [claims |-> claims, notes |-> notes]
    BY <1>1 DEF ToolInv, TypeOK
<1>9. CallStands(r)' /\ EditStands(r)' /\ ResultStands(r)'
    BY <1>8 DEF CallStands, EditStands, ResultStands
<1>10. ClaimStands(r)'
    <2>1. ClaimStands(r)
        BY DEF ToolInv, ClaimInv
    <2> QED
        BY <2>1, <1>1, <1>5, <1>8 DEF ClaimStands, HasEvidence
<1>11. SparesEdits(r)
    BY <1>1, FreeSpares
<1> QED
    BY <1>11, <1>2, <1>6, <1>7, <1>9, <1>10, OwnStep

-----------------------------------------------------------------------------
(* The theorems about Toolbox.                                             *)

\* At the start nothing has been done.
LEMMA ToolInvInit == Init => ToolInv
<1> SUFFICES ASSUME Init PROVE ToolInv
    OBVIOUS
<1> USE DEF Init
<1>1. TypeOK
    <2> DEFINE t == <<"old">>
               none == <<>>
    <2>1. "old" \in Word
        BY ToolboxAssumption
    <2>2. t \in Seq(Word) /\ none \in Seq(Word)
        BY <2>1
    <2>3. text = [p \in Path |-> IF p \in files THEN t ELSE none]
        OBVIOUS
    <2>4. text \in [Path -> Seq(Word)]
        <3> HIDE DEF t, none, Init
        <3> QED
            BY <2>2, <2>3
    <2>5. Nothing \in ResultType
        BY DEF Nothing, Result, ResultType, Outcome
    <2>6. result \in [Request -> ResultType]
        BY <2>5
    <2>7. calls \in 0 .. MaxCalls
        <3>1. MaxCalls \in Nat
            BY ToolboxAssumption
        <3> QED
            BY <3>1
    <2>9. original \in [Request -> Seq(Word)]
        <3>1. original = [r \in Request |-> none]
            OBVIOUS
        <3> HIDE DEF none, Init
        <3> QED
            BY <2>2, <3>1
    <2>8. answer \in [Request -> [claims : SUBSET {"created", "executed", "fixed"},
                                  notes : SUBSET {"missing", "created", "executed", "fixed"}]]
        OBVIOUS
    <2> QED
        BY <2>4, <2>6, <2>7, <2>8, <2>9 DEF TypeOK, ResultType
<1>2. CallInv /\ EditInv /\ ResultInv /\ ClaimInv
    BY DEF CallInv, CallStands, EditInv, EditStands, ResultInv, ResultStands, ClaimInv, ClaimStands, HasEvidence
<1>3. EditsSurvive /\ DiskInv
    BY DEF EditsSurvive, DiskInv
<1> QED
    BY <1>1, <1>2, <1>3 DEF ToolInv

\* No step breaks it.
LEMMA ToolInvNext == ToolInv /\ [Next]_vars => ToolInv'
<1> SUFFICES ASSUME ToolInv, [Next]_vars PROVE ToolInv'
    OBVIOUS
<1>1. CASE Next
    <2>1. PICK r \in Request :
             \/ \E c \in Call : Execute(r, c)
             \/ WriteEdit(r)
             \/ \E p \in Path : CommandWrites(r, p)
             \/ \E what \in {"succeeded", "failed", "error"} : CommandExits(r, what)
             \/ CommandTimesOut(r) \/ CommandReaped(r)
             \/ Verify(r)
             \/ \E claims \in Claims : Answer(r, claims)
        BY <1>1 DEF Next
    <2>2. CASE \E c \in Call : Execute(r, c)
        BY <2>2, ExecuteStep
    <2>3. CASE \E p \in Path : CommandWrites(r, p)
        BY <2>3, CommandWritesStep
    <2>4. CASE \/ \E what \in {"succeeded", "failed", "error"} : CommandExits(r, what)
               \/ CommandTimesOut(r) \/ CommandReaped(r)
        BY <2>4, CommandEndsStep
    <2>5. CASE Verify(r)
        BY <2>5, VerifyStep
    <2>6. CASE \E claims \in Claims : Answer(r, claims)
        BY <2>6, AnswerStep
    <2>7. CASE WriteEdit(r)
        BY <2>7, WriteEditStep
    <2> QED
        BY <2>1, <2>2, <2>3, <2>4, <2>5, <2>6, <2>7
<1>2. CASE UNCHANGED vars
    BY <1>2 DEF vars, disk, ToolInv, TypeOK, CallInv, CallStands, EditInv, EditStands, Target,
                EditsSurvive, DiskInv,
                ResultInv, ResultStands, ClaimInv, ClaimStands, HasEvidence
<1> QED
    BY <1>1, <1>2

\* Type correctness, and what a request and the disk have in common, of every
\* reachable state.
THEOREM ToolInvariant == Spec => []ToolInv
<1>1. Init => ToolInv
    BY ToolInvInit
<1>2. ToolInv /\ [Next]_vars => ToolInv'
    BY ToolInvNext
<1> QED
    BY <1>1, <1>2, PTL DEF Spec

\* Whatever a model writes, in whatever order: the registry hands a handler what
\* it wrote under the canonical name, or else under the first alias, and nothing
\* else but a missing mode.
THEOREM ArgumentsAreFaithful == Spec => []NormalizedIsFaithful
<1>1. ToolInv => NormalizedIsFaithful
    <2> SUFFICES ASSUME ToolInv, NEW r \in Request, pc[r] \in {"editing", "running", "verifying"},
                        NEW k \in DOMAIN args[r]
                 PROVE  LET c == call[r]
                            v == c.args[Chosen(c, k)][2]
                        IN \/ k = "mode" /\ Spellings(c, k) = {}
                           \/ /\ Spellings(c, k) # {}
                              /\ args[r][k] = v \/ (v \in Number /\ args[r][k] = Str[v])
        BY DEF NormalizedIsFaithful
    <2>1. call[r] \in Arguments /\ args[r] = Handed(call[r])
        BY ToolboxAssumption DEF ToolInv, CallInv, CallStands
    <2> QED
        BY <2>1, HandedArguments
<1> QED
    BY <1>1, ToolInvariant, PTL

\* However the edits of the requests of one worker are interleaved, and whatever
\* commands write between the read and the write of an edit: what one of them
\* put into a file is lost only to an edit that was meant to take it away, or to
\* a command that writes the file anew.
THEOREM EditsAreNotLost == Spec => []EditsSurvive
<1>1. ToolInv => EditsSurvive
    BY DEF ToolInv
<1> QED
    BY <1>1, ToolInvariant, PTL

\* A text without wide pieces has as many bytes as characters.
LEMMA NarrowBytes ==
    ASSUME NEW s \in Seq(Word), ToSet(s) \cap Wide = {}
    PROVE  Bytes(s) = Len(s)
<1>1. {i \in DOMAIN s : s[i] \in Wide} = {}
    BY DEF ToSet
<1>2. Cardinality({i \in DOMAIN s : s[i] \in Wide}) = 0
    BY <1>1, FS_EmptySet
<1>3. Len(s) \in Nat
    OBVIOUS
<1> QED
    BY <1>2, <1>3 DEF Bytes

\* A verification of what a request has made fails only for wide characters, or
\* because another request has changed the place since.
THEOREM FailuresAreExplained == Spec => []FailureIsExplained
<1>1. ToolInv => FailureIsExplained
    <2> SUFFICES ASSUME ToolInv, NEW r \in Request, pc[r] = "verifying",
                        call[r].tool \in Writing \cup {"modify_file", "create_directory"},
                        result[r].what # "error", r \notin disturbed,
                        ToSet(text[result[r].place]) \cap Wide = {}
                 PROVE  Passes(call[r].tool, result[r])
        BY DEF FailureIsExplained
    <2>1. ResultStands(r)
        BY DEF ToolInv, ResultInv
    <2>2. CASE call[r].tool \in Writing
        <3>1. result[r].place \in files /\ result[r].size = Len(text[result[r].place])
            BY <2>1, <2>2 DEF ResultStands
        <3>2. text[result[r].place] \in Seq(Word)
            BY <3>1 DEF ToolInv, TypeOK
        <3>3. Bytes(text[result[r].place]) = result[r].size
            BY <3>1, <3>2, NarrowBytes
        <3>4. WrittenAsReported(result[r])
            BY <3>1, <3>3 DEF WrittenAsReported
        <3> QED
            BY <2>2, <3>4 DEF Passes, Writing, Looking
    <2>3. CASE call[r].tool = "modify_file"
        BY <2>1, <2>3 DEF ResultStands, Passes, StillThere, Writing, Looking
    <2>4. CASE call[r].tool = "create_directory"
        BY <2>1, <2>4 DEF ResultStands, Passes, FolderThere, Writing, Looking
    <2> QED
        BY <2>2, <2>3, <2>4
<1> QED
    BY <1>1, ToolInvariant, PTL

\* An answer is believed to have created something only of a request that did,
\* or that has used no tool.
THEOREM ClaimsAreBacked == Spec => []ClaimIsBacked
<1>1. ToolInv => ClaimIsBacked
    BY DEF ToolInv, ClaimInv, ClaimStands, ClaimIsBacked
<1> QED
    BY <1>1, ToolInvariant, PTL

-----------------------------------------------------------------------------
(* Sums, and what else is accumulated over a sequence.                     *)

\* g accumulates over every set of the first k elements of w, from the first on.
Gains(f, w, k, g) ==
    g = [s \in SUBSET (1 .. k) |-> IF s = {} THEN 0 ELSE f[<<g[s \ {Max(s)}], w[Max(s)]>>]]

\* The recursive function of the fold exists.
LEMMA GainExists ==
    ASSUME NEW f, NEW w, NEW n \in Nat
    PROVE  \E g : Gains(f, w, n, g)
<1> DEFINE T == {k \in 0 .. n : \E g : Gains(f, w, k, g)}
<1>1. 0 \in T
    <2> DEFINE g == [s \in SUBSET (1 .. 0) |-> 0]
    <2>1. g = [s \in SUBSET (1 .. 0) |-> IF s = {} THEN 0 ELSE f[<<g[s \ {Max(s)}], w[Max(s)]>>]]
        OBVIOUS
    <2>2. Gains(f, w, 0, g)
        BY <2>1 DEF Gains
    <2> QED
        BY <2>2
<1>2. ASSUME NEW k \in 0 .. n - 1, k \in T PROVE k + 1 \in T
    <2>1. PICK g : Gains(f, w, k, g)
        BY <1>2
    <2> DEFINE h == [s \in SUBSET (1 .. k + 1) |-> IF k + 1 \in s
                        THEN f[<<g[s \ {k + 1}], w[k + 1]>>] ELSE g[s]]
    <2>2. \A s \in SUBSET (1 .. k) : s \in SUBSET (1 .. k + 1) /\ k + 1 \notin s
        OBVIOUS
    <2>3. \A s \in SUBSET (1 .. k) : h[s] = g[s]
        BY <2>2
    <2>4. \A s \in SUBSET (1 .. k) :
             g[s] = IF s = {} THEN 0 ELSE f[<<g[s \ {Max(s)}], w[Max(s)]>>]
        BY <2>1 DEF Gains
    <2>5. ASSUME NEW s \in SUBSET (1 .. k + 1)
          PROVE  h[s] = IF s = {} THEN 0 ELSE f[<<h[s \ {Max(s)}], w[Max(s)]>>]
        <3>1. CASE k + 1 \in s
            <4>1. \A x \in s : x \in Nat /\ x <= k + 1
                OBVIOUS
            <4>2. Max(s) = k + 1
                BY <3>1, <4>1, MaxOf
            <4>3. s \ {k + 1} \in SUBSET (1 .. k)
                OBVIOUS
            <4>4. h[s \ {k + 1}] = g[s \ {k + 1}]
                BY <4>3, <2>3
            <4>5. h[s] = f[<<g[s \ {k + 1}], w[k + 1]>>]
                BY <3>1
            <4> HIDE DEF h
            <4> QED
                BY <3>1, <4>2, <4>4, <4>5
        <3>2. CASE k + 1 \notin s
            <4>1. \A x \in s : x \in 1 .. k
                <5>1. \A x \in 1 .. k + 1 : x # k + 1 => x \in 1 .. k
                    OBVIOUS
                <5> QED
                    BY <5>1, <3>2
            <4>2. s \in SUBSET (1 .. k) /\ s \ {Max(s)} \in SUBSET (1 .. k)
                BY <4>1
            <4> HIDE DEF h
            <4> QED
                BY <4>2, <2>3, <2>4
        <3> QED
            BY <3>1, <3>2
    <2>6. Gains(f, w, k + 1, h)
        BY <2>5 DEF Gains
    <2> HIDE DEF h
    <2> QED
        BY <2>6
<1>3. n \in T
    <2>1. \A k \in 0 .. n - 1 : k \in T => k + 1 \in T
        BY <1>2
    <2> HIDE DEF T
    <2>2. \A k \in 0 .. n : k \in T
        BY <1>1, <2>1, UpTo
    <2> QED
        BY <2>2
<1>4. QED
    BY <1>3

\* a[i] is what the first i of n elements have given.
Runs(f, w, n, a) ==
    a[0] = 0 /\ \A i \in 0 .. n - 1 : a[i + 1] = f[<<a[i], w[i + 1]>>]

\* a is a function of 0 .. n, and no more.
Indexed(a, n) == DOMAIN a = 0 .. n /\ a = [i \in 0 .. n |-> a[i]]

\* Accumulating takes one element after the other.
LEMMA AccumulateCourse ==
    ASSUME NEW f, NEW w, NEW n \in Nat, DOMAIN w = 1 .. n
    PROVE  \E a : Runs(f, w, n, a) /\ Accumulate(f, w) = a[n] /\ Indexed(a, n)
<1>1. PICK g : Gains(f, w, n, g) /\ Accumulate(f, w) = g[1 .. n]
    <2>1. Accumulate(f, w) = (CHOOSE g : g = [s \in SUBSET DOMAIN w |-> IF s = {} THEN 0
                                   ELSE f[<<g[s \ {Max(s)}], w[Max(s)]>>]])[DOMAIN w]
        BY DEF Accumulate, FoldLeft, MapThenFoldSet
    <2>2. Accumulate(f, w) = (CHOOSE g : Gains(f, w, n, g))[1 .. n]
        BY <2>1 DEF Gains
    <2>3. Gains(f, w, n, CHOOSE g : Gains(f, w, n, g))
        BY GainExists
    <2> QED
        BY <2>2, <2>3
<1>2. \A s \in SUBSET (1 .. n) :
         g[s] = IF s = {} THEN 0 ELSE f[<<g[s \ {Max(s)}], w[Max(s)]>>]
    BY <1>1 DEF Gains
<1> DEFINE a == [i \in 0 .. n |-> g[1 .. i]]
<1>3. a[0] = 0
    <2>1. 1 .. 0 = {} /\ {} \in SUBSET (1 .. n)
        OBVIOUS
    <2>2. g[{}] = 0
        BY <1>2, <2>1
    <2> QED
        BY <2>1, <2>2
<1>4. ASSUME NEW i \in 0 .. n - 1 PROVE a[i + 1] = f[<<a[i], w[i + 1]>>]
    <2> DEFINE s == 1 .. i + 1
    <2>1. s \in SUBSET (1 .. n) /\ i + 1 \in s /\ \A x \in s : x \in Nat /\ x <= i + 1
        OBVIOUS
    <2>2. s \ {i + 1} = 1 .. i
        OBVIOUS
    <2> HIDE DEF s
    <2>3. Max(s) = i + 1
        BY <2>1, MaxOf
    <2>4. g[s] = f[<<g[s \ {Max(s)}], w[Max(s)]>>]
        BY <1>2, <2>1
    <2>5. g[s] = f[<<g[1 .. i], w[i + 1]>>]
        BY <2>2, <2>3, <2>4
    <2>6. a[i] = g[1 .. i] /\ a[i + 1] = g[s]
        BY DEF s
    <2> HIDE DEF a
    <2> QED
        BY <2>5, <2>6
<1>5. Accumulate(f, w) = a[n]
    BY <1>1
<1>6. Runs(f, w, n, a)
    BY <1>3, <1>4 DEF Runs
<1>7. Indexed(a, n)
    BY DEF Indexed
<1> HIDE DEF a
<1> QED
    BY <1>5, <1>6, <1>7

\* a[i] is the sum of the first i of n numbers.
Adds(w, n, a) ==
    a \in [0 .. n -> Nat] /\ a[0] = 0 /\ \A i \in 0 .. n - 1 : a[i + 1] = a[i] + w[i + 1]

\* A sum is the last of its partial sums.
LEMMA SumCourse ==
    ASSUME NEW n \in Nat, NEW w \in [1 .. n -> Nat]
    PROVE  \E a : Adds(w, n, a) /\ Sum(w) = a[n]
<1> DEFINE f == [p \in Nat \X Nat |-> p[1] + p[2]]
<1>1. PICK a : Runs(f, w, n, a) /\ Accumulate(f, w) = a[n] /\ Indexed(a, n)
    <2> HIDE DEF f
    <2>1. DOMAIN w = 1 .. n
        OBVIOUS
    <2> QED
        BY <2>1, AccumulateCourse
<1>2. Sum(w) = a[n]
    BY <1>1 DEF Sum
<1>3. \A x, y \in Nat : f[<<x, y>>] = x + y
    OBVIOUS
<1> HIDE DEF f
<1> DEFINE T == {k \in 0 .. n : a[k] \in Nat}
<1>4. 0 \in T
    BY <1>1 DEF Runs
<1>5. \A k \in 0 .. n - 1 : k \in T => k + 1 \in T
    <2> SUFFICES ASSUME NEW k \in 0 .. n - 1, a[k] \in Nat PROVE a[k + 1] \in Nat
        OBVIOUS
    <2>1. a[k + 1] = f[<<a[k], w[k + 1]>>]
        BY <1>1 DEF Runs
    <2>2. w[k + 1] \in Nat
        OBVIOUS
    <2> QED
        BY <2>1, <2>2, <1>3
<1>6. \A k \in 0 .. n : k \in T
    <2> HIDE DEF T
    <2> QED
        BY <1>4, <1>5, UpTo
<1>7. a \in [0 .. n -> Nat]
    BY <1>1, <1>6 DEF Indexed
<1>8. \A i \in 0 .. n - 1 : a[i + 1] = a[i] + w[i + 1]
    <2> SUFFICES ASSUME NEW i \in 0 .. n - 1 PROVE a[i + 1] = a[i] + w[i + 1]
        OBVIOUS
    <2>1. a[i + 1] = f[<<a[i], w[i + 1]>>]
        BY <1>1 DEF Runs
    <2>2. w[i + 1] \in Nat /\ a[i] \in Nat
        BY <1>7
    <2> QED
        BY <2>1, <2>2, <1>3
<1> QED
    BY <1>1, <1>2, <1>7, <1>8 DEF Adds, Runs

\* The partial sums are the sums of the parts.
LEMMA SumIs ==
    ASSUME NEW n \in Nat, NEW w, NEW a, Adds(w, n, a), NEW m \in 0 .. n,
           NEW v \in [1 .. m -> Nat], \A i \in 1 .. m : v[i] = w[i]
    PROVE  Sum(v) = a[m]
<1>1. PICK b : Adds(v, m, b) /\ Sum(v) = b[m]
    BY SumCourse
<1> DEFINE T == {k \in 0 .. m : b[k] = a[k]}
<1>2. 0 \in T
    BY <1>1 DEF Adds
<1>3. \A k \in 0 .. m - 1 : k \in T => k + 1 \in T
    <2> SUFFICES ASSUME NEW k \in 0 .. m - 1, b[k] = a[k] PROVE b[k + 1] = a[k + 1]
        OBVIOUS
    <2>1. b[k + 1] = b[k] + v[k + 1]
        BY <1>1 DEF Adds
    <2>2. k \in 0 .. n - 1 /\ k + 1 \in 1 .. m
        OBVIOUS
    <2>3. a[k + 1] = a[k] + w[k + 1]
        BY <2>2 DEF Adds
    <2>4. v[k + 1] = w[k + 1]
        BY <2>2
    <2> QED
        BY <2>1, <2>3, <2>4
<1>4. \A k \in 0 .. m : k \in T
    <2> HIDE DEF T
    <2>1. m \in Nat
        OBVIOUS
    <2> QED
        BY <2>1, <1>2, <1>3, UpTo
<1>5. m \in T
    BY <1>4
<1> QED
    BY <1>1, <1>5

\* The sum of the first k numbers of w.
Up(w, k) == Sum([i \in 1 .. k |-> w[i]])

\* The sums of the beginnings of a sequence of numbers lead to its sum.
LEMMA Ups ==
    ASSUME NEW n \in Nat, NEW w \in [1 .. n -> Nat]
    PROVE  /\ Up(w, 0) = 0
           /\ \A k \in 0 .. n : Up(w, k) \in Nat
           /\ \A k \in 0 .. n - 1 : Up(w, k + 1) = Up(w, k) + w[k + 1]
           /\ Sum(w) = Up(w, n)
<1>1. PICK a : Adds(w, n, a) /\ Sum(w) = a[n]
    BY SumCourse
<1>2. ASSUME NEW k \in 0 .. n PROVE Up(w, k) = a[k]
    <2> DEFINE v == [i \in 1 .. k |-> w[i]]
    <2>1. \A i \in 1 .. k : i \in 1 .. n
        OBVIOUS
    <2>2. v \in [1 .. k -> Nat] /\ \A i \in 1 .. k : v[i] = w[i]
        BY <2>1
    <2>3. Up(w, k) = Sum(v)
        BY DEF Up
    <2> HIDE DEF v
    <2> QED
        BY <1>1, <2>2, <2>3, SumIs
<1>3. /\ a \in [0 .. n -> Nat] /\ a[0] = 0
      /\ \A i \in 0 .. n - 1 : a[i + 1] = a[i] + w[i + 1]
    BY <1>1 DEF Adds
<1>4. Up(w, 0) = 0 /\ Sum(w) = Up(w, n)
    <2>1. 0 \in 0 .. n /\ n \in 0 .. n
        OBVIOUS
    <2> QED
        BY <2>1, <1>1, <1>2, <1>3
<1>5. \A k \in 0 .. n : Up(w, k) \in Nat
    BY <1>2, <1>3
<1>6. ASSUME NEW k \in 0 .. n - 1 PROVE Up(w, k + 1) = Up(w, k) + w[k + 1]
    <2>1. k \in 0 .. n /\ k + 1 \in 0 .. n
        OBVIOUS
    <2> QED
        BY <2>1, <1>2, <1>3
<1> QED
    BY <1>4, <1>5, <1>6

\* A sum is a number, no less than any of its parts.
LEMMA SumIsNat ==
    ASSUME NEW n \in Nat, NEW w \in [1 .. n -> Nat]
    PROVE  Sum(w) \in Nat
<1>1. n \in 0 .. n
    OBVIOUS
<1> QED
    BY <1>1, Ups

\* The sums of longer beginnings are greater.
LEMMA UpGrows ==
    ASSUME NEW n \in Nat, NEW w \in [1 .. n -> Nat], NEW i \in 0 .. n, NEW j \in i .. n
    PROVE  Up(w, i) <= Up(w, j)
<1>1. /\ \A k \in 0 .. n : Up(w, k) \in Nat
      /\ \A k \in 0 .. n - 1 : Up(w, k + 1) = Up(w, k) + w[k + 1]
    BY Ups
<1> DEFINE T == {d \in 0 .. n - i : Up(w, i) <= Up(w, i + d)}
<1>2. 0 \in T
    BY <1>1
<1>3. \A d \in 0 .. (n - i) - 1 : d \in T => d + 1 \in T
    <2> SUFFICES ASSUME NEW d \in 0 .. (n - i) - 1, Up(w, i) <= Up(w, i + d)
                 PROVE  Up(w, i) <= Up(w, i + (d + 1))
        OBVIOUS
    <2>1. i + d \in 0 .. n - 1 /\ i + d + 1 \in 1 .. n /\ i + (d + 1) = (i + d) + 1
        OBVIOUS
    <2>2. Up(w, i + (d + 1)) = Up(w, i + d) + w[(i + d) + 1] /\ w[(i + d) + 1] \in Nat
        BY <1>1, <2>1
    <2>3. Up(w, i) \in Nat /\ Up(w, i + d) \in Nat
        BY <1>1, <2>1
    <2> QED
        BY <2>2, <2>3
<1>4. \A d \in 0 .. n - i : d \in T
    <2> HIDE DEF T
    <2>1. n - i \in Nat
        OBVIOUS
    <2> QED
        BY <2>1, <1>2, <1>3, UpTo
<1>5. j - i \in T
    <2> HIDE DEF T
    <2>1. j - i \in 0 .. n - i
        OBVIOUS
    <2> QED
        BY <2>1, <1>4
<1>6. i + (j - i) = j
    OBVIOUS
<1> QED
    <2>1. Up(w, i) <= Up(w, i + (j - i))
        BY <1>5
    <2> QED
        BY <2>1, <1>6

\* What is added behind a sequence without a weight does not change its sum.
Tailed(n, w, m, v) ==
    /\ w \in [1 .. n -> Nat] /\ m \in 0 .. n /\ v \in [1 .. m -> Nat]
    /\ \A i \in 1 .. m : v[i] = w[i]
    /\ \A i \in m + 1 .. n : w[i] = 0

LEMMA SumTail ==
    ASSUME NEW n \in Nat, NEW w, NEW m, NEW v, Tailed(n, w, m, v)
    PROVE  Sum(w) = Sum(v)
<1>0. /\ w \in [1 .. n -> Nat] /\ m \in 0 .. n /\ v \in [1 .. m -> Nat]
      /\ \A i \in 1 .. m : v[i] = w[i]
      /\ \A i \in m + 1 .. n : w[i] = 0
    BY DEF Tailed
<1>1. /\ \A k \in 0 .. n : Up(w, k) \in Nat
      /\ \A k \in 0 .. n - 1 : Up(w, k + 1) = Up(w, k) + w[k + 1]
      /\ Sum(w) = Up(w, n)
    BY <1>0, Ups
<1> DEFINE T == {d \in 0 .. n - m : Up(w, m) = Up(w, m + d)}
<1>2. 0 \in T
    <2>1. m + 0 = m /\ 0 \in 0 .. n - m
        BY <1>0
    <2> QED
        BY <2>1
<1>3. \A d \in 0 .. (n - m) - 1 : d \in T => d + 1 \in T
    <2> SUFFICES ASSUME NEW d \in 0 .. (n - m) - 1, Up(w, m) = Up(w, m + d)
                 PROVE  Up(w, m) = Up(w, m + (d + 1))
        BY <1>0
    <2>1. m + d \in 0 .. n - 1 /\ m + d + 1 \in m + 1 .. n /\ m + (d + 1) = (m + d) + 1
        BY <1>0
    <2>2. Up(w, m + (d + 1)) = Up(w, m + d) + w[(m + d) + 1] /\ w[(m + d) + 1] = 0
        BY <1>0, <1>1, <2>1
    <2>3. Up(w, m + d) \in Nat
        BY <1>1, <2>1
    <2> QED
        BY <2>2, <2>3
<1>4. \A d \in 0 .. n - m : d \in T
    <2> HIDE DEF T
    <2>1. n - m \in Nat
        BY <1>0
    <2> QED
        BY <2>1, <1>2, <1>3, UpTo
<1>5. n - m \in T
    BY <1>0, <1>4
<1>6. m + (n - m) = n
    BY <1>0
<1>7. Up(w, m) = Sum(v)
    <2>1. [i \in 1 .. m |-> w[i]] = v
        BY <1>0
    <2> QED
        BY <2>1 DEF Up
<1> QED
    BY <1>1, <1>5, <1>6, <1>7

\* A sum can be taken apart at its beginning.
LEMMA SumHead ==
    ASSUME NEW n \in Nat, NEW w \in [1 .. n + 1 -> Nat], NEW v \in [1 .. n -> Nat],
           \A i \in 1 .. n : v[i] = w[i + 1]
    PROVE  Sum(w) = w[1] + Sum(v)
<1>1. n + 1 \in Nat
    OBVIOUS
<1>2. /\ Up(w, 0) = 0
      /\ \A k \in 0 .. n + 1 : Up(w, k) \in Nat
      /\ \A k \in 0 .. (n + 1) - 1 : Up(w, k + 1) = Up(w, k) + w[k + 1]
      /\ Sum(w) = Up(w, n + 1)
    BY <1>1, Ups
<1>3. /\ Up(v, 0) = 0
      /\ \A k \in 0 .. n : Up(v, k) \in Nat
      /\ \A k \in 0 .. n - 1 : Up(v, k + 1) = Up(v, k) + v[k + 1]
      /\ Sum(v) = Up(v, n)
    BY Ups
<1>4. 1 \in 1 .. n + 1 /\ w[1] \in Nat
    OBVIOUS
<1> DEFINE T == {k \in 0 .. n : Up(w, k + 1) = w[1] + Up(v, k)}
<1>5. 0 \in T
    <2>1. 0 \in 0 .. (n + 1) - 1 /\ 0 + 1 = 1
        OBVIOUS
    <2>2. Up(w, 0 + 1) = Up(w, 0) + w[0 + 1]
        BY <1>2, <2>1
    <2>3. Up(w, 0 + 1) = w[1] + Up(v, 0)
        BY <2>1, <2>2, <1>2, <1>3, <1>4
    <2> QED
        BY <2>3
<1>6. \A k \in 0 .. n - 1 : k \in T => k + 1 \in T
    <2> SUFFICES ASSUME NEW k \in 0 .. n - 1, Up(w, k + 1) = w[1] + Up(v, k)
                 PROVE  Up(w, (k + 1) + 1) = w[1] + Up(v, k + 1)
        OBVIOUS
    <2>1. k + 1 \in 0 .. (n + 1) - 1 /\ k + 1 \in 1 .. n /\ k \in 0 .. n
        OBVIOUS
    <2>2. Up(w, (k + 1) + 1) = Up(w, k + 1) + w[(k + 1) + 1]
        BY <1>2, <2>1
    <2>3. v[k + 1] = w[(k + 1) + 1] /\ v[k + 1] \in Nat
        BY <2>1
    <2>4. Up(v, k + 1) = Up(v, k) + v[k + 1] /\ Up(v, k) \in Nat
        BY <1>3, <2>1
    <2> QED
        BY <2>2, <2>3, <2>4, <1>4
<1>7. \A k \in 0 .. n : k \in T
    <2> HIDE DEF T
    <2> QED
        BY <1>5, <1>6, UpTo
<1>8. n \in T
    BY <1>7
<1> QED
    BY <1>2, <1>3, <1>8

-----------------------------------------------------------------------------
(* The budgets and the composed message.                                   *)

LEMMA Greater ==
    ASSUME NEW a \in Int, NEW b \in Int
    PROVE  Max({a, b}) = IF a >= b THEN a ELSE b
<1> DEFINE S == {a, b}
           m == IF a >= b THEN a ELSE b
           P(x) == x \in S /\ \A y \in S : x >= y
<1>1. P(m)
    OBVIOUS
<1>2. Max(S) = CHOOSE x : P(x)
    BY DEF Max
<1>3. P(CHOOSE x : P(x))
    <2> HIDE DEF P
    <2> QED
        BY <1>1
<1>4. ASSUME NEW x, P(x) PROVE x = m
    BY <1>4
<1> QED
    BY <1>2, <1>3, <1>4

LEMMA Lesser ==
    ASSUME NEW a \in Int, NEW b \in Int
    PROVE  Min({a, b}) = IF a <= b THEN a ELSE b
<1> DEFINE S == {a, b}
           m == IF a <= b THEN a ELSE b
           P(x) == x \in S /\ \A y \in S : x <= y
<1>1. P(m)
    OBVIOUS
<1>2. Min(S) = CHOOSE x : P(x)
    BY DEF Min
<1>3. P(CHOOSE x : P(x))
    <2> HIDE DEF P
    <2> QED
        BY <1>1
<1>4. ASSUME NEW x, P(x) PROVE x = m
    BY <1>4
<1> QED
    BY <1>2, <1>3, <1>4

\* The budgets are numbers.
LEMMA Budgets ==
    TotalChars \in Nat /\ HistoryChars \in Nat /\ ToolChars \in Nat
<1>1. Profile.window \in Nat /\ Profile.response \in Nat /\ Profile.tool \in Nat
    BY DEF Profile
<1> DEFINE a == Profile.window - Profile.response
<1>2. a \in Int
    BY <1>1
<1>3. Max({a, 1024}) \in Nat
    <2> HIDE DEF a
    <2>1. 1024 \in Int
        OBVIOUS
    <2>2. Max({a, 1024}) = IF a >= 1024 THEN a ELSE 1024
        BY <1>2, <2>1, Greater
    <2> QED
        BY <2>2, <1>2
<1>4. TotalChars \in Nat
    BY <1>3 DEF TotalChars
<1>5. HistoryChars \in Nat
    BY <1>4 DEF HistoryChars
<1>6. ToolChars \in Nat
    <2> DEFINE b == TotalChars \div 4
               c == 4 * Profile.tool
    <2>1. b \in Nat /\ c \in Nat
        BY <1>1, <1>4
    <2>2. ToolChars = Max({b, c})
        BY DEF ToolChars
    <2> HIDE DEF b, c
    <2>3. Max({b, c}) = IF b >= c THEN b ELSE c
        BY <2>1, Greater
    <2> QED
        BY <2>1, <2>2, <2>3
<1> QED
    BY <1>4, <1>5, <1>6

\* What is left for the history is within its share, and the less the longer
\* the prompt is.
LEMMA HistoryBudgets ==
    ASSUME NEW x \in Nat, NEW y \in Nat, x <= y
    PROVE  /\ HistoryBudget(x) \in Nat /\ HistoryBudget(x) <= HistoryChars
           /\ HistoryBudget(y) <= HistoryBudget(x)
<1> DEFINE Room(e) == Max({TotalChars - e, 512})
<1>1. TotalChars \in Nat /\ HistoryChars \in Nat
    BY Budgets
<1>2. ASSUME NEW e \in Nat PROVE Room(e) = IF TotalChars - e >= 512 THEN TotalChars - e ELSE 512
    BY <1>1, Greater
<1> HIDE DEF Room
<1>3. ASSUME NEW e \in Nat
      PROVE  /\ Room(e) \in Nat
             /\ HistoryBudget(e) = IF HistoryChars <= Room(e) THEN HistoryChars ELSE Room(e)
    <2>1. Room(e) \in Nat
        BY <1>1, <1>2
    <2>2. HistoryBudget(e) = Min({HistoryChars, Room(e)})
        BY DEF HistoryBudget, Room
    <2> QED
        BY <1>1, <2>1, <2>2, Lesser
<1>4. Room(y) <= Room(x)
    <2>1. Room(x) = IF TotalChars - x >= 512 THEN TotalChars - x ELSE 512
        BY <1>2
    <2>2. Room(y) = IF TotalChars - y >= 512 THEN TotalChars - y ELSE 512
        BY <1>2
    <2> QED
        BY <2>1, <2>2, <1>1
<1> QED
    BY <1>1, <1>3, <1>4

\* Formatted attachments exceed what is left for them by one character at most.
LEMMA FormattedRange ==
    ASSUME NEW max \in Nat, NEW n \in Nat, NEW contents \in [1 .. n -> Nat]
    PROVE  Formatted(contents, max) \in 0 .. max + 1
<1> DEFINE f == [p \in Nat \X Nat |-> p[1] + FileAdds(max, p[1], p[2])]
           Used(k) == k = 0 \/ k \in 42 .. max + 3
<1>1. ASSUME NEW u \in Nat, NEW c \in Nat, Used(u) PROVE f[<<u, c>>] \in Nat /\ Used(f[<<u, c>>])
    <2>1. f[<<u, c>>] = u + FileAdds(max, u, c)
        OBVIOUS
    <2> HIDE DEF f
    <2>2. u + FileAdds(max, u, c) \in Nat /\ Used(u + FileAdds(max, u, c))
        BY <1>1 DEF FileAdds, Available, Metadata
    <2> QED
        BY <2>1, <2>2
<1>2. DOMAIN contents = 1 .. n
    OBVIOUS
<1> HIDE DEF f, Used
<1>3. PICK a : Runs(f, contents, n, a) /\ Accumulate(f, contents) = a[n]
    BY <1>2, AccumulateCourse
<1> DEFINE T == {k \in 0 .. n : a[k] \in Nat /\ Used(a[k])}
<1>4. 0 \in T
    BY <1>3 DEF Runs, Used
<1>5. \A k \in 0 .. n - 1 : k \in T => k + 1 \in T
    <2> SUFFICES ASSUME NEW k \in 0 .. n - 1, a[k] \in Nat, Used(a[k])
                 PROVE  a[k + 1] \in Nat /\ Used(a[k + 1])
        OBVIOUS
    <2>1. a[k + 1] = f[<<a[k], contents[k + 1]>>]
        BY <1>3 DEF Runs
    <2>2. contents[k + 1] \in Nat
        OBVIOUS
    <2> QED
        BY <2>1, <2>2, <1>1
<1>6. \A k \in 0 .. n : k \in T
    <2> HIDE DEF T
    <2> QED
        BY <1>4, <1>5, UpTo
<1>7. n \in T
    BY <1>6
<1>8. Formatted(contents, max) = IF a[n] = 0 THEN 0 ELSE a[n] - 2
    BY <1>3 DEF Formatted, f
<1> QED
    BY <1>7, <1>8 DEF Used

\* A composed message is one character too long at most.
LEMMA ComposeRange ==
    ASSUME NEW input \in 1 .. MaxText, NEW n \in Nat, NEW contents \in [1 .. n -> Nat]
    PROVE  Compose(input, contents) \in 0 .. MaxText + 1
<1> DEFINE room == MaxText - input - 2
           attached == IF contents # <<>> /\ room > 0 THEN Formatted(contents, room) ELSE 0
<1>1. room \in Int /\ room + input + 3 = MaxText + 1
    BY DEF MaxText
<1>2. attached = 0 \/ (room > 0 /\ attached \in 0 .. room + 1)
    <2> HIDE DEF room
    <2>1. CASE contents # <<>> /\ room > 0
        <3>1. room \in Nat
            BY <1>1, <2>1
        <3> QED
            BY <2>1, <3>1, FormattedRange
    <2>2. CASE ~(contents # <<>> /\ room > 0)
        BY <2>2
    <2> QED
        BY <2>1, <2>2
<1>3. Compose(input, contents) = IF attached = 0 THEN input ELSE attached + 2 + input
    BY DEF Compose
<1> HIDE DEF room, attached
<1>4. CASE attached = 0
    BY <1>3, <1>4 DEF MaxText
<1>5. CASE attached # 0
    <2>1. Compose(input, contents) = attached + 2 + input
        BY <1>3, <1>5
    <2>2. attached \in Nat /\ attached <= room + 1
        BY <1>1, <1>2, <1>5
    <2> QED
        BY <2>1, <2>2, <1>1 DEF MaxText
<1> QED
    BY <1>4, <1>5

-----------------------------------------------------------------------------
(* The history that is selected.                                           *)

\* A number is even or odd, and so has a half.
LEMMA Halves ==
    ASSUME NEW i \in Nat, i > 0
    PROVE  LET t == (i - 1) \div 2
           IN  /\ t \in Nat
               /\ \/ i % 2 = 1 /\ i = 2 * t + 1
                  \/ i % 2 # 1 /\ i = 2 * t + 2
    OBVIOUS

LEMMA HalvesBack ==
    ASSUME NEW t \in Nat
    PROVE  /\ ((2 * t + 1) - 1) \div 2 = t /\ (2 * t + 1) % 2 = 1
           /\ ((2 * t + 2) - 1) \div 2 = t /\ (2 * t + 2) % 2 # 1
    OBVIOUS

\* The weights that are summed up.
Weights(messages, kinds) ==
    [i \in DOMAIN messages |-> IF messages[i].kind \in kinds THEN messages[i].len ELSE 0]

LEMMA WeightsAre ==
    ASSUME NEW messages \in Seq(Message), NEW kinds
    PROVE  /\ Weights(messages, kinds) \in [1 .. Len(messages) -> Nat]
           /\ TotalOf(messages, kinds) = Sum(Weights(messages, kinds))
           /\ TotalOf(messages, kinds) \in Nat
<1> DEFINE n == Len(messages)
           w == Weights(messages, kinds)
<1>1. n \in Nat /\ DOMAIN messages = 1 .. n
    OBVIOUS
<1>2. \A i \in 1 .. n : messages[i].len \in Nat
    <2>1. \A i \in 1 .. n : messages[i] \in Message
        OBVIOUS
    <2> QED
        BY <2>1 DEF Message
<1>3. w \in [1 .. n -> Nat]
    BY <1>1, <1>2 DEF Weights
<1>4. TotalOf(messages, kinds) = Sum(w)
    BY DEF TotalOf, Weights
<1> HIDE DEF n, w
<1>5. Sum(w) \in Nat
    BY <1>1, <1>3, SumIsNat
<1> QED
    BY <1>3, <1>4, <1>5 DEF n, w

\* The size of the newest turns grows by one turn after the other.
LEMMA Sizes ==
    ASSUME NEW turns \in Seq(Turn)
    PROVE  /\ Size(turns, 0) = 0
           /\ \A k \in 0 .. Len(turns) : Size(turns, k) \in Nat
           /\ \A k \in 0 .. Len(turns) - 1 :
                 Size(turns, k + 1) = Size(turns, k)
                                         + (turns[Len(turns) - k].user + turns[Len(turns) - k].reply)
           /\ \A j \in 0 .. Len(turns) : \A k \in j .. Len(turns) : Size(turns, j) <= Size(turns, k)
<1> DEFINE n == Len(turns)
           w == [i \in 1 .. n |-> turns[n + 1 - i].user + turns[n + 1 - i].reply]
<1>1. n \in Nat /\ \A i \in 1 .. n : turns[i].user \in Nat /\ turns[i].reply \in Nat
    <2>1. n \in Nat /\ \A i \in 1 .. n : turns[i] \in Turn
        OBVIOUS
    <2> QED
        BY <2>1 DEF Turn
<1>2. w \in [1 .. n -> Nat]
    BY <1>1
<1>3. ASSUME NEW k \in 0 .. n PROVE Size(turns, k) = Up(w, k)
    <2>1. \A i \in 1 .. k : w[i] = turns[n + 1 - i].user + turns[n + 1 - i].reply
        OBVIOUS
    <2>2. [i \in 1 .. k |-> w[i]] = [i \in 1 .. k |-> turns[n + 1 - i].user + turns[n + 1 - i].reply]
        BY <2>1
    <2> QED
        BY <2>2 DEF Size, Up
<1>4. \A k \in 0 .. n - 1 : w[k + 1] = turns[n - k].user + turns[n - k].reply
    <2> SUFFICES ASSUME NEW k \in 0 .. n - 1
                 PROVE  w[k + 1] = turns[n - k].user + turns[n - k].reply
        OBVIOUS
    <2>1. k + 1 \in 1 .. n /\ n + 1 - (k + 1) = n - k
        BY <1>1
    <2> QED
        BY <2>1
<1> HIDE DEF w
<1>5. /\ Up(w, 0) = 0
      /\ \A k \in 0 .. n : Up(w, k) \in Nat
      /\ \A k \in 0 .. n - 1 : Up(w, k + 1) = Up(w, k) + w[k + 1]
    BY <1>1, <1>2, Ups
<1>6. \A j \in 0 .. n : \A k \in j .. n : Up(w, j) <= Up(w, k)
    BY <1>1, <1>2, UpGrows
<1> HIDE DEF n
<1>7. \A k \in 0 .. n - 1 : k \in 0 .. n /\ k + 1 \in 0 .. n
    BY <1>1
<1>8. \A j \in 0 .. n : \A k \in j .. n : k \in 0 .. n
    BY <1>1
<1>9. 0 \in 0 .. n
    BY <1>1
<1> QED
    BY <1>3, <1>4, <1>5, <1>6, <1>7, <1>8, <1>9 DEF n

\* The two messages of a turn.
Said(turns, at) == [kind |-> "whole", from |-> at, len |-> turns[at].user]
Replied(turns, at) == [kind |-> "whole", from |-> at, len |-> turns[at].reply]

LEMMA MessagesAre ==
    ASSUME NEW turns \in Seq(Turn), NEW from \in 1 .. Len(turns) + 1
    PROVE  /\ Messages(turns, from) \in Seq(Message)
           /\ Len(Messages(turns, from)) = 2 * (Len(turns) + 1 - from)
           /\ DOMAIN Messages(turns, from) = 1 .. 2 * (Len(turns) + 1 - from)
           /\ \A t \in 0 .. Len(turns) - from :
                 /\ Messages(turns, from)[2 * t + 1] = Said(turns, from + t)
                 /\ Messages(turns, from)[2 * t + 2] = Replied(turns, from + t)
           /\ \A i \in DOMAIN Messages(turns, from) : \E t \in 0 .. Len(turns) - from :
                 \/ i = 2 * t + 1 /\ Messages(turns, from)[i] = Said(turns, from + t)
                 \/ i = 2 * t + 2 /\ Messages(turns, from)[i] = Replied(turns, from + t)
<1> DEFINE n == Len(turns)
           h == Messages(turns, from)
           m == 2 * (n + 1 - from)
<1>1. n \in Nat /\ from \in Nat /\ m \in Nat
    OBVIOUS
<1>2. \A at \in 1 .. n : turns[at].user \in Nat /\ turns[at].reply \in Nat
    <2>1. \A at \in 1 .. n : turns[at] \in Turn
        OBVIOUS
    <2> QED
        BY <2>1 DEF Turn
<1>3. h = [i \in 1 .. m |->
              LET at == from + (i - 1) \div 2
              IN  [kind |-> "whole", from |-> at,
                   len |-> IF i % 2 = 1 THEN turns[at].user ELSE turns[at].reply]]
    BY DEF Messages
<1> HIDE DEF h
<1>4. ASSUME NEW t \in 0 .. n - from
      PROVE  /\ 2 * t + 1 \in 1 .. m /\ 2 * t + 2 \in 1 .. m /\ from + t \in 1 .. n
             /\ h[2 * t + 1] = Said(turns, from + t)
             /\ h[2 * t + 2] = Replied(turns, from + t)
    <2>1. 2 * t + 1 \in 1 .. m /\ 2 * t + 2 \in 1 .. m /\ from + t \in 1 .. n
        BY <1>1
    <2>2. /\ ((2 * t + 1) - 1) \div 2 = t /\ (2 * t + 1) % 2 = 1
          /\ ((2 * t + 2) - 1) \div 2 = t /\ (2 * t + 2) % 2 # 1
        BY HalvesBack
    <2> HIDE DEF m
    <2>3. h[2 * t + 1] = Said(turns, from + t)
        BY <1>3, <2>1, <2>2 DEF Said
    <2>4. h[2 * t + 2] = Replied(turns, from + t)
        BY <1>3, <2>1, <2>2 DEF Replied
    <2> QED
        BY <2>1, <2>3, <2>4
<1>5. ASSUME NEW i \in 1 .. m
      PROVE  \E t \in 0 .. n - from :
                 \/ i = 2 * t + 1 /\ h[i] = Said(turns, from + t)
                 \/ i = 2 * t + 2 /\ h[i] = Replied(turns, from + t)
    <2> DEFINE t == (i - 1) \div 2
    <2>1. i \in Nat /\ i > 0
        BY <1>1
    <2>2. t \in Nat /\ (i = 2 * t + 1 \/ i = 2 * t + 2)
        BY <2>1, Halves
    <2> HIDE DEF t
    <2>3. t \in 0 .. n - from
        BY <2>2, <1>1
    <2> QED
        BY <2>2, <2>3, <1>4
<1>6. h \in Seq(Message)
    <2>1. \A t \in 0 .. n - from : Said(turns, from + t) \in Message /\ Replied(turns, from + t) \in Message
        <3> SUFFICES ASSUME NEW t \in 0 .. n - from
                     PROVE  Said(turns, from + t) \in Message /\ Replied(turns, from + t) \in Message
            OBVIOUS
        <3>1. from + t \in 1 .. n /\ from + t \in Nat
            BY <1>1
        <3>2. turns[from + t].user \in Nat /\ turns[from + t].reply \in Nat
            BY <3>1, <1>2
        <3> QED
            BY <3>1, <3>2 DEF Said, Replied, Message, Kind
    <2>2. \A i \in 1 .. m : h[i] \in Message
        BY <2>1, <1>5
    <2> HIDE DEF m
    <2>3. h \in [1 .. m -> Message]
        BY <2>2, <1>3
    <2> QED
        BY <2>3, <1>1
<1>7. DOMAIN h = 1 .. m /\ Len(h) = m
    <2> HIDE DEF m
    <2> QED
        BY <1>1, <1>3
<1> QED
    BY <1>4, <1>5, <1>6, <1>7 DEF h

\* Whole turns weigh what they measure.
LEMMA MessagesTotal ==
    ASSUME NEW turns \in Seq(Turn), NEW kinds, "whole" \in kinds, NEW last \in 0 .. Len(turns)
    PROVE  TotalOf(Messages(turns, Len(turns) + 1 - last), kinds) = Size(turns, last)
<1> DEFINE n == Len(turns)
           M(k) == Messages(turns, n + 1 - k)
           W(k) == Weights(M(k), kinds)
           T == {k \in 0 .. n : Sum(W(k)) = Size(turns, k)}
<1>1. n \in Nat
    OBVIOUS
<1>2. ASSUME NEW k \in 0 .. n
      PROVE  /\ M(k) \in Seq(Message) /\ DOMAIN M(k) = 1 .. 2 * k /\ Len(M(k)) = 2 * k
             /\ \A t \in 0 .. k - 1 :
                   /\ M(k)[2 * t + 1] = Said(turns, (n + 1 - k) + t)
                   /\ M(k)[2 * t + 2] = Replied(turns, (n + 1 - k) + t)
             /\ \A i \in 1 .. 2 * k : \E t \in 0 .. k - 1 : i = 2 * t + 1 \/ i = 2 * t + 2
             /\ W(k) \in [1 .. 2 * k -> Nat] /\ TotalOf(M(k), kinds) = Sum(W(k))
    <2> DEFINE from == n + 1 - k
    <2>1. from \in 1 .. n + 1 /\ 2 * (n + 1 - from) = 2 * k /\ n - from = k - 1
        BY <1>1
    <2> HIDE DEF from
    <2>2. /\ Messages(turns, from) \in Seq(Message)
          /\ Len(Messages(turns, from)) = 2 * (n + 1 - from)
          /\ DOMAIN Messages(turns, from) = 1 .. 2 * (n + 1 - from)
          /\ \A t \in 0 .. n - from :
                /\ Messages(turns, from)[2 * t + 1] = Said(turns, from + t)
                /\ Messages(turns, from)[2 * t + 2] = Replied(turns, from + t)
          /\ \A i \in DOMAIN Messages(turns, from) : \E t \in 0 .. n - from :
                \/ i = 2 * t + 1 /\ Messages(turns, from)[i] = Said(turns, from + t)
                \/ i = 2 * t + 2 /\ Messages(turns, from)[i] = Replied(turns, from + t)
        BY <2>1, MessagesAre
    <2>3. /\ Weights(Messages(turns, from), kinds) \in [1 .. Len(Messages(turns, from)) -> Nat]
          /\ TotalOf(Messages(turns, from), kinds) = Sum(Weights(Messages(turns, from), kinds))
        BY <2>2, WeightsAre
    <2> HIDE DEF n
    <2> QED
        BY <2>1, <2>2, <2>3 DEF from
<1>3. ASSUME NEW k \in 0 .. n, NEW i \in 1 .. 2 * k PROVE W(k)[i] = M(k)[i].len
    <2> HIDE DEF M, n
    <2>1. PICK t \in 0 .. k - 1 : i = 2 * t + 1 \/ i = 2 * t + 2
        BY <1>2
    <2>2. M(k)[i] = Said(turns, (n + 1 - k) + t) \/ M(k)[i] = Replied(turns, (n + 1 - k) + t)
        BY <2>1, <1>2
    <2>4. M(k)[i].kind = "whole"
        BY <2>2 DEF Said, Replied
    <2>3. DOMAIN M(k) = 1 .. 2 * k
        BY <1>2
    <2> QED
        BY <2>3, <2>4 DEF Weights
<1>4. /\ Size(turns, 0) = 0
      /\ \A k \in 0 .. n : Size(turns, k) \in Nat
      /\ \A k \in 0 .. n - 1 :
            Size(turns, k + 1) = Size(turns, k) + (turns[n - k].user + turns[n - k].reply)
    BY Sizes
<1>5. \A i \in 1 .. n : turns[i].user \in Nat /\ turns[i].reply \in Nat
    <2>1. \A i \in 1 .. n : turns[i] \in Turn
        OBVIOUS
    <2> QED
        BY <2>1 DEF Turn
<1> HIDE DEF M, W, n
<1>6. 0 \in T
    <2>1. 0 \in 0 .. n /\ 2 * 0 = 0
        BY <1>1
    <2>2. W(0) \in [1 .. 0 -> Nat]
        BY <2>1, <1>2
    <2>3. Up(W(0), 0) = 0 /\ Sum(W(0)) = Up(W(0), 0)
        BY <2>2, Ups
    <2> QED
        BY <2>1, <2>3, <1>4
<1>7. \A k \in 0 .. n - 1 : k \in T => k + 1 \in T
    <2> SUFFICES ASSUME NEW k \in 0 .. n - 1, Sum(W(k)) = Size(turns, k)
                 PROVE  Sum(W(k + 1)) = Size(turns, k + 1)
        BY <1>1
    <2> DEFINE v == [i \in 1 .. 2 * k + 1 |-> W(k + 1)[i + 1]]
               w == W(k + 1)
    <2>1. /\ k \in 0 .. n /\ k + 1 \in 0 .. n /\ k \in Nat /\ 2 * (k + 1) = (2 * k + 1) + 1
          /\ n + 1 - (k + 1) = n - k /\ n - k \in 1 .. n
        BY <1>1
    <2>2. w \in [1 .. (2 * k + 1) + 1 -> Nat] /\ W(k) \in [1 .. 2 * k -> Nat]
        BY <2>1, <1>2
    <2>3. w[1] = turns[n - k].user /\ w[2] = turns[n - k].reply
        <3>1. 0 \in 0 .. (k + 1) - 1 /\ 2 * 0 + 1 = 1 /\ 2 * 0 + 2 = 2 /\ (n - k) + 0 = n - k
            BY <2>1
        <3>2. M(k + 1)[1] = Said(turns, n - k) /\ M(k + 1)[2] = Replied(turns, n - k)
            BY <1>2, <2>1, <3>1
        <3>3. 1 \in 1 .. 2 * (k + 1) /\ 2 \in 1 .. 2 * (k + 1)
            BY <2>1
        <3>4. w[1] = M(k + 1)[1].len /\ w[2] = M(k + 1)[2].len
            BY <1>3, <2>1, <3>3
        <3> QED
            BY <3>2, <3>4 DEF Said, Replied
    <2>4. ASSUME NEW i \in 1 .. 2 * k PROVE w[i + 2] = W(k)[i]
        <3>1. PICK t \in 0 .. k - 1 : i = 2 * t + 1 \/ i = 2 * t + 2
            BY <1>2, <2>1
        <3>2. /\ t + 1 \in 0 .. (k + 1) - 1 /\ (n - k) + (t + 1) = (n + 1 - k) + t
              /\ 2 * (t + 1) + 1 = (2 * t + 1) + 2 /\ 2 * (t + 1) + 2 = (2 * t + 2) + 2
            BY <2>1, <1>1
        <3>3. /\ M(k + 1)[2 * (t + 1) + 1] = Said(turns, (n - k) + (t + 1))
              /\ M(k + 1)[2 * (t + 1) + 2] = Replied(turns, (n - k) + (t + 1))
            BY <1>2, <2>1, <3>2
        <3>4. /\ M(k)[2 * t + 1] = Said(turns, (n + 1 - k) + t)
              /\ M(k)[2 * t + 2] = Replied(turns, (n + 1 - k) + t)
            BY <1>2, <2>1
        <3>5. M(k + 1)[i + 2] = M(k)[i]
            BY <3>1, <3>2, <3>3, <3>4
        <3>6. i + 2 \in 1 .. 2 * (k + 1)
            BY <2>1
        <3> QED
            BY <3>5, <3>6, <1>3, <2>1
    <2> HIDE DEF w
    <2>5. v \in [1 .. 2 * k + 1 -> Nat] /\ \A i \in 1 .. 2 * k + 1 : v[i] = w[i + 1]
        <3>1. \A i \in 1 .. 2 * k + 1 : w[i + 1] \in Nat
            BY <2>1, <2>2
        <3>2. v = [i \in 1 .. 2 * k + 1 |-> w[i + 1]]
            BY DEF w
        <3> QED
            BY <3>1, <3>2
    <2> HIDE DEF v
    <2>6. Sum(w) = w[1] + Sum(v)
        <3>1. 2 * k + 1 \in Nat
            BY <2>1
        <3> QED
            BY <3>1, <2>2, <2>5, SumHead
    <2>7. Sum(v) = v[1] + Sum(W(k))
        <3>1. 2 * k \in Nat
            BY <2>1
        <3>2. \A i \in 1 .. 2 * k : W(k)[i] = v[i + 1]
            <4> SUFFICES ASSUME NEW i \in 1 .. 2 * k PROVE W(k)[i] = v[i + 1]
                OBVIOUS
            <4>1. i + 1 \in 1 .. 2 * k + 1 /\ (i + 1) + 1 = i + 2
                BY <3>1
            <4> QED
                BY <4>1, <2>4, <2>5
        <3> QED
            BY <3>1, <3>2, <2>2, <2>5, SumHead
    <2>8. v[1] = w[2]
        <3>1. 1 \in 1 .. 2 * k + 1 /\ 1 + 1 = 2
            BY <2>1
        <3> QED
            BY <3>1, <2>5
    <2>9. Size(turns, k + 1) = Size(turns, k) + (turns[n - k].user + turns[n - k].reply)
        BY <1>4
    <2>10. Size(turns, k) \in Nat /\ turns[n - k].user \in Nat /\ turns[n - k].reply \in Nat
        BY <1>4, <1>5, <2>1
    <2>11. Sum(w) = turns[n - k].user + (turns[n - k].reply + Size(turns, k))
        BY <2>3, <2>6, <2>7, <2>8
    <2>12. Sum(w) = Size(turns, k + 1)
        BY <2>9, <2>10, <2>11
    <2> QED
        BY <2>12 DEF w
<1>8. \A k \in 0 .. n : k \in T
    <2> HIDE DEF T
    <2> QED
        BY <1>1, <1>6, <1>7, UpTo
<1>9. last \in T
    BY <1>8 DEF n
<1>10. TotalOf(M(last), kinds) = Sum(W(last))
    BY <1>2 DEF n
<1> QED
    BY <1>9, <1>10 DEF M, n

\* Every set of small numbers that is not empty has a greatest element.
LEMMA GreatestExists ==
    ASSUME NEW n \in Nat, NEW S, S \subseteq 0 .. n, S # {}
    PROVE  \E x \in S : \A y \in S : y <= x
<1> DEFINE U == {n - x : x \in S}
<1>1. U \subseteq Nat /\ U # {}
    <2>1. \A x \in S : x \in Nat /\ x <= n
        OBVIOUS
    <2>2. PICK x \in S : TRUE
        OBVIOUS
    <2> QED
        BY <2>1, <2>2
<1>2. PICK u \in U : \A v \in U : u <= v
    <2> HIDE DEF U
    <2> QED
        BY <1>1, LeastExists
<1>3. PICK x \in S : u = n - x
    BY <1>2
<1>4. ASSUME NEW y \in S PROVE y <= x
    <2>1. n - y \in U /\ x \in 0 .. n /\ y \in 0 .. n
        OBVIOUS
    <2>2. n - x <= n - y
        BY <2>1, <1>2, <1>3
    <2> QED
        BY <2>1, <2>2
<1> QED
    BY <1>4

\* As many turns fit as there are that fit together.
LEMMA FittingIs ==
    ASSUME NEW turns \in Seq(Turn), NEW max \in Nat
    PROVE  /\ Fitting(turns, max) \in 0 .. Len(turns)
           /\ Size(turns, Fitting(turns, max)) <= max
           /\ \A k \in 0 .. Len(turns) : Size(turns, k) <= max => k <= Fitting(turns, max)
<1> DEFINE n == Len(turns)
           S == {k \in 0 .. n : Size(turns, k) <= max}
<1>1. n \in Nat
    OBVIOUS
<1>2. 0 \in S
    BY <1>1, Sizes
<1>3. S \subseteq 0 .. n
    OBVIOUS
<1>4. Fitting(turns, max) = Max(S)
    BY DEF Fitting
<1> HIDE DEF S, n
<1>5. PICK x \in S : \A y \in S : y <= x
    BY <1>1, <1>2, <1>3, GreatestExists
<1>6. Max(S) = x
    <2>1. S \subseteq Nat
        BY <1>1, <1>3
    <2> QED
        BY <2>1, <1>5, MaxOf
<1> QED
    BY <1>4, <1>5, <1>6 DEF S, n

\* What is selected: the turns that fit, or the tail of the last one.
CutPart(at, len) == [kind |-> "cut", len |-> len, from |-> at]
Selected(h, turns, max) ==
    \/ \E k \in 0 .. Len(turns) :
          /\ k > 0 \/ Len(turns) = 0
          /\ h = Messages(turns, Len(turns) + 1 - k)
          /\ Size(turns, k) <= max
          /\ k < Len(turns) => Size(turns, k + 1) > max
    \/ /\ Len(turns) > 0 /\ Size(turns, 1) > max
       /\ \/ /\ turns[Len(turns)].reply <= max
             /\ h = <<CutPart(Len(turns), Cut(turns[Len(turns)].user, max - turns[Len(turns)].reply)),
                      Replied(turns, Len(turns))>>
          \/ h = <<CutPart(Len(turns), Cut(turns[Len(turns)].reply, max))>>

LEMMA SelectIs ==
    ASSUME NEW turns \in Seq(Turn), NEW max \in Nat
    PROVE  Selected(Select(turns, max), turns, max)
<1> DEFINE n == Len(turns)
           k == Fitting(turns, max)
           h == Select(turns, max)
           Ending(u) == <<CutPart(n, Cut(u, max))>>
           Pair == <<CutPart(n, Cut(turns[n].user, max - turns[n].reply)), Replied(turns, n)>>
<1>1. n \in Nat /\ (turns = <<>> <=> n = 0)
    OBVIOUS
<1>2. k \in 0 .. n /\ Size(turns, k) <= max /\ \A j \in 0 .. n : Size(turns, j) <= max => j <= k
    BY FittingIs
<1>3. \A j \in 0 .. n : Size(turns, j) \in Nat
    BY Sizes
<1>4. /\ turns = <<>> \/ k > 0 => h = Messages(turns, n + 1 - k)
      /\ ~(turns = <<>> \/ k > 0) /\ turns[n].reply <= max => h = Pair
      /\ ~(turns = <<>> \/ k > 0) /\ ~(turns[n].reply <= max) => h = Ending(turns[n].reply)
    <2>1. turns = <<>> \/ k > 0 => h = Messages(turns, n + 1 - k)
        BY DEF Select
    <2>2. ~(turns = <<>> \/ k > 0) /\ turns[n].reply <= max => h = Pair
        BY DEF Select, CutPart, Replied
    <2>3. ~(turns = <<>> \/ k > 0) /\ ~(turns[n].reply <= max) => h = Ending(turns[n].reply)
        BY DEF Select, CutPart
    <2> QED
        BY <2>1, <2>2, <2>3
<1> HIDE DEF h, k, Ending, Pair
<1>5. CASE turns = <<>> \/ k > 0
    <2>1. k < n => Size(turns, k + 1) > max
        <3> SUFFICES ASSUME k < n PROVE Size(turns, k + 1) > max
            OBVIOUS
        <3>1. k + 1 \in 0 .. n /\ ~(k + 1 <= k)
            BY <1>1, <1>2
        <3>2. ~(Size(turns, k + 1) <= max) /\ Size(turns, k + 1) \in Nat
            BY <3>1, <1>2, <1>3
        <3> QED
            BY <3>2
    <2>2. k > 0 \/ n = 0
        BY <1>1, <1>5
    <2>3. h = Messages(turns, n + 1 - k)
        BY <1>4, <1>5
    <2> QED
        BY <2>1, <2>2, <2>3, <1>2 DEF Selected, h
<1>6. CASE ~(turns = <<>> \/ k > 0)
    <2>1. 1 \in 0 .. n /\ ~(1 <= k) /\ n > 0
        BY <1>1, <1>2, <1>6
    <2>2. Size(turns, 1) > max
        BY <2>1, <1>2, <1>3
    <2>3. (turns[n].reply <= max /\ h = Pair) \/ h = Ending(turns[n].reply)
        BY <1>4, <1>6
    <2> QED
        BY <2>1, <2>2, <2>3 DEF Selected, h, Ending, Pair
<1> QED
    BY <1>5, <1>6

\* A cut text has the length it is cut to, but at least that of a mark and a
\* character.
LEMMA CutIs ==
    ASSUME NEW room \in Nat, NEW len
    PROVE  Cut(len, room) \in Nat /\ Cut(len, room) <= room + Marker + 1
<1> DEFINE a == room - 35
<1>1. a \in Int /\ 1 \in Int
    OBVIOUS
<1>2. Cut(len, room) = Max({a, 1}) + 35
    BY DEF Cut, Marker
<1> HIDE DEF a
<1>3. Max({a, 1}) = IF a >= 1 THEN a ELSE 1
    BY <1>1, Greater
<1> QED
    BY <1>2, <1>3 DEF a, Marker

\* One message, or two, weigh what they measure.
LEMMA FewTotal ==
    ASSUME NEW kinds, NEW p \in Message, p.kind \in kinds, NEW q \in Message, q.kind \in kinds
    PROVE  TotalOf(<<p>>, kinds) = p.len /\ TotalOf(<<p, q>>, kinds) = p.len + q.len
<1>1. p.len \in Nat /\ q.len \in Nat
    BY DEF Message
<1>2. TotalOf(<<p>>, kinds) = p.len
    <2> DEFINE w == Weights(<<p>>, kinds)
    <2>1. w \in [1 .. 1 -> Nat] /\ w[1] = p.len /\ 0 + 1 = 1 /\ 1 \in Nat /\ 0 \in 0 .. 1 - 1
        BY <1>1 DEF Weights
    <2>2. TotalOf(<<p>>, kinds) = Sum(w)
        BY DEF TotalOf, Weights
    <2> HIDE DEF w
    <2>3. /\ Up(w, 0) = 0 /\ \A k \in 0 .. 1 - 1 : Up(w, k + 1) = Up(w, k) + w[k + 1]
          /\ Sum(w) = Up(w, 1)
        BY <2>1, Ups
    <2>4. Up(w, 0 + 1) = Up(w, 0) + w[0 + 1]
        BY <2>1, <2>3
    <2> QED
        BY <2>1, <2>2, <2>3, <2>4, <1>1
<1>3. TotalOf(<<p, q>>, kinds) = p.len + q.len
    <2> DEFINE w == Weights(<<p, q>>, kinds)
    <2>1. w \in [1 .. 2 -> Nat] /\ w[1] = p.len /\ w[2] = q.len
        BY <1>1 DEF Weights
    <2>2. TotalOf(<<p, q>>, kinds) = Sum(w)
        BY DEF TotalOf, Weights
    <2> HIDE DEF w
    <2>3. /\ Up(w, 0) = 0 /\ \A k \in 0 .. 2 - 1 : Up(w, k + 1) = Up(w, k) + w[k + 1]
          /\ Sum(w) = Up(w, 2)
        BY <2>1, Ups
    <2>4. 0 \in 0 .. 2 - 1 /\ 1 \in 0 .. 2 - 1 /\ 0 + 1 = 1 /\ 1 + 1 = 2
        OBVIOUS
    <2>5. Up(w, 0 + 1) = Up(w, 0) + w[0 + 1] /\ Up(w, 1 + 1) = Up(w, 1) + w[1 + 1]
        BY <2>3, <2>4
    <2>6. Up(w, 1) = Up(w, 0) + w[1] /\ Up(w, 2) = Up(w, 1) + w[2]
        BY <2>4, <2>5
    <2> QED
        BY <2>1, <2>2, <2>3, <2>6, <1>1
<1> QED
    BY <1>2, <1>3

Old == {"whole", "cut"}

\* The messages are those of the last n turns, in their order.
Newest(h, turns, n) ==
    /\ {h[i].from : i \in DOMAIN h} = Len(turns) - n + 1 .. Len(turns)
    /\ \A i, j \in DOMAIN h : i < j => h[i].from <= h[j].from

\* What is said of a history of n turns that was selected.
Fair(h, turns, max, n) ==
    /\ n <= Len(turns)
    /\ Newest(h, turns, n)
    /\ \/ Len(h) = 2 * n /\ \A i \in DOMAIN h : h[i].kind = "whole"
       \/ n = 1 /\ Size(turns, 1) > max
    /\ n < Len(turns) => Size(turns, n + 1) > max

LEMMA SelectedIsFair ==
    ASSUME NEW turns \in Seq(Turn), NEW max \in Nat, NEW h, Selected(h, turns, max)
    PROVE  /\ h \in Seq(Message)
           /\ \A i \in DOMAIN h : h[i].kind \in Old
           /\ TotalOf(h, Old) <= max + Marker + 1
           /\ \E n \in Nat : Fair(h, turns, max, n)
<1> DEFINE last == Len(turns)
<1>1. last \in Nat
    OBVIOUS
<1>2. ASSUME NEW k \in 0 .. last, k > 0 \/ last = 0, h = Messages(turns, last + 1 - k),
             Size(turns, k) <= max, k < last => Size(turns, k + 1) > max
      PROVE  /\ h \in Seq(Message)
             /\ \A i \in DOMAIN h : h[i].kind \in Old
             /\ TotalOf(h, Old) <= max + Marker + 1
             /\ \E n \in Nat : Fair(h, turns, max, n)
    <2> DEFINE from == last + 1 - k
    <2>1. /\ from \in 1 .. last + 1 /\ from \in Nat /\ k \in Nat /\ last - from = k - 1
          /\ 2 * (last + 1 - from) = 2 * k /\ h = Messages(turns, from)
        BY <1>1, <1>2
    <2> HIDE DEF from
    <2>2. /\ h \in Seq(Message) /\ Len(h) = 2 * k /\ DOMAIN h = 1 .. 2 * k
          /\ \A t \in 0 .. k - 1 : /\ h[2 * t + 1] = Said(turns, from + t)
                                   /\ h[2 * t + 2] = Replied(turns, from + t)
          /\ \A i \in DOMAIN h : \E t \in 0 .. k - 1 :
                \/ i = 2 * t + 1 /\ h[i] = Said(turns, from + t)
                \/ i = 2 * t + 2 /\ h[i] = Replied(turns, from + t)
        <3>1. /\ Messages(turns, from) \in Seq(Message)
              /\ Len(Messages(turns, from)) = 2 * (last + 1 - from)
              /\ DOMAIN Messages(turns, from) = 1 .. 2 * (last + 1 - from)
              /\ \A t \in 0 .. last - from :
                    /\ Messages(turns, from)[2 * t + 1] = Said(turns, from + t)
                    /\ Messages(turns, from)[2 * t + 2] = Replied(turns, from + t)
              /\ \A i \in DOMAIN Messages(turns, from) : \E t \in 0 .. last - from :
                    \/ i = 2 * t + 1 /\ Messages(turns, from)[i] = Said(turns, from + t)
                    \/ i = 2 * t + 2 /\ Messages(turns, from)[i] = Replied(turns, from + t)
            BY <2>1, MessagesAre
        <3> HIDE DEF last
        <3> QED
            BY <3>1, <2>1
    <2>3. ASSUME NEW i \in DOMAIN h
          PROVE  \E t \in 0 .. k - 1 :
                    /\ i = 2 * t + 1 \/ i = 2 * t + 2
                    /\ h[i].kind = "whole" /\ h[i].from = from + t
        BY <2>2 DEF Said, Replied
    <2>4. \A i \in DOMAIN h : h[i].kind = "whole"
        BY <2>3
    <2>5. TotalOf(h, Old) <= max + Marker + 1
        <3>1. TotalOf(h, Old) = Size(turns, k)
            BY <1>2, MessagesTotal DEF Old
        <3>2. Size(turns, k) \in Nat
            BY Sizes
        <3> QED
            BY <3>1, <3>2, <1>2 DEF Marker
    <2>6. {h[i].from : i \in DOMAIN h} = last - k + 1 .. last
        <3> DEFINE F == {h[i].from : i \in DOMAIN h}
        <3>1. ASSUME NEW x \in F PROVE x \in last - k + 1 .. last
            <4>1. PICK t \in 0 .. k - 1 : x = from + t
                BY <2>3
            <4> QED
                BY <4>1, <2>1, <1>1
        <3>2. ASSUME NEW x \in last - k + 1 .. last PROVE x \in F
            <4>1. x - from \in 0 .. k - 1 /\ from + (x - from) = x
                BY <2>1, <1>1
            <4>2. 2 * (x - from) + 1 \in DOMAIN h
                BY <4>1, <2>1, <2>2
            <4>3. h[2 * (x - from) + 1] = Said(turns, from + (x - from))
                BY <4>1, <2>2
            <4>4. h[2 * (x - from) + 1].from = x
                BY <4>1, <4>3 DEF Said
            <4> QED
                BY <4>2, <4>4
        <3> QED
            BY <3>1, <3>2
    <2>7. ASSUME NEW i \in DOMAIN h, NEW j \in DOMAIN h, i < j
          PROVE  h[i].from <= h[j].from
        <3>1. PICK s \in 0 .. k - 1 : (i = 2 * s + 1 \/ i = 2 * s + 2) /\ h[i].from = from + s
            BY <2>3
        <3>2. PICK t \in 0 .. k - 1 : (j = 2 * t + 1 \/ j = 2 * t + 2) /\ h[j].from = from + t
            BY <2>3
        <3>3. s <= t
            BY <3>1, <3>2, <2>7
        <3> QED
            BY <3>1, <3>2, <3>3, <2>1
    <2>8. Fair(h, turns, max, k)
        BY <2>2, <2>4, <2>6, <2>7, <1>2 DEF Fair, Newest
    <2> QED
        BY <2>1, <2>2, <2>4, <2>5, <2>8 DEF Old
<1>3. ASSUME last > 0, Size(turns, 1) > max
      PROVE  /\ turns[last].user \in Nat /\ turns[last].reply \in Nat
             /\ 1 < last => Size(turns, 1 + 1) > max
             /\ last - 1 + 1 .. last = {last} /\ 1 <= last
    <2>1. turns[last] \in Turn
        BY <1>1, <1>3
    <2>2. 1 < last => Size(turns, 1 + 1) > max
        <3> SUFFICES ASSUME 1 < last PROVE Size(turns, 1 + 1) > max
            OBVIOUS
        <3>1. 1 \in 0 .. last /\ 1 + 1 \in 1 .. last /\ 1 + 1 \in 0 .. last
            BY <1>1
        <3>2. Size(turns, 1) <= Size(turns, 1 + 1) /\ Size(turns, 1) \in Nat /\ Size(turns, 1 + 1) \in Nat
            BY <3>1, Sizes
        <3> QED
            BY <3>2, <1>3
    <2> QED
        BY <2>1, <2>2, <1>1, <1>3 DEF Turn
<1>4. ASSUME last > 0, Size(turns, 1) > max, turns[last].reply <= max,
             h = <<CutPart(last, Cut(turns[last].user, max - turns[last].reply)), Replied(turns, last)>>
      PROVE  /\ h \in Seq(Message)
             /\ \A i \in DOMAIN h : h[i].kind \in Old
             /\ TotalOf(h, Old) <= max + Marker + 1
             /\ \E n \in Nat : Fair(h, turns, max, n)
    <2> DEFINE c == Cut(turns[last].user, max - turns[last].reply)
               p == CutPart(last, c)
               q == Replied(turns, last)
    <2>1. c \in Nat /\ c <= (max - turns[last].reply) + Marker + 1
        <3>1. max - turns[last].reply \in Nat
            BY <1>3, <1>4
        <3> QED
            BY <3>1, CutIs
    <2> HIDE DEF c
    <2>2. /\ p \in Message /\ p.kind \in Old /\ p.len = c /\ p.from = last
          /\ q \in Message /\ q.kind \in Old /\ q.len = turns[last].reply /\ q.from = last
        BY <2>1, <1>1, <1>3, <1>4 DEF CutPart, Replied, Message, Kind, Old
    <2>3. h = <<p, q>>
        BY <1>4 DEF c
    <2> HIDE DEF p, q
    <2>4. h \in Seq(Message) /\ DOMAIN h = {1, 2} /\ h[1] = p /\ h[2] = q
        BY <2>2, <2>3
    <2>5. TotalOf(h, Old) = c + turns[last].reply
        BY <2>2, <2>3, FewTotal
    <2>6. Newest(h, turns, 1)
        <3>1. {h[i].from : i \in DOMAIN h} = {last}
            BY <2>2, <2>4
        <3>2. \A i, j \in DOMAIN h : h[i].from <= h[j].from
            BY <2>2, <2>4, <1>1
        <3> QED
            BY <3>1, <3>2, <1>3, <1>4 DEF Newest
    <2>7. Fair(h, turns, max, 1)
        BY <2>6, <1>3, <1>4 DEF Fair
    <2>8. TotalOf(h, Old) <= max + Marker + 1
        BY <2>1, <2>5, <1>3, <1>4 DEF Marker
    <2> QED
        BY <2>2, <2>4, <2>7, <2>8
<1>5. ASSUME last > 0, Size(turns, 1) > max, h = <<CutPart(last, Cut(turns[last].reply, max))>>
      PROVE  /\ h \in Seq(Message)
             /\ \A i \in DOMAIN h : h[i].kind \in Old
             /\ TotalOf(h, Old) <= max + Marker + 1
             /\ \E n \in Nat : Fair(h, turns, max, n)
    <2> DEFINE c == Cut(turns[last].reply, max)
               p == CutPart(last, c)
    <2>1. c \in Nat /\ c <= max + Marker + 1
        BY CutIs
    <2> HIDE DEF c
    <2>2. p \in Message /\ p.kind \in Old /\ p.len = c /\ p.from = last
        BY <2>1, <1>1 DEF CutPart, Message, Kind, Old
    <2>3. h = <<p>>
        BY <1>5 DEF c
    <2> HIDE DEF p
    <2>4. h \in Seq(Message) /\ DOMAIN h = {1} /\ h[1] = p
        BY <2>2, <2>3
    <2>5. TotalOf(h, Old) = c
        BY <2>2, <2>3, FewTotal
    <2>6. Newest(h, turns, 1)
        <3>1. {h[i].from : i \in DOMAIN h} = {last}
            BY <2>2, <2>4
        <3>2. \A i, j \in DOMAIN h : h[i].from <= h[j].from
            BY <2>2, <2>4, <1>1
        <3> QED
            BY <3>1, <3>2, <1>3, <1>5 DEF Newest
    <2>7. Fair(h, turns, max, 1)
        BY <2>6, <1>3, <1>5 DEF Fair
    <2> QED
        BY <2>1, <2>2, <2>4, <2>5, <2>7
<1>6. QED
    BY <1>2, <1>4, <1>5 DEF Selected

\* A newest turn that fits is there as a whole.
LEMMA NewestIsThere ==
    ASSUME NEW turns \in Seq(Turn), NEW max \in Nat, NEW h, Selected(h, turns, max),
           Len(turns) > 0, Size(turns, 1) <= max
    PROVE  \E i \in DOMAIN h : h[i].len = turns[Len(turns)].reply
<1> DEFINE n == Len(turns)
<1>1. n \in Nat /\ Size(turns, 1) \in Nat
    <2>1. 1 \in 0 .. Len(turns)
        OBVIOUS
    <2> QED
        BY <2>1, Sizes
<1>2. PICK k \in 0 .. n : k > 0 /\ h = Messages(turns, n + 1 - k)
    BY <1>1 DEF Selected
<1> DEFINE from == n + 1 - k
<1>3. /\ from \in 1 .. n + 1 /\ k - 1 \in 0 .. n - from /\ from + (k - 1) = n
      /\ 2 * (k - 1) + 2 \in 1 .. 2 * (n + 1 - from) /\ h = Messages(turns, from)
    BY <1>1, <1>2
<1> HIDE DEF from
<1>4. /\ DOMAIN h = 1 .. 2 * (n + 1 - from)
      /\ h[2 * (k - 1) + 2] = Replied(turns, from + (k - 1))
    BY <1>3, MessagesAre
<1> QED
    BY <1>3, <1>4 DEF Replied

-----------------------------------------------------------------------------
(* Pruning.                                                                *)

\* Two of the set come behind i.
TwoBehind(i, at) == \E j, k \in at : i < j /\ j < k

\* Then two come behind it that have not two behind them.
LEMMA TwoNewest ==
    ASSUME NEW n \in Nat, NEW at, at \subseteq 0 .. n, NEW i \in Nat, TwoBehind(i, at)
    PROVE  TwoBehind(i, at \ Prunable(at))
<1>0. PICK a \in at, b \in at : i < a /\ a < b
    BY DEF TwoBehind
<1>1. PICK k \in at : \A y \in at : y <= k
    BY GreatestExists
<1> DEFINE rest == at \ {k}
<1>2. a \in rest /\ rest \subseteq 0 .. n /\ rest # {}
    BY <1>0, <1>1
<1>3. PICK j \in rest : \A y \in rest : y <= j
    <2> HIDE DEF rest
    <2> QED
        BY <1>2, GreatestExists
<1>4. /\ j \in at /\ j # k /\ a <= j /\ j <= k /\ j \in Nat /\ k \in Nat /\ a \in Nat
      /\ i < a /\ \A y \in at : y \in Nat /\ (y = k \/ y <= j)
    BY <1>0, <1>1, <1>2, <1>3
<1>5. k \notin Prunable(at)
    BY <1>1, <1>4 DEF Prunable
<1>6. j \notin Prunable(at)
    BY <1>4 DEF Prunable
<1> QED
    BY <1>4, <1>5, <1>6 DEF TwoBehind

\* Pruning makes stubs of old results, and of as many as it takes.
LEMMA PruneIs ==
    ASSUME NEW messages \in Seq(Message), NEW max \in Nat
    PROVE  LET p == Prune(messages, max)
               old == Prunable(Positions(messages, {"result"}))
           IN  /\ p \in Seq(Message) /\ DOMAIN p = DOMAIN messages
               /\ \A i \in DOMAIN messages :
                     \/ p[i] = messages[i]
                     \/ /\ i \in old /\ messages[i].len > Stub
                        /\ p[i] = [messages[i] EXCEPT !.kind = "stub", !.len = Stub]
               /\ (\E i \in old : messages[i].len > Stub /\ p[i] = messages[i]) =>
                     TotalOf(p, {"result"}) <= max
<1> DEFINE n == Len(messages)
           p == Prune(messages, max)
           old == Prunable(Positions(messages, {"result"}))
           saves == [i \in DOMAIN messages |->
                        IF i \in old /\ messages[i].len > Stub THEN messages[i].len - Stub ELSE 0]
           total == TotalOf(messages, {"result"})
           Went(i) == saves[i] > 0 /\ total - Sum(SubSeq(saves, 1, i - 1)) > max
           S(i) == [messages[i] EXCEPT !.kind = "stub", !.len = Stub]
           v == Weights(messages, {"result"})
           w == Weights(p, {"result"})
<1>1. n \in Nat /\ DOMAIN messages = 1 .. n
    OBVIOUS
<1>2. \A i \in 1 .. n : messages[i] \in Message /\ messages[i].len \in Nat
    <2>1. \A i \in 1 .. n : messages[i] \in Message
        OBVIOUS
    <2> QED
        BY <2>1 DEF Message
<1>3. \A i \in old : i \in 1 .. n /\ messages[i].kind = "result"
    BY <1>1 DEF Prunable, Positions
<1>4. p = [i \in DOMAIN messages |-> IF Went(i) THEN S(i) ELSE messages[i]]
    BY DEF Prune
<1> HIDE DEF n, old, p
<1>5. \A i \in 1 .. n : /\ saves[i] \in Nat
                        /\ saves[i] > 0 <=> (i \in old /\ messages[i].len > Stub)
                        /\ saves[i] > 0 => saves[i] = messages[i].len - Stub
    BY <1>1, <1>2 DEF Stub
<1>6. saves \in [1 .. n -> Nat]
    BY <1>1, <1>5
<1>7. total \in Nat /\ v \in [1 .. n -> Nat] /\ total = Sum(v)
    BY WeightsAre DEF n
<1>8. \A i \in 1 .. n : v[i] = IF messages[i].kind = "result" THEN messages[i].len ELSE 0
    BY <1>1 DEF Weights
<1> HIDE DEF saves, total, v
<1>9. /\ Up(saves, 0) = 0
      /\ \A k \in 0 .. n : Up(saves, k) \in Nat
      /\ \A k \in 0 .. n - 1 : Up(saves, k + 1) = Up(saves, k) + saves[k + 1]
    BY <1>1, <1>6, Ups
<1>10. /\ Up(v, 0) = 0
       /\ \A k \in 0 .. n : Up(v, k) \in Nat
       /\ \A k \in 0 .. n - 1 : Up(v, k + 1) = Up(v, k) + v[k + 1]
       /\ total = Up(v, n)
    BY <1>1, <1>7, Ups
<1>11. ASSUME NEW i \in 1 .. n PROVE Sum(SubSeq(saves, 1, i - 1)) = Up(saves, i - 1)
    <2>1. saves \in Seq(Nat) /\ Len(saves) = n
        BY <1>1, <1>6
    <2>2. 1 \in 1 .. Len(saves) + 1 /\ i - 1 \in 1 - 1 .. Len(saves) /\ (i - 1) - 1 + 1 = i - 1
        BY <1>1, <2>1
    <2>3. /\ SubSeq(saves, 1, i - 1) \in Seq(Nat) /\ Len(SubSeq(saves, 1, i - 1)) = i - 1
          /\ \A j \in 1 .. i - 1 : SubSeq(saves, 1, i - 1)[j] = saves[1 + j - 1]
        BY <2>1, <2>2, SubSeqProperties
    <2> DEFINE s == SubSeq(saves, 1, i - 1)
    <2>4. s = [j \in 1 .. i - 1 |-> s[j]]
        BY <2>3
    <2>5. \A j \in 1 .. i - 1 : s[j] = saves[j]
        BY <2>3
    <2> HIDE DEF s
    <2>6. s = [j \in 1 .. i - 1 |-> saves[j]]
        BY <2>4, <2>5
    <2> QED
        BY <2>6 DEF s, Up
<1>12. \A i \in 1 .. n : Went(i) <=> saves[i] > 0 /\ total - Up(saves, i - 1) > max
    BY <1>11
<1> HIDE DEF Went
<1>13. ASSUME NEW i \in 1 .. n
       PROVE  /\ Went(i) => p[i] = S(i) /\ p[i].kind = "stub" /\ p[i].len = Stub
              /\ ~Went(i) => p[i] = messages[i]
              /\ p[i] \in Message
    <2>1. messages[i] \in Message
        BY <1>2
    <2>2. S(i) \in Message /\ S(i).kind = "stub" /\ S(i).len = Stub
        BY <2>1 DEF Message, Kind, Stub
    <2>3. p[i] = IF Went(i) THEN S(i) ELSE messages[i]
        BY <1>1, <1>4
    <2> HIDE DEF S
    <2> QED
        BY <2>1, <2>2, <2>3
<1>14. p \in Seq(Message) /\ DOMAIN p = 1 .. n /\ Len(p) = n
    <2>1. DOMAIN p = 1 .. n
        BY <1>1, <1>4
    <2>2. p = [i \in 1 .. n |-> p[i]]
        BY <1>1, <1>4
    <2>3. p \in [1 .. n -> Message]
        BY <1>13, <2>2
    <2> QED
        BY <1>1, <2>1, <2>3
<1>15. w \in [1 .. n -> Nat] /\ TotalOf(p, {"result"}) = Sum(w)
    BY <1>14, WeightsAre
<1>16. ASSUME NEW i \in 1 .. n
       PROVE  /\ Went(i) => w[i] = 0
              /\ ~Went(i) => w[i] = v[i]
    BY <1>8, <1>13, <1>14 DEF Weights
<1> HIDE DEF w
<1>17. /\ Up(w, 0) = 0
       /\ \A k \in 0 .. n : Up(w, k) \in Nat
       /\ \A k \in 0 .. n - 1 : Up(w, k + 1) = Up(w, k) + w[k + 1]
       /\ Sum(w) = Up(w, n)
    BY <1>1, <1>15, Ups
<1>18. ASSUME NEW i \in old, messages[i].len > Stub, p[i] = messages[i]
       PROVE  Sum(w) <= max
    <2> DEFINE T == {k \in 0 .. n : \/ Up(w, k) <= Up(v, k) - Up(saves, k)
                                    \/ Up(w, k) + (total - Up(v, k)) <= max}
    <2>1. i \in 1 .. n /\ saves[i] > 0 /\ ~Went(i)
        <3>1. i \in 1 .. n /\ messages[i].kind = "result"
            BY <1>3
        <3> QED
            BY <3>1, <1>5, <1>13, <1>18
    <2>2. 0 \in T
        BY <1>1, <1>9, <1>10, <1>17
    <2>3. \A k \in 0 .. n - 1 : k \in T => k + 1 \in T
        <3> SUFFICES ASSUME NEW k \in 0 .. n - 1,
                            \/ Up(w, k) <= Up(v, k) - Up(saves, k)
                            \/ Up(w, k) + (total - Up(v, k)) <= max
                     PROVE  \/ Up(w, k + 1) <= Up(v, k + 1) - Up(saves, k + 1)
                            \/ Up(w, k + 1) + (total - Up(v, k + 1)) <= max
            BY <1>1
        <3>1. k \in 0 .. n /\ k + 1 \in 1 .. n /\ (k + 1) - 1 = k
            BY <1>1
        <3>2. /\ Up(w, k + 1) = Up(w, k) + w[k + 1]
              /\ Up(v, k + 1) = Up(v, k) + v[k + 1]
              /\ Up(saves, k + 1) = Up(saves, k) + saves[k + 1]
            BY <1>9, <1>10, <1>17
        <3>3. Up(w, k) \in Nat /\ Up(v, k) \in Nat /\ Up(saves, k) \in Nat
            BY <3>1, <1>9, <1>10, <1>17
        <3>4. w[k + 1] \in Nat /\ v[k + 1] \in Nat /\ saves[k + 1] \in Nat /\ total \in Nat
            BY <3>1, <1>6, <1>7, <1>15
        <3>5. saves[k + 1] > 0 => v[k + 1] = saves[k + 1] + Stub
            <4> SUFFICES ASSUME saves[k + 1] > 0 PROVE v[k + 1] = saves[k + 1] + Stub
                OBVIOUS
            <4>1. k + 1 \in old /\ saves[k + 1] = messages[k + 1].len - Stub
                BY <3>1, <1>5
            <4>2. messages[k + 1].kind = "result" /\ messages[k + 1].len \in Nat
                BY <3>1, <4>1, <1>2, <1>3
            <4> QED
                BY <3>1, <4>1, <4>2, <1>8 DEF Stub
        <3>6. CASE Went(k + 1)
            <4>1. w[k + 1] = 0 /\ saves[k + 1] > 0
                BY <3>1, <3>6, <1>12, <1>16
            <4>2. v[k + 1] = saves[k + 1] + 34
                BY <4>1, <3>5 DEF Stub
            <4>3. CASE Up(w, k) <= Up(v, k) - Up(saves, k)
                BY <3>2, <3>3, <3>4, <4>1, <4>2, <4>3
            <4>4. CASE Up(w, k) + (total - Up(v, k)) <= max
                <5>1. Up(w, k + 1) = Up(w, k)
                    BY <3>2, <3>3, <4>1
                <5>2. Up(v, k + 1) \in Nat /\ Up(v, k + 1) >= Up(v, k)
                    BY <3>2, <3>3, <3>4
                <5> QED
                    BY <5>1, <5>2, <3>3, <3>4, <4>4
            <4> QED
                BY <4>3, <4>4
        <3>7. CASE ~Went(k + 1)
            <4>1. w[k + 1] = v[k + 1] /\ (saves[k + 1] = 0 \/ ~(total - Up(saves, k) > max))
                <5>1. w[k + 1] = v[k + 1]
                    BY <3>1, <3>7, <1>16
                <5>2. ~(saves[k + 1] > 0 /\ total - Up(saves, k) > max)
                    BY <3>1, <3>7, <1>12
                <5> QED
                    BY <5>1, <5>2, <3>4
            <4>2. CASE Up(w, k) + (total - Up(v, k)) <= max
                BY <3>2, <3>3, <3>4, <4>1, <4>2
            <4>3. CASE Up(w, k) <= Up(v, k) - Up(saves, k) /\ saves[k + 1] = 0
                BY <3>2, <3>3, <3>4, <4>1, <4>3
            <4>4. CASE Up(w, k) <= Up(v, k) - Up(saves, k) /\ ~(total - Up(saves, k) > max)
                BY <3>2, <3>3, <3>4, <4>1, <4>4
            <4> QED
                BY <4>1, <4>2, <4>3, <4>4
        <3> QED
            BY <3>6, <3>7
    <2>4. \A k \in 0 .. n : k \in T
        <3> HIDE DEF T
        <3> QED
            BY <1>1, <2>2, <2>3, UpTo
    <2>5. n \in T
        BY <1>1, <2>4
    <2>6. total - Up(saves, i - 1) <= max
        <3>1. i - 1 \in 0 .. n
            BY <1>1, <2>1
        <3>2. Up(saves, i - 1) \in Nat
            BY <3>1, <1>9
        <3> QED
            BY <2>1, <3>2, <1>7, <1>12
    <2>7. Up(saves, i - 1) <= Up(saves, n)
        <3>1. i - 1 \in 0 .. n /\ n \in i - 1 .. n
            BY <1>1, <2>1
        <3> QED
            BY <3>1, <1>1, <1>6, UpGrows
    <2>8. n \in 0 .. n /\ i - 1 \in 0 .. n
        BY <1>1, <2>1
    <2>9. /\ Up(saves, n) \in Nat /\ Up(saves, i - 1) \in Nat /\ Up(w, n) \in Nat
          /\ total = Up(v, n) /\ Up(v, n) \in Nat /\ Sum(w) = Up(w, n)
        BY <2>8, <1>9, <1>10, <1>17
    <2>10. \/ Up(w, n) <= Up(v, n) - Up(saves, n)
           \/ Up(w, n) + (total - Up(v, n)) <= max
        BY <2>5
    <2> QED
        BY <2>6, <2>7, <2>9, <2>10
<1>19. ASSUME NEW i \in 1 .. n, p[i] # messages[i]
       PROVE  i \in old /\ messages[i].len > Stub /\ p[i] = S(i)
    BY <1>5, <1>12, <1>13, <1>19
<1> QED
    BY <1>1, <1>14, <1>15, <1>18, <1>19 DEF p, old

\* What StubInv says of a sequence of messages.
Stubs(r) ==
    \A i \in Positions(r, {"stub"}) :
       /\ r[i].len = Stub
       /\ \E j, k \in Positions(r, {"result"}) : i < j /\ j < k

\* The results and stubs that have two behind them, as in PrunedToWhatMatters.
OldTools(r) == Prunable(Positions(r, {"result", "stub"}))

\* What is a result or a stub, and is not old, is a result.
LEMMA NewAreResults ==
    ASSUME NEW r, Stubs(r)
    PROVE  \A i \in Positions(r, {"result", "stub"}) \ OldTools(r) : r[i].kind = "result"
<1> SUFFICES ASSUME NEW i \in Positions(r, {"result", "stub"}), i \notin OldTools(r),
                    r[i].kind # "result"
             PROVE  FALSE
    OBVIOUS
<1>1. i \in Positions(r, {"stub"})
    BY DEF Positions
<1>2. PICK j \in Positions(r, {"result"}), k \in Positions(r, {"result"}) : i < j /\ j < k
    BY <1>1 DEF Stubs
<1>3. j \in Positions(r, {"result", "stub"}) /\ k \in Positions(r, {"result", "stub"})
    BY DEF Positions
<1> QED
    BY <1>2, <1>3 DEF OldTools, Prunable

\* An old result has two results behind it.
LEMMA OldResults ==
    ASSUME NEW r, DOMAIN r \subseteq Nat, Stubs(r), NEW i \in OldTools(r), r[i].kind = "result"
    PROVE  i \in Prunable(Positions(r, {"result"}))
<1> DEFINE tools == Positions(r, {"result", "stub"})
           results == Positions(r, {"result"})
<1>1. i \in results
    BY DEF OldTools, Prunable, Positions
<1>2. PICK j \in tools, k \in tools : i < j /\ j < k
    BY DEF OldTools, Prunable
<1>3. tools \subseteq Nat /\ results \subseteq Nat
    BY DEF Positions
<1>4. ASSUME NEW x \in tools, i < x, x \notin results PROVE \E a, b \in results : i < a /\ a < b
    <2>1. x \in Positions(r, {"stub"})
        BY <1>4 DEF Positions
    <2>2. PICK a \in results, b \in results : x < a /\ a < b
        BY <2>1 DEF Stubs
    <2>3. i \in Nat /\ x \in Nat /\ a \in Nat /\ b \in Nat
        BY <1>1, <1>3
    <2>4. i < a
        BY <2>2, <2>3, <1>4
    <2> HIDE DEF results
    <2> QED
        BY <2>2, <2>4
<1>5. \E a, b \in results : i < a /\ a < b
    <2>1. i \in Nat /\ j \in Nat /\ k \in Nat
        BY <1>1, <1>3
    <2>2. i < k
        BY <1>2, <2>1
    <2> HIDE DEF tools, results
    <2> QED
        BY <1>2, <1>4, <2>2
<1> QED
    BY <1>1, <1>5 DEF Prunable

\* Pruning leaves two results behind every stub.
LEMMA PruneStubs ==
    ASSUME NEW r \in Seq(Message), NEW max \in Nat, Stubs(r)
    PROVE  Stubs(Prune(r, max))
<1> DEFINE p == Prune(r, max)
           at == Positions(r, {"result"})
<1>1. /\ DOMAIN p = DOMAIN r
      /\ \A i \in DOMAIN r :
            \/ p[i] = r[i]
            \/ i \in Prunable(at) /\ p[i] = [r[i] EXCEPT !.kind = "stub", !.len = Stub]
    <2>1. /\ DOMAIN p = DOMAIN r
          /\ \A i \in DOMAIN r :
                \/ p[i] = r[i]
                \/ /\ i \in Prunable(at) /\ r[i].len > Stub
                   /\ p[i] = [r[i] EXCEPT !.kind = "stub", !.len = Stub]
        BY PruneIs
    <2> HIDE DEF p, at
    <2> QED
        BY <2>1
<1> HIDE DEF p
<1>2. DOMAIN r = 1 .. Len(r) /\ Len(r) \in Nat /\ \A i \in DOMAIN r : r[i] \in Message
    OBVIOUS
<1>3. at \subseteq 0 .. Len(r)
    BY <1>2 DEF Positions
<1>4. ASSUME NEW i \in at \ Prunable(at) PROVE i \in Positions(p, {"result"})
    <2>1. i \in DOMAIN r /\ r[i].kind = "result"
        BY DEF Positions
    <2> QED
        BY <2>1, <1>1, <1>4 DEF Positions
<1>5. ASSUME NEW i \in Positions(p, {"stub"})
      PROVE  p[i].len = Stub /\ \E a, b \in at : i < a /\ a < b
    <2>1. i \in DOMAIN r /\ p[i].kind = "stub"
        BY <1>1 DEF Positions
    <2>2. CASE p[i] = r[i]
        <3>1. i \in Positions(r, {"stub"})
            BY <2>1, <2>2 DEF Positions
        <3> QED
            BY <3>1, <2>2 DEF Stubs
    <2>3. CASE i \in Prunable(at) /\ p[i] = [r[i] EXCEPT !.kind = "stub", !.len = Stub]
        <3>1. r[i] \in Message
            BY <2>1, <1>2
        <3>2. p[i].len = Stub
            BY <3>1, <2>3 DEF Message
        <3> HIDE DEF at
        <3>3. \E a, b \in at : i < a /\ a < b
            BY <2>3 DEF Prunable
        <3> QED
            BY <3>2, <3>3
    <2> QED
        BY <2>1, <2>2, <2>3, <1>1
<1> SUFFICES ASSUME NEW i \in Positions(p, {"stub"})
             PROVE  p[i].len = Stub /\ \E j, k \in Positions(p, {"result"}) : i < j /\ j < k
    BY DEF Stubs, p
<1>6. i \in Nat /\ Len(r) \in Nat
    <2>1. i \in 1 .. Len(r)
        BY <1>1, <1>2 DEF Positions
    <2> QED
        BY <2>1, <1>2
<1> HIDE DEF at
<1>7. TwoBehind(i, at)
    BY <1>5 DEF TwoBehind
<1>8. TwoBehind(i, at \ Prunable(at))
    BY <1>3, <1>6, <1>7, TwoNewest
<1> QED
    BY <1>4, <1>5, <1>8 DEF TwoBehind

\* Pruning brings the results within their share, or leaves no old one that
\* is longer than a stub.
LEMMA PruneMatters ==
    ASSUME NEW r \in Seq(Message), NEW max \in Nat, Stubs(r)
    PROVE  \/ TotalOf(Prune(r, max), {"result"}) <= max
           \/ \A i \in OldTools(Prune(r, max)) : Prune(r, max)[i].len <= Stub
<1> DEFINE p == Prune(r, max)
           at == Positions(r, {"result"})
<1>1. /\ DOMAIN p = DOMAIN r
      /\ \A i \in DOMAIN r :
            \/ p[i] = r[i]
            \/ /\ i \in Prunable(at) /\ r[i].len > Stub
               /\ p[i] = [r[i] EXCEPT !.kind = "stub", !.len = Stub]
      /\ (\E i \in Prunable(at) : r[i].len > Stub /\ p[i] = r[i]) => TotalOf(p, {"result"}) <= max
    BY PruneIs
<1>2. Stubs(p)
    BY PruneStubs
<1> HIDE DEF p
<1>3. DOMAIN r = 1 .. Len(r) /\ Len(r) \in Nat /\ \A i \in DOMAIN r : r[i] \in Message
    OBVIOUS
<1>4. Positions(p, {"result", "stub"}) = Positions(r, {"result", "stub"})
    <2>1. ASSUME NEW i \in DOMAIN r PROVE p[i].kind \in {"result", "stub"} <=> r[i].kind \in {"result", "stub"}
        <3>1. CASE p[i] = r[i]
            BY <3>1
        <3>2. CASE i \in Prunable(at) /\ p[i] = [r[i] EXCEPT !.kind = "stub", !.len = Stub]
            <4>1. r[i].kind = "result" /\ r[i] \in Message
                BY <3>2, <1>3 DEF Prunable, Positions
            <4>2. p[i].kind = "stub"
                BY <3>2, <4>1 DEF Message
            <4> QED
                BY <4>1, <4>2
        <3> QED
            BY <3>1, <3>2, <1>1
    <2> QED
        BY <2>1, <1>1 DEF Positions
<1> SUFFICES ASSUME NEW i \in OldTools(p), ~(p[i].len <= Stub)
             PROVE  TotalOf(p, {"result"}) <= max
    BY DEF p
<1>5. i \in DOMAIN r /\ p[i].kind \in {"result", "stub"}
    BY <1>1 DEF OldTools, Prunable, Positions
<1>6. p[i].kind # "stub"
    <2> SUFFICES ASSUME p[i].kind = "stub" PROVE p[i].len = Stub
        BY DEF Stub
    <2>1. i \in Positions(p, {"stub"})
        BY <1>1, <1>5 DEF Positions
    <2> QED
        BY <2>1, <1>2 DEF Stubs
<1>7. p[i] = r[i] /\ r[i].kind = "result"
    <2>1. CASE p[i] = r[i]
        BY <2>1, <1>5, <1>6
    <2>2. CASE p[i] = [r[i] EXCEPT !.kind = "stub", !.len = Stub]
        <3>1. r[i] \in Message
            BY <1>3, <1>5
        <3> QED
            BY <3>1, <2>2, <1>6 DEF Message
    <2> QED
        BY <2>1, <2>2, <1>1, <1>5
<1>8. i \in Prunable(at)
    <2>1. i \in OldTools(r)
        BY <1>4 DEF OldTools
    <2>2. DOMAIN r \subseteq Nat
        BY <1>3
    <2> QED
        BY <2>1, <2>2, <1>7, OldResults
<1>9. r[i].len > Stub
    <2>1. r[i].len \in Nat
        BY <1>3, <1>5 DEF Message
    <2> QED
        BY <2>1, <1>7 DEF Stub
<1> HIDE DEF at
<1> QED
    BY <1>1, <1>7, <1>8, <1>9

-----------------------------------------------------------------------------
(* The invariant, action by action.                                        *)

\* r begins with the history h, and has no other.
Begins(r, h) ==
    /\ DOMAIN h \subseteq DOMAIN r
    /\ \A i \in DOMAIN h : r[i] = h[i]
    /\ \A i \in DOMAIN r \ DOMAIN h : r[i].kind \notin {"whole", "cut"}

LEMMA PruneKeepsHistory ==
    ASSUME NEW r \in Seq(Message), NEW max \in Nat, NEW h, Begins(r, h), \A i \in DOMAIN h : h[i].kind \in Old
    PROVE  Begins(Prune(r, max), h)
<1> DEFINE p == Prune(r, max)
           S(i) == [r[i] EXCEPT !.kind = "stub", !.len = Stub]
           old == Prunable(Positions(r, {"result"}))
<1>1. /\ p \in Seq(Message) /\ DOMAIN p = DOMAIN r
      /\ \A i \in DOMAIN r : p[i] = r[i] \/ (i \in old /\ r[i].len > Stub /\ p[i] = S(i))
    BY PruneIs
<1> HIDE DEF p, old
<1>2. ASSUME NEW i \in DOMAIN r, p[i] = S(i) PROVE p[i].kind = "stub"
    <2>1. r[i] \in Message
        OBVIOUS
    <2> QED
        BY <2>1, <1>2 DEF Message
<1> HIDE DEF S
<1>3. ASSUME NEW i \in old PROVE r[i].kind = "result"
    BY <1>3 DEF old, Prunable, Positions
<1>4. ASSUME NEW i \in DOMAIN h PROVE p[i] = h[i]
    <2>1. i \in DOMAIN r /\ r[i] = h[i] /\ h[i].kind \in {"whole", "cut"}
        BY DEF Begins, Old
    <2>2. i \notin old
        BY <2>1, <1>3
    <2> QED
        BY <2>1, <2>2, <1>1
<1>5. ASSUME NEW i \in DOMAIN r \ DOMAIN h PROVE p[i].kind \notin {"whole", "cut"}
    <2>1. r[i].kind \notin {"whole", "cut"}
        BY DEF Begins
    <2> QED
        BY <2>1, <1>1, <1>2
<1> QED
    BY <1>1, <1>4, <1>5 DEF Begins, p

\* Behind the history other messages may come.
LEMMA MoreKeepsHistory ==
    ASSUME NEW r \in Seq(Message), NEW m \in Seq(Message), NEW h, Begins(r, h),
           \A i \in DOMAIN m : m[i].kind \notin {"whole", "cut"}
    PROVE  Begins(r \o m, h)
<1> DEFINE s == r \o m
<1>1. /\ Len(r) \in Nat /\ Len(m) \in Nat /\ DOMAIN r = 1 .. Len(r) /\ DOMAIN m = 1 .. Len(m)
      /\ s \in Seq(Message) /\ DOMAIN s = 1 .. Len(r) + Len(m)
      /\ \A i \in 1 .. Len(r) : s[i] = r[i]
      /\ \A i \in 1 .. Len(r) + Len(m) : i > Len(r) => s[i] = m[i - Len(r)]
    OBVIOUS
<1> HIDE DEF s
<1>2. DOMAIN r \subseteq DOMAIN s
    BY <1>1
<1>3. \A i \in DOMAIN h : s[i] = h[i]
    BY <1>1 DEF Begins
<1>4. ASSUME NEW i \in DOMAIN s \ DOMAIN h PROVE s[i].kind \notin {"whole", "cut"}
    <2>1. CASE i \in DOMAIN r
        BY <2>1, <1>1 DEF Begins
    <2>2. CASE i \notin DOMAIN r
        <3>1. i - Len(r) \in DOMAIN m /\ s[i] = m[i - Len(r)]
            BY <2>2, <1>1
        <3> QED
            BY <3>1
    <2> QED
        BY <2>1, <2>2
<1> QED
    BY <1>2, <1>3, <1>4 DEF Begins, s

LEMMA MoreKeepsStubs ==
    ASSUME NEW r \in Seq(Message), NEW m \in Seq(Message), Stubs(r),
           \A i \in DOMAIN m : m[i].kind # "stub"
    PROVE  Stubs(r \o m)
<1> DEFINE s == r \o m
<1>1. /\ Len(r) \in Nat /\ Len(m) \in Nat /\ DOMAIN r = 1 .. Len(r) /\ DOMAIN m = 1 .. Len(m)
      /\ s \in Seq(Message) /\ DOMAIN s = 1 .. Len(r) + Len(m)
      /\ \A i \in 1 .. Len(r) : s[i] = r[i]
      /\ \A i \in 1 .. Len(r) + Len(m) : i > Len(r) => s[i] = m[i - Len(r)]
    OBVIOUS
<1> SUFFICES ASSUME NEW i \in Positions(s, {"stub"})
             PROVE  s[i].len = Stub /\ \E j, k \in Positions(s, {"result"}) : i < j /\ j < k
    BY DEF Stubs
<1> HIDE DEF s
<1>2. i \in DOMAIN r
    <2> SUFFICES ASSUME i \notin DOMAIN r PROVE FALSE
        OBVIOUS
    <2>1. i \in DOMAIN s /\ s[i].kind = "stub"
        BY DEF Positions
    <2>2. i - Len(r) \in DOMAIN m /\ s[i] = m[i - Len(r)]
        BY <2>1, <1>1
    <2> QED
        BY <2>1, <2>2
<1>3. i \in Positions(r, {"stub"}) /\ s[i] = r[i]
    BY <1>1, <1>2 DEF Positions
<1>4. Positions(r, {"result"}) \subseteq Positions(s, {"result"})
    BY <1>1 DEF Positions
<1> QED
    BY <1>3, <1>4 DEF Stubs

\* The window is a sequence of turns that ends as the session does.
LEMMA WindowIs ==
    ASSUME stored \in Seq(Turn)
    PROVE  /\ Window \in Seq(Turn)
           /\ Len(stored) > 0 => /\ Len(Window) > 0
                                 /\ Window[Len(Window)] = stored[Len(stored)]
                                 /\ Size(Window, 1) = Size(stored, 1)
<1> DEFINE n == Len(stored)
           k == Min({n, HistoryLimit \div 2})
           m == n - k + 1
<1>1. n \in Nat /\ HistoryLimit \div 2 = 10
    BY DEF HistoryLimit
<1>2. k = IF n <= 10 THEN n ELSE 10
    <2>1. n \in Int /\ 10 \in Int
        BY <1>1
    <2> HIDE DEF n
    <2> QED
        BY <2>1, <1>1, Lesser
<1> HIDE DEF k
<1>3. m \in 1 .. n + 1 /\ (n > 0 => m <= n) /\ m \in Int /\ n \in Int
    <2>1. n \in Nat
        BY <1>1
    <2>2. k = IF n <= 10 THEN n ELSE 10
        BY <1>2
    <2> HIDE DEF n
    <2>3. k \in Nat /\ k <= n /\ (n > 0 => k > 0)
        BY <2>1, <2>2
    <2> QED
        BY <2>1, <2>3
<1>4. Window = SubSeq(stored, m, n)
    BY DEF Window, k
<1> HIDE DEF m
<1>5. \A i \in m .. n : stored[i] \in Turn
    <2>1. \A i \in m .. n : i \in 1 .. n
        BY <1>3
    <2> QED
        BY <2>1
<1>6. /\ Window \in Seq(Turn) /\ Len(Window) = IF m <= n THEN n - m + 1 ELSE 0
      /\ \A i \in 1 .. n - m + 1 : Window[i] = stored[m + i - 1]
    <2> HIDE DEF n
    <2> QED
        BY <1>3, <1>4, <1>5, SubSeqProperties
<1>7. ASSUME n > 0
      PROVE  Len(Window) > 0 /\ Window[Len(Window)] = stored[n] /\ Size(Window, 1) = Size(stored, 1)
    <2>1. Len(Window) = n - m + 1 /\ n - m + 1 \in 1 .. n - m + 1 /\ m + (n - m + 1) - 1 = n
        BY <1>1, <1>3, <1>6, <1>7
    <2>2. Len(Window) > 0 /\ Window[Len(Window)] = stored[n]
        BY <2>1, <1>6
    <2>3. ASSUME NEW t \in Seq(Turn), Len(t) > 0
          PROVE  Size(t, 1) = 0 + (t[Len(t)].user + t[Len(t)].reply)
        <3>1. 0 \in 0 .. Len(t) - 1 /\ 0 + 1 = 1 /\ Len(t) - 0 = Len(t)
            BY <2>3
        <3>2. Size(t, 0 + 1) = Size(t, 0) + (t[Len(t) - 0].user + t[Len(t) - 0].reply)
            BY <3>1, Sizes
        <3>3. Size(t, 0) = 0
            BY Sizes
        <3> QED
            BY <3>1, <3>2, <3>3
    <2>4. Size(Window, 1) = 0 + (Window[Len(Window)].user + Window[Len(Window)].reply)
        BY <2>2, <2>3, <1>6
    <2>5. Size(stored, 1) = 0 + (stored[n].user + stored[n].reply)
        BY <2>3, <1>7
    <2> QED
        BY <2>2, <2>4, <2>5
<1> QED
    BY <1>6, <1>7

\* What is selected for a request.
LEMMA SelectedIs ==
    ASSUME stored \in Seq(Turn), NEW extra \in Nat
    PROVE  LET h == Select(Window, HistoryBudget(extra))
           IN  /\ h \in Seq(Message) /\ \A i \in DOMAIN h : h[i].kind \in Old
               /\ HistoryBudget(extra) \in Nat
               /\ Selected(h, Window, HistoryBudget(extra))
<1>1. Window \in Seq(Turn)
    BY WindowIs
<1>2. HistoryBudget(extra) \in Nat
    <2>1. extra <= extra
        OBVIOUS
    <2> QED
        BY <2>1, HistoryBudgets
<1> DEFINE h == Select(Window, HistoryBudget(extra))
<1>3. Selected(h, Window, HistoryBudget(extra))
    BY <1>1, <1>2, SelectIs
<1> HIDE DEF h
<1>4. h \in Seq(Message) /\ \A i \in DOMAIN h : h[i].kind \in Old
    BY <1>1, <1>2, <1>3, SelectedIsFair
<1> QED
    BY <1>2, <1>3, <1>4 DEF h

\* The budgets depend on the model alone, and the window on the session.
LEMMA Steady ==
    ASSUME model' = model
    PROVE  /\ TotalChars' = TotalChars /\ ToolChars' = ToolChars
           /\ \A e \in Nat : HistoryBudget(e)' = HistoryBudget(e)
           /\ stored' = stored => Window' = Window
<1>1. Profile' = Profile
    BY DEF Profile
<1>2. TotalChars' = TotalChars
    BY <1>1 DEF TotalChars
<1>3. HistoryChars' = HistoryChars /\ ToolChars' = ToolChars
    BY <1>1, <1>2 DEF HistoryChars, ToolChars
<1>4. \A e \in Nat : HistoryBudget(e)' = HistoryBudget(e)
    BY <1>2, <1>3 DEF HistoryBudget
<1>5. stored' = stored => Window' = Window
    BY DEF Window
<1> QED
    BY <1>2, <1>3, <1>4, <1>5

\* An end of a request leaves the session at rest.
LEMMA EndKeeps ==
    ASSUME ContextTypeOK, NEW how \in {"completed", "failed"}, Ends(how), model' = model,
           stored' \in Seq(Turn), Len(stored') <= MaxTurns,
           \A i \in DOMAIN stored' : stored'[i].user <= MaxText,
           message' \in 0 .. MaxText + 1
    PROVE  ContextInv'
<1>1. phase' = "idle" /\ running' = <<>> /\ outcome' = how /\ system' = 0 /\ rounds' = 0
    BY DEF Ends
<1>2. ContextTypeOK'
    <2>1. rounds' \in 0 .. MaxRounds
        BY <1>1, BoundsAssumption
    <2>2. running' \in Seq(Message) /\ system' \in Nat
        BY <1>1
    <2>3. phase' \in {"idle", "assemble", "round", "asked"} /\ outcome' \in {"none", "completed", "failed"}
        BY <1>1
    <2> QED
        BY <1>1, <2>1, <2>2, <2>3 DEF ContextTypeOK
<1>3. StubInv'
    <2>1. Positions(running', {"stub"}) = {}
        BY <1>1 DEF Positions
    <2> QED
        BY <2>1 DEF StubInv
<1>4. HistoryInv' /\ PrunedToWhatMatters' /\ PoisonInv'
    BY <1>1 DEF HistoryInv, PrunedToWhatMatters, PoisonInv
<1> QED
    BY <1>2, <1>3, <1>4 DEF ContextInv

LEMMA InitHolds ==
    ASSUME ContextInit
    PROVE  ContextInv
<1>1. /\ model \in Models /\ stored = <<>> /\ phase = "idle" /\ message = 0 /\ system = 0
      /\ running = <<>> /\ rounds = 0 /\ outcome = "none"
    BY DEF ContextInit
<1>2. ContextTypeOK
    <2>1. stored \in Seq(Turn) /\ Len(stored) = 0 /\ DOMAIN stored = {} /\ running \in Seq(Message)
        BY <1>1
    <2>2. 0 <= MaxTurns /\ 0 \in 0 .. MaxRounds
        BY BoundsAssumption
    <2> QED
        BY <1>1, <2>1, <2>2 DEF ContextTypeOK, MaxText
<1>3. StubInv
    <2>1. Positions(running, {"stub"}) = {}
        BY <1>1 DEF Positions
    <2> QED
        BY <2>1 DEF StubInv
<1>4. HistoryInv /\ PrunedToWhatMatters /\ PoisonInv
    BY <1>1 DEF HistoryInv, PrunedToWhatMatters, PoisonInv
<1> QED
    BY <1>2, <1>3, <1>4 DEF ContextInv

LEMMA SendKeeps ==
    ASSUME ContextInv, NEW input \in Typed, NEW contents \in SeqOf(Contents, MaxFiles), Send(input, contents)
    PROVE  ContextInv'
<1>1. ContextTypeOK
    BY DEF ContextInv
<1>2. Compose(input, contents) \in 0 .. MaxText + 1
    <2>1. input \in 1 .. MaxText
        BY LengthsAssumption
    <2>2. MaxFiles \in Nat /\ Contents \subseteq Nat
        BY LengthsAssumption, BoundsAssumption
    <2>3. PICK n \in 0 .. MaxFiles : contents \in [1 .. n -> Contents]
        BY DEF SeqOf
    <2>4. n \in Nat
        BY <2>2
    <2>5. contents \in [1 .. n -> Nat]
        BY <2>2, <2>3
    <2> QED
        BY <2>1, <2>4, <2>5, ComposeRange
<1> DEFINE composed == Compose(input, contents)
<1>3. /\ phase = "idle" /\ Len(stored) < MaxTurns /\ message' = composed
      /\ composed > MaxText => Ends("failed")
      /\ ~(composed > MaxText) => phase' = "assemble" /\ UNCHANGED <<system, running, rounds, outcome>>
      /\ model' = model /\ stored' = stored
    BY DEF Send
<1> HIDE DEF composed
<1>4. composed \in 0 .. MaxText + 1
    BY <1>2 DEF composed
<1>6. CASE composed > MaxText
    BY <1>1, <1>3, <1>4, <1>6, EndKeeps DEF ContextTypeOK
<1>7. CASE ~(composed > MaxText)
    <2>1. /\ phase' = "assemble" /\ system' = system /\ running' = running
          /\ rounds' = rounds /\ outcome' = outcome
        BY <1>3, <1>7
    <2>2. ContextTypeOK'
        <3>1. composed <= MaxText
            BY <1>4, <1>7 DEF MaxText
        <3> QED
            BY <1>1, <1>3, <1>4, <2>1, <3>1 DEF ContextTypeOK
    <2>3. StubInv'
        BY <2>1 DEF ContextInv, StubInv, Positions
    <2>4. HistoryInv' /\ PrunedToWhatMatters' /\ PoisonInv'
        BY <2>1 DEF HistoryInv, PrunedToWhatMatters, PoisonInv
    <2> QED
        BY <2>2, <2>3, <2>4 DEF ContextInv
<1> QED
    BY <1>6, <1>7

\* While a session is poisoned, what is assembled for it is too long.
LEMMA PoisonIsRead ==
    ASSUME ContextTypeOK, Poisoned, NEW extra \in Extras
    PROVE  TooLong(Select(Window, HistoryBudget(extra)))
<1> DEFINE max == HistoryBudget(extra)
           h == Select(Window, max)
<1>1. stored \in Seq(Turn) /\ extra \in Nat
    BY LengthsAssumption DEF ContextTypeOK
<1>2. Len(stored) > 0 /\ Last(stored) = stored[Len(stored)]
    BY <1>1 DEF Poisoned, Last
<1>3. /\ Window \in Seq(Turn) /\ Len(Window) > 0
      /\ Window[Len(Window)] = stored[Len(stored)] /\ Size(Window, 1) = Size(stored, 1)
    BY <1>1, <1>2, WindowIs
<1>4. max \in Nat /\ Selected(h, Window, max)
    BY <1>1, SelectedIs
<1>5. Size(Window, 1) <= max /\ Window[Len(Window)].reply > MaxText
    BY <1>2, <1>3 DEF Poisoned
<1> HIDE DEF max, h
<1>6. \E i \in DOMAIN h : h[i].len = Window[Len(Window)].reply
    BY <1>3, <1>4, <1>5, NewestIsThere
<1> QED
    BY <1>5, <1>6 DEF TooLong, h, max

\* Nothing but the session and its model makes it poisoned.
LEMMA PoisonStays ==
    ASSUME model' = model, stored' = stored
    PROVE  Poisoned' <=> Poisoned
<1>1. \A e \in Extras : HistoryBudget(e)' = HistoryBudget(e)
    BY Steady, LengthsAssumption
<1> QED
    BY <1>1 DEF Poisoned

\* A history that has begun goes on as long as what is read begins with it.
LEMMA HistoryGoesOn ==
    ASSUME ContextTypeOK, HistoryInv, phase \in {"round", "asked"},
           model' = model, stored' = stored, system' = system,
           \A h : Begins(running, h) /\ (\A i \in DOMAIN h : h[i].kind \in Old) => Begins(running', h)
    PROVE  HistoryInv'
<1>1. PICK extra \in Extras :
         /\ system \in {extra, extra + MaxSummary}
         /\ Begins(running, Select(Window, HistoryBudget(extra)))
    BY DEF HistoryInv, Begins
<1> DEFINE h == Select(Window, HistoryBudget(extra))
<1>2. \A i \in DOMAIN h : h[i].kind \in Old
    BY LengthsAssumption, SelectedIs DEF ContextTypeOK
<1>3. Begins(running', h)
    <2> HIDE DEF h
    <2>1. Begins(running, h)
        BY <1>1 DEF h
    <2> QED
        BY <1>2, <2>1
<1>4. Window' = Window /\ HistoryBudget(extra)' = HistoryBudget(extra)
    BY Steady, LengthsAssumption
<1>5. Begins(running', Select(Window', HistoryBudget(extra)'))
    BY <1>3, <1>4
<1> QED
    BY <1>1, <1>5 DEF HistoryInv, Begins

LEMMA StutterKeeps ==
    ASSUME ContextInv, UNCHANGED context
    PROVE  ContextInv'
<1>1. /\ model' = model /\ stored' = stored /\ phase' = phase /\ message' = message
      /\ system' = system /\ running' = running /\ rounds' = rounds /\ outcome' = outcome
    BY DEF context
<1>2. ContextTypeOK'
    BY <1>1 DEF ContextInv, ContextTypeOK
<1>3. HistoryInv'
    <2>1. CASE phase \in {"round", "asked"}
        BY <2>1, <1>1, HistoryGoesOn DEF ContextInv
    <2>2. CASE phase \notin {"round", "asked"}
        BY <2>2, <1>1 DEF HistoryInv
    <2> QED
        BY <2>1, <2>2
<1>4. StubInv'
    BY <1>1 DEF ContextInv, StubInv
<1>5. PrunedToWhatMatters'
    <2>1. TotalChars' = TotalChars /\ ToolChars' = ToolChars
        BY <1>1, Steady
    <2> QED
        BY <1>1, <2>1 DEF ContextInv, PrunedToWhatMatters
<1>6. PoisonInv'
    BY <1>1, PoisonStays DEF ContextInv, PoisonInv
<1> QED
    BY <1>2, <1>3, <1>4, <1>5, <1>6 DEF ContextInv

LEMMA AssembleKeeps ==
    ASSUME ContextInv, NEW extra \in Extras, Assemble(extra)
    PROVE  ContextInv'
<1> DEFINE h == Select(Window, HistoryBudget(extra))
<1>1. ContextTypeOK /\ stored \in Seq(Turn) /\ extra \in Nat
    BY LengthsAssumption DEF ContextInv, ContextTypeOK
<1>2. h \in Seq(Message) /\ \A i \in DOMAIN h : h[i].kind \in Old
    BY <1>1, SelectedIs
<1>3. /\ phase = "assemble"
      /\ TooLong(h) => Ends("failed")
      /\ ~TooLong(h) => /\ phase' = "round" /\ running' = h
                        /\ system' \in {extra, extra + MaxSummary}
                        /\ rounds' = rounds /\ outcome' = outcome
      /\ model' = model /\ stored' = stored /\ message' = message
    BY DEF Assemble
<1>4. CASE TooLong(h)
    <2>1. Ends("failed") /\ model' = model
        BY <1>3, <1>4
    <2>2. /\ stored' \in Seq(Turn) /\ Len(stored') <= MaxTurns
          /\ \A i \in DOMAIN stored' : stored'[i].user <= MaxText
          /\ message' \in 0 .. MaxText + 1
        BY <1>1, <1>3 DEF ContextTypeOK
    <2> QED
        BY <1>1, <2>1, <2>2, EndKeeps
<1>5. CASE ~TooLong(h)
    <2>1. /\ phase' = "round" /\ running' = h /\ system' \in {extra, extra + MaxSummary}
          /\ rounds' = rounds /\ outcome' = outcome
        BY <1>3, <1>5
    <2>2. Window' = Window /\ HistoryBudget(extra)' = HistoryBudget(extra)
        BY <1>1, <1>3, Steady
    <2>3. h = Select(Window', HistoryBudget(extra)')
        BY <2>2
    <2>4. ~Poisoned
        BY <1>1, <1>5, PoisonIsRead
    <2> HIDE DEF h
    <2>5. system' \in Nat
        BY <2>1, <1>1 DEF MaxSummary
    <2>6. ContextTypeOK'
        BY <1>1, <1>2, <1>3, <2>1, <2>5 DEF ContextTypeOK
    <2>7. HistoryInv'
        <3>1. /\ DOMAIN h \subseteq DOMAIN running' /\ \A i \in DOMAIN h : running'[i] = h[i]
              /\ \A i \in DOMAIN running' \ DOMAIN h : running'[i].kind \notin {"whole", "cut"}
            BY <2>1
        <3> QED
            BY <2>1, <2>3, <3>1 DEF HistoryInv
    <2>8. StubInv'
        <3>1. Positions(h, {"stub"}) = {}
            BY <1>2 DEF Positions, Old
        <3>2. Positions(running', {"stub"}) = {}
            BY <2>1, <3>1
        <3> QED
            BY <3>2 DEF StubInv
    <2>9. PrunedToWhatMatters'
        BY <2>1 DEF PrunedToWhatMatters
    <2>10. PoisonInv'
        BY <1>3, <2>4, PoisonStays DEF PoisonInv
    <2> QED
        BY <2>6, <2>7, <2>8, <2>9, <2>10 DEF ContextInv
<1> QED
    BY <1>4, <1>5

LEMMA AskKeeps ==
    ASSUME ContextInv, Ask
    PROVE  ContextInv'
<1> DEFINE p == Prune(running, ToolChars)
<1>1. /\ ContextTypeOK /\ HistoryInv /\ Stubs(running) /\ PoisonInv
      /\ running \in Seq(Message) /\ stored \in Seq(Turn)
    BY DEF ContextInv, ContextTypeOK, StubInv, Stubs
<1>2. /\ phase = "round" /\ rounds < MaxRounds
      /\ running' = IF system + Total(running) > TotalChars THEN p ELSE running
      /\ rounds' = rounds + 1 /\ phase' = "asked"
      /\ model' = model /\ stored' = stored /\ message' = message /\ system' = system /\ outcome' = outcome
    BY DEF Ask
<1>3. TotalChars' = TotalChars /\ ToolChars' = ToolChars
    BY <1>2, Steady
<1>4. ToolChars \in Nat
    BY Budgets
<1>5. /\ p \in Seq(Message) /\ Stubs(p)
      /\ \/ TotalOf(p, {"result"}) <= ToolChars
         \/ \A i \in OldTools(p) : p[i].len <= Stub
    BY <1>1, <1>4, PruneIs, PruneStubs, PruneMatters
<1>6. \A h : Begins(running, h) /\ (\A i \in DOMAIN h : h[i].kind \in Old) => Begins(p, h)
    BY <1>1, <1>4, PruneKeepsHistory
<1> HIDE DEF p
<1>7. running' = running \/ running' = p
    BY <1>2
<1>8. ContextTypeOK'
    <2>1. running' \in Seq(Message)
        BY <1>1, <1>5, <1>7
    <2>2. rounds' \in 0 .. MaxRounds
        BY <1>1, <1>2, BoundsAssumption DEF ContextTypeOK
    <2> QED
        BY <1>1, <1>2, <2>1, <2>2 DEF ContextTypeOK
<1>9. HistoryInv'
    <2>1. \A h : Begins(running, h) /\ (\A i \in DOMAIN h : h[i].kind \in Old) => Begins(running', h)
        BY <1>6, <1>7
    <2> QED
        BY <1>1, <1>2, <2>1, HistoryGoesOn
<1>10. Stubs(running')
    BY <1>1, <1>5, <1>7
<1>11. PrunedToWhatMatters'
    <2>1. \A i \in Positions(running', {"result", "stub"}) \ OldTools(running') : running'[i].kind = "result"
        BY <1>10, NewAreResults
    <2>2. system' + Total(running') > TotalChars' =>
             \/ TotalOf(running', {"result"}) <= ToolChars'
             \/ \A i \in OldTools(running') : running'[i].len <= Stub
        <3>1. CASE system + Total(running) > TotalChars
            <4>1. running' = p
                BY <1>2, <3>1
            <4> QED
                BY <4>1, <1>3, <1>5
        <3>2. CASE ~(system + Total(running) > TotalChars)
            BY <1>2, <1>3, <3>2
        <3> QED
            BY <3>1, <3>2
    <2> QED
        BY <2>1, <2>2 DEF PrunedToWhatMatters, OldTools, Prunable
<1>12. PoisonInv'
    <2>1. ~Poisoned
        BY <1>1, <1>2 DEF PoisonInv
    <2> QED
        BY <1>2, <2>1, PoisonStays DEF PoisonInv
<1> QED
    BY <1>8, <1>9, <1>10, <1>11, <1>12 DEF ContextInv, StubInv, Stubs

LEMMA UseToolsKeeps ==
    ASSUME ContextInv, NEW results \in Results, NEW output \in Outputs, UseTools(results, output)
    PROVE  ContextInv'
<1> DEFINE said == [kind |-> "output", len |-> output, from |-> 0]
           m == [i \in DOMAIN results |-> ResultMessage(results[i])]
<1>1. /\ ContextTypeOK /\ HistoryInv /\ Stubs(running) /\ PoisonInv
      /\ running \in Seq(Message) /\ stored \in Seq(Turn)
    BY DEF ContextInv, ContextTypeOK, StubInv, Stubs
<1>2. /\ phase = "asked"
      /\ TooLong(<<said>>) => Ends("failed")
      /\ ~TooLong(<<said>>) => /\ running' = (running \o m) \o <<said>>
                               /\ phase' = "round" /\ system' = system
                               /\ rounds' = rounds /\ outcome' = outcome
      /\ model' = model /\ stored' = stored /\ message' = message
    BY DEF UseTools
<1>3. /\ <<said>> \in Seq(Message)
      /\ \A i \in DOMAIN <<said>> : <<said>>[i].kind \notin {"whole", "cut"} /\ <<said>>[i].kind # "stub"
    <2>1. said \in Message /\ said.kind = "output"
        BY LengthsAssumption DEF Message, Kind
    <2> HIDE DEF said
    <2> QED
        BY <2>1
<1>4. m \in Seq(Message) /\ \A i \in DOMAIN m : m[i].kind \notin {"whole", "cut"} /\ m[i].kind # "stub"
    <2>1. results \in Seq([raw : Nat, quoted : Nat])
        BY ResultsAssumption
    <2>2. ASSUME NEW i \in DOMAIN results
          PROVE  ResultMessage(results[i]) \in Message /\ ResultMessage(results[i]).kind = "result"
        <3>1. results[i] \in [raw : Nat, quoted : Nat]
            <4> DEFINE R == [raw : Nat, quoted : Nat]
            <4>1. results \in Seq(R)
                BY <2>1
            <4> HIDE DEF R
            <4>2. results[i] \in R
                BY <4>1
            <4> QED
                BY <4>2 DEF R
        <3>2. results[i].raw \in Nat /\ results[i].quoted \in Nat
            BY <3>1
        <3> QED
            BY <3>2 DEF ResultMessage, Message, Kind
    <2>3. DOMAIN results = 1 .. Len(results) /\ Len(results) \in Nat
        BY <2>1
    <2>4. m \in [1 .. Len(results) -> Message] /\ \A i \in DOMAIN m : m[i].kind = "result"
        BY <2>2, <2>3
    <2> HIDE DEF m
    <2> QED
        BY <2>3, <2>4
<1> HIDE DEF said, m
<1>5. CASE TooLong(<<said>>)
    <2>1. Ends("failed") /\ model' = model
        BY <1>2, <1>5
    <2>2. /\ stored' \in Seq(Turn) /\ Len(stored') <= MaxTurns
          /\ \A i \in DOMAIN stored' : stored'[i].user <= MaxText
          /\ message' \in 0 .. MaxText + 1
        BY <1>1, <1>2 DEF ContextTypeOK
    <2> QED
        BY <1>1, <2>1, <2>2, EndKeeps
<1>6. CASE ~TooLong(<<said>>)
    <2> DEFINE r == running \o m
    <2>1. /\ running' = r \o <<said>> /\ phase' = "round" /\ system' = system
          /\ rounds' = rounds /\ outcome' = outcome
        BY <1>2, <1>6
    <2>2. r \in Seq(Message) /\ running' \in Seq(Message)
        <3>1. r \in Seq(Message)
            BY <1>1, <1>4
        <3> HIDE DEF r
        <3> QED
            BY <3>1, <2>1, <1>3
    <2>3. Stubs(r)
        BY <1>1, <1>4, MoreKeepsStubs
    <2>4. \A h : Begins(running, h) => Begins(r, h)
        BY <1>1, <1>4, MoreKeepsHistory
    <2> HIDE DEF r
    <2>5. Stubs(running')
        BY <2>1, <2>2, <2>3, <1>3, MoreKeepsStubs
    <2>6. \A h : Begins(running, h) => Begins(running', h)
        BY <2>1, <2>2, <2>4, <1>3, MoreKeepsHistory
    <2>7. ContextTypeOK'
        BY <1>1, <1>2, <2>1, <2>2 DEF ContextTypeOK
    <2>8. HistoryInv'
        BY <1>1, <1>2, <2>1, <2>6, HistoryGoesOn
    <2>9. PrunedToWhatMatters'
        BY <2>1 DEF PrunedToWhatMatters
    <2>10. PoisonInv'
        <3>1. ~Poisoned
            BY <1>1, <1>2 DEF PoisonInv
        <3> QED
            BY <1>2, <3>1, PoisonStays DEF PoisonInv
    <2> QED
        BY <2>5, <2>7, <2>8, <2>9, <2>10 DEF ContextInv, StubInv, Stubs
<1> QED
    BY <1>5, <1>6

LEMMA FinalAnswerKeeps ==
    ASSUME ContextInv, NEW reply \in Answers, FinalAnswer(reply)
    PROVE  ContextInv'
<1> DEFINE t == [user |-> message, reply |-> reply]
<1>1. ContextTypeOK /\ stored \in Seq(Turn) /\ phase # "idle"
    BY DEF ContextInv, ContextTypeOK, FinalAnswer
<1>2. stored' = Append(stored, t) /\ Ends("completed") /\ model' = model /\ message' = message
    BY DEF FinalAnswer
<1>3. message \in 0 .. MaxText + 1 /\ message <= MaxText /\ Len(stored) < MaxTurns
    BY <1>1 DEF ContextTypeOK
<1>4. t \in Turn /\ t.user = message
    <2>1. message \in Nat
        BY <1>3 DEF MaxText
    <2>2. reply \in Nat
        BY LengthsAssumption
    <2> QED
        BY <2>1, <2>2 DEF Turn
<1> HIDE DEF t
<1>5. stored' \in Seq(Turn) /\ Len(stored') = Len(stored) + 1 /\ DOMAIN stored' = 1 .. Len(stored) + 1
    BY <1>1, <1>2, <1>4
<1>6. Len(stored') <= MaxTurns
    BY <1>1, <1>3, <1>5, BoundsAssumption
<1>7. ASSUME NEW i \in DOMAIN stored' PROVE stored'[i].user <= MaxText
    <2>1. CASE i \in DOMAIN stored
        <3>1. stored'[i] = stored[i]
            BY <2>1, <1>1, <1>2, <1>4
        <3> QED
            BY <2>1, <3>1, <1>1 DEF ContextTypeOK
    <2>2. CASE i \notin DOMAIN stored
        <3>1. i = Len(stored) + 1
            BY <2>2, <1>1, <1>5
        <3>2. stored'[i] = t
            BY <3>1, <1>1, <1>2, <1>4
        <3> QED
            BY <3>2, <1>3, <1>4
    <2> QED
        BY <2>1, <2>2
<1> QED
    BY <1>1, <1>2, <1>3, <1>5, <1>6, <1>7, EndKeeps

LEMMA FailKeeps ==
    ASSUME ContextInv, Fail
    PROVE  ContextInv'
<1>1. ContextTypeOK /\ Ends("failed") /\ model' = model /\ stored' = stored /\ message' = message
    BY DEF ContextInv, Fail
<1>2. /\ stored' \in Seq(Turn) /\ Len(stored') <= MaxTurns
      /\ \A i \in DOMAIN stored' : stored'[i].user <= MaxText
      /\ message' \in 0 .. MaxText + 1
    BY <1>1 DEF ContextTypeOK
<1> QED
    BY <1>1, <1>2, EndKeeps

\* The invariant holds in every reachable state, the types among it.
THEOREM ContextInvariant == ContextSpec => []ContextInv
<1>1. ContextInit => ContextInv
    BY InitHolds
<1>2. ContextInv /\ [ContextNext]_context => ContextInv'
    <2> SUFFICES ASSUME ContextInv, [ContextNext]_context PROVE ContextInv'
        OBVIOUS
    <2>1. ASSUME NEW input \in Typed, NEW contents \in SeqOf(Contents, MaxFiles), Send(input, contents)
          PROVE  ContextInv'
        BY <2>1, SendKeeps
    <2>2. ASSUME NEW extra \in Extras, Assemble(extra) PROVE ContextInv'
        BY <2>2, AssembleKeeps
    <2>3. CASE Ask
        BY <2>3, AskKeeps
    <2>4. ASSUME NEW results \in Results, NEW output \in Outputs, UseTools(results, output)
          PROVE  ContextInv'
        BY <2>4, UseToolsKeeps
    <2>5. ASSUME NEW reply \in Answers, FinalAnswer(reply) PROVE ContextInv'
        BY <2>5, FinalAnswerKeeps
    <2>6. CASE Fail
        BY <2>6, FailKeeps
    <2>7. CASE UNCHANGED context
        BY <2>7, StutterKeeps
    <2> QED
        BY <2>1, <2>2, <2>3, <2>4, <2>5, <2>6, <2>7 DEF ContextNext
<1> QED
    BY <1>1, <1>2, PTL DEF ContextSpec

\* An answer that is too long to be read again, and short enough to be chosen
\* for the history, ends its session (PoisonIsPermanent): what assemble makes
\* of it never gets past the contract of a turn.
THEOREM PoisonedForGood == ContextSpec => PoisonIsPermanent
<1>1. ContextInv /\ [ContextNext]_context
         => [Poisoned => (stored' = stored /\ phase' # "round")]_context
    <2> SUFFICES ASSUME ContextInv, ContextNext, Poisoned
                 PROVE  stored' = stored /\ phase' # "round"
        OBVIOUS
    <2>1. phase \in {"idle", "assemble"} /\ ContextTypeOK
        BY DEF ContextInv, PoisonInv
    <2>2. ASSUME NEW input \in Typed, NEW contents \in SeqOf(Contents, MaxFiles), Send(input, contents)
          PROVE  stored' = stored /\ phase' # "round"
        BY <2>2 DEF Send, Ends
    <2>3. ASSUME NEW extra \in Extras, Assemble(extra)
          PROVE  stored' = stored /\ phase' # "round"
        <3>1. TooLong(Select(Window, HistoryBudget(extra)))
            BY <2>1, PoisonIsRead
        <3> QED
            BY <3>1, <2>3 DEF Assemble, Ends
    <2>4. ~Ask
        BY <2>1 DEF Ask
    <2>5. ASSUME NEW results \in Results, NEW output \in Outputs PROVE ~UseTools(results, output)
        BY <2>1 DEF UseTools
    <2>6. ASSUME NEW reply \in Answers PROVE ~FinalAnswer(reply)
        BY <2>1 DEF FinalAnswer
    <2>7. ~Fail
        BY <2>1 DEF Fail
    <2> QED
        BY <2>2, <2>3, <2>4, <2>5, <2>6, <2>7 DEF ContextNext
<1> QED
    BY <1>1, ContextInvariant, PTL DEF ContextSpec, PoisonIsPermanent

\* What is taken from a context that is too long is what the next step does
\* not need, and as much of it as it takes (PrunedToWhatMatters).
THEOREM PruningSparesTheNew == ContextSpec => []PrunedToWhatMatters
<1>1. ContextInv => PrunedToWhatMatters
    BY DEF ContextInv
<1> QED
    BY <1>1, ContextInvariant, PTL

\* What r weighs of a history it begins with is what that history weighs.
LEMMA HistoryTotal ==
    ASSUME NEW r \in Seq(Message), NEW h \in Seq(Message), Begins(r, h),
           \A i \in DOMAIN h : h[i].kind \in Old
    PROVE  TotalOf(r, Old) = TotalOf(h, Old)
<1> DEFINE n == Len(r)
           m == Len(h)
           w == Weights(r, Old)
           v == Weights(h, Old)
<1>1. n \in Nat /\ m \in Nat /\ DOMAIN r = 1 .. n /\ DOMAIN h = 1 .. m
    OBVIOUS
<1>2. m \in 0 .. n
    <2>1. 1 .. m \subseteq 1 .. n
        BY <1>1 DEF Begins
    <2> HIDE DEF m, n
    <2>2. CASE m > 0
        <3>1. m \in 1 .. m
            BY <1>1, <2>2
        <3> QED
            BY <3>1, <2>1, <1>1
    <2> QED
        BY <2>2, <1>1
<1>3. /\ w \in [1 .. n -> Nat] /\ TotalOf(r, Old) = Sum(w)
      /\ v \in [1 .. m -> Nat] /\ TotalOf(h, Old) = Sum(v)
    BY WeightsAre
<1> HIDE DEF n, m
<1>4. \A i \in 1 .. m : v[i] = w[i]
    <2> SUFFICES ASSUME NEW i \in 1 .. m PROVE v[i] = w[i]
        OBVIOUS
    <2>1. i \in DOMAIN h /\ i \in DOMAIN r /\ r[i] = h[i]
        BY <1>1 DEF Begins
    <2> QED
        BY <2>1 DEF Weights
<1>5. \A i \in m + 1 .. n : w[i] = 0
    <2> SUFFICES ASSUME NEW i \in m + 1 .. n PROVE w[i] = 0
        OBVIOUS
    <2>1. i \in DOMAIN r /\ i \notin DOMAIN h
        BY <1>1
    <2>2. r[i].kind \notin Old
        BY <2>1 DEF Begins, Old
    <2> QED
        BY <2>1, <2>2 DEF Weights
<1> HIDE DEF w, v
<1>6. Sum(w) = Sum(v)
    <2>1. n \in Nat
        BY <1>1
    <2>2. w \in [1 .. n -> Nat] /\ v \in [1 .. m -> Nat]
        BY <1>3
    <2>3. Tailed(n, w, m, v)
        BY <2>2, <1>2, <1>4, <1>5 DEF Tailed
    <2> QED
        BY <2>1, <2>3, SumTail
<1> QED
    BY <1>3, <1>6

\* The history is the end of the conversation (HistoryIsNewest): it is what
\* was selected, and what was selected is fair.
LEMMA HistoryFollows ==
    ASSUME ContextInv
    PROVE  HistoryIsNewest
<1> SUFFICES ASSUME phase \in {"round", "asked"} PROVE HistoryIsNewest
    BY DEF HistoryIsNewest
<1>1. stored \in Seq(Turn) /\ running \in Seq(Message) /\ system \in Nat
    BY DEF ContextInv, ContextTypeOK
<1>2. PICK extra \in Extras :
         /\ system \in {extra, extra + MaxSummary}
         /\ Begins(running, Select(Window, HistoryBudget(extra)))
    BY DEF ContextInv, HistoryInv, Begins
<1>3. extra \in Nat /\ extra <= system
    <2>1. extra \in Nat
        BY LengthsAssumption
    <2> QED
        BY <2>1, <1>2 DEF MaxSummary
<1> DEFINE max == HistoryBudget(extra)
           h == Select(Window, max)
           budget == HistoryBudget(system)
           last == Len(Window)
           history == Positions(running, {"whole", "cut"})
           turns == {running[i].from : i \in history}
<1>4. max \in Nat /\ max <= HistoryChars /\ budget <= max /\ HistoryChars \in Nat
    BY <1>1, <1>3, HistoryBudgets, Budgets
<1>5. budget \in Nat
    <2>1. system <= system
        BY <1>1
    <2> QED
        BY <2>1, <1>1, HistoryBudgets
<1>6. Window \in Seq(Turn)
    BY <1>1, WindowIs
<1>7. Selected(h, Window, max)
    BY <1>1, <1>3, SelectedIs
<1>8. Begins(running, h)
    BY <1>2
<1> HIDE DEF max, budget, h
<1>9. /\ h \in Seq(Message) /\ \A i \in DOMAIN h : h[i].kind \in Old
      /\ TotalOf(h, Old) <= max + Marker + 1
      /\ \E n \in Nat : Fair(h, Window, max, n)
    BY <1>4, <1>6, <1>7, SelectedIsFair
<1>10. PICK n \in Nat : Fair(h, Window, max, n)
    BY <1>9
<1>11. history = DOMAIN h /\ \A i \in history : running[i] = h[i]
    BY <1>8, <1>9 DEF Begins, Positions, Old
<1> HIDE DEF history
<1>12. TotalOf(running, {"whole", "cut"}) <= HistoryChars + Marker + 1
    <2>1. TotalOf(running, Old) = TotalOf(h, Old) /\ TotalOf(h, Old) \in Nat
        BY <1>1, <1>8, <1>9, HistoryTotal, WeightsAre
    <2> QED
        BY <2>1, <1>4, <1>9 DEF Old, Marker
<1>13. turns = last - n + 1 .. last /\ n <= last /\ last \in Nat
    <2>1. turns = {h[i].from : i \in DOMAIN h}
        BY <1>11
    <2> QED
        BY <2>1, <1>6, <1>10 DEF Fair, Newest
<1>14. Cardinality(turns) = n
    <2> HIDE DEF last, turns
    <2>1. last - n + 1 \in Int /\ last \in Int
        BY <1>13
    <2>2. Cardinality(last - n + 1 .. last) = IF last - n + 1 > last THEN 0 ELSE last - (last - n + 1) + 1
        BY <2>1, FS_Interval
    <2> QED
        BY <2>2, <1>13
<1>15. \A i, j \in history : i < j => running[i].from <= running[j].from
    BY <1>10, <1>11 DEF Fair, Newest
<1>16. Cardinality(history) = Len(h)
    <2>1. Len(h) \in Nat /\ DOMAIN h = 1 .. Len(h)
        BY <1>9
    <2>2. Cardinality(1 .. Len(h)) = IF 1 > Len(h) THEN 0 ELSE Len(h) - 1 + 1
        BY <2>1, FS_Interval
    <2> QED
        BY <2>1, <2>2, <1>11
<1>17. \A k \in 0 .. last : Size(Window, k) \in Nat
    BY <1>6, Sizes
<1>18. \/ Cardinality(history) = 2 * n /\ \A i \in history : running[i].kind = "whole"
       \/ n = 1 /\ Size(Window, 1) > budget
    <2>1. CASE Len(h) = 2 * n /\ \A i \in DOMAIN h : h[i].kind = "whole"
        BY <2>1, <1>11, <1>16
    <2>2. CASE n = 1 /\ Size(Window, 1) > max
        <3>1. 1 \in 0 .. last
            BY <2>2, <1>13
        <3>2. Size(Window, 1) \in Nat
            BY <3>1, <1>17
        <3> QED
            BY <2>2, <3>2, <1>4, <1>5
    <2> QED
        BY <2>1, <2>2, <1>10 DEF Fair
<1>19. n < last => Size(Window, n + 1) > budget
    <2> SUFFICES ASSUME n < last PROVE Size(Window, n + 1) > budget
        OBVIOUS
    <2>1. Size(Window, n + 1) > max
        BY <1>10 DEF Fair
    <2>2. n + 1 \in 0 .. last
        BY <1>13
    <2>3. Size(Window, n + 1) \in Nat
        BY <2>2, <1>17
    <2> QED
        BY <2>1, <2>3, <1>4, <1>5
<1> HIDE DEF turns, last
<1>20. /\ TotalOf(running, {"whole", "cut"}) <= HistoryChars + Marker + 1
       /\ turns = (last - Cardinality(turns) + 1) .. last
       /\ \A i, j \in history : i < j => running[i].from <= running[j].from
       /\ \/ Cardinality(history) = 2 * Cardinality(turns) /\ \A i \in history : running[i].kind = "whole"
          \/ Cardinality(turns) = 1 /\ Size(Window, 1) > budget
       /\ Cardinality(turns) < last => Size(Window, Cardinality(turns) + 1) > budget
    BY <1>12, <1>13, <1>14, <1>15, <1>18, <1>19
<1> QED
    BY <1>20 DEF HistoryIsNewest, turns, last, history, budget

\* What a model reads of a session is the end of it, in order and without a
\* gap, as much as fits, and no longer than its share of the window and the mark
\* of a cut (HistoryIsNewest): what build_history makes of any stored turns.
THEOREM HistoryIsTheEnd == ContextSpec => []HistoryIsNewest
<1>1. ContextInv => HistoryIsNewest
    BY HistoryFollows
<1> QED
    BY <1>1, ContextInvariant, PTL
=============================================================================
