--------------------------- MODULE SequenceLemmas ---------------------------
(***************************************************************************)
(* Facts about sequences that the proofs about several components need:    *)
(* what the library's FlattenSeq computes, and the sequence that keeps the *)
(* elements of another which lie in a set.                                 *)
(***************************************************************************)
EXTENDS Integers, FiniteSetsExt, SequencesExt, SequenceTheorems, WellFoundedInduction, TLAPS

(* What FlattenSeq computes, one sequence at a time.  It is a recursive     *)
(* function; that it exists and what it is follow from the least number     *)
(* for which they would not.                                               *)

LEMMA Least ==
    ASSUME NEW T, T \subseteq Nat, T # {}
    PROVE  \E n \in T : \A m \in T : n <= m
  <1> DEFINE R == OpToRel(<, Nat)
  <1>1. IsWellFoundedOn(R, Nat)
    BY NatLessThanWellFounded
  <1>2. \A x, y \in Nat : <<x, y>> \in R <=> x < y
    BY DEF OpToRel
  <1> HIDE DEF R
  <1>3. PICK n \in T : \A m \in T : ~ (<<m, n>> \in R)
    BY <1>1, WFMin
  <1>4. \A m \in T : ~ (m < n)
    BY <1>2, <1>3
  <1> QED BY <1>3, <1>4

LEMMA Greatest ==
  ASSUME NEW n \in Nat, NEW T, T \subseteq 1 .. n, T # {}
  PROVE  \E m \in T : \A k \in T : m >= k
  <1> DEFINE U == {m \in Nat : \A k \in T : m >= k}
  <1>1. n \in U /\ U \subseteq Nat
    OBVIOUS
  <1>2. PICK m \in U : \A k \in U : m <= k
    <2> HIDE DEF U
    <2> QED BY <1>1, Least
  <1>3. m \in Nat /\ \A k \in T : k \in Nat \ {0} /\ m >= k
    BY <1>2
  <1>4. ASSUME m \notin T PROVE FALSE
    <2>1. \A k \in T : m - 1 >= k
      BY <1>3, <1>4
    <2>2. m - 1 \in Nat
      <3>1. PICK k \in T : TRUE
        OBVIOUS
      <3> QED BY <1>3, <3>1
    <2>3. m - 1 \in U
      BY <2>1, <2>2
    <2> HIDE DEF U
    <2> QED BY <1>2, <1>3, <2>3
  <1> QED BY <1>3, <1>4

LEMMA MinIs ==
  ASSUME NEW T, T \subseteq Nat, T # {}
  PROVE  Min(T) \in T /\ \A m \in T : Min(T) <= m
  <1>1. \E n \in T : \A m \in T : n <= m
    BY Least
  <1> QED BY <1>1 DEF Min

LEMMA MaxIs ==
  ASSUME NEW n \in Nat, NEW T, T \subseteq 1 .. n, T # {}
  PROVE  Max(T) \in T /\ \A m \in T : Max(T) >= m
  <1>1. \E m \in T : \A k \in T : m >= k
    BY Greatest
  <1> QED BY <1>1 DEF Max

(* f joins the first n sequences of s. *)
Joins(f, s, n) == f = [i \in 1 .. n |-> IF i = 1 THEN s[i] ELSE f[i-1] \o s[i]]

LEMMA JoinExists ==
    ASSUME NEW s, NEW n \in Nat
    PROVE  \E f : Joins(f, s, n)
  <1> DEFINE T == {k \in Nat : ~ \E f : Joins(f, s, k)}
  <1> SUFFICES ASSUME T # {} PROVE FALSE
    OBVIOUS
  <1>1. PICK k \in T : \A m \in T : k <= m
    BY Least
  <1>2. k \in Nat /\ ~ \E f : Joins(f, s, k)
    BY <1>1
  <1>3. CASE k = 0
    <2> DEFINE f == [i \in 1 .. 0 |-> s]
    <2>1. Joins(f, s, 0)
      BY DEF Joins
    <2> QED BY <1>2, <1>3, <2>1
  <1>4. CASE k # 0
    <2>1. k - 1 \in Nat /\ k - 1 \notin T
      BY <1>1, <1>2, <1>4
    <2>2. PICK g : Joins(g, s, k - 1)
      BY <2>1
    <2> DEFINE f == [i \in 1 .. k |-> IF i = 1 THEN s[i] ELSE g[i-1] \o s[i]]
    <2>3. ASSUME NEW i \in 1 .. k, i # 1 PROVE f[i-1] = g[i-1]
      <3>1. i - 1 \in 1 .. k /\ i - 1 \in 1 .. k - 1
        BY <1>2, <2>3
      <3>2. f[i-1] = IF i - 1 = 1 THEN s[i-1] ELSE g[i-1-1] \o s[i-1]
        BY <3>1
      <3>3. g[i-1] = IF i - 1 = 1 THEN s[i-1] ELSE g[i-1-1] \o s[i-1]
        BY <2>2, <3>1 DEF Joins
      <3> QED BY <3>2, <3>3
    <2>4. f = [i \in 1 .. k |-> IF i = 1 THEN s[i] ELSE f[i-1] \o s[i]]
      BY <2>3
    <2>5. Joins(f, s, k)
      BY <2>4 DEF Joins
    <2> QED BY <1>2, <2>5
  <1> QED BY <1>3, <1>4

LEMMA JoinAt ==
    ASSUME NEW f, NEW s, NEW n, Joins(f, s, n), NEW i \in 1 .. n
    PROVE  f[i] = IF i = 1 THEN s[i] ELSE f[i-1] \o s[i]
  BY DEF Joins

LEMMA JoinSame ==
    ASSUME NEW f, NEW g, NEW s, NEW t, NEW n \in Nat, NEW m \in Nat, n <= m,
           Joins(f, s, n), Joins(g, t, m), \A i \in 1 .. n : s[i] = t[i]
    PROVE  \A i \in 1 .. n : f[i] = g[i]
  <1> DEFINE T == {i \in 1 .. n : f[i] # g[i]}
  <1> SUFFICES ASSUME T # {} PROVE FALSE
    OBVIOUS
  <1>0. T \subseteq Nat
    OBVIOUS
  <1>1. PICK k \in T : \A i \in T : k <= i
    <2> HIDE DEF T
    <2> QED BY <1>0, Least
  <1>2. /\ k \in 1 .. n /\ k \in 1 .. m /\ f[k] # g[k]
        /\ \A i \in 1 .. n : i < k => f[i] = g[i]
    BY <1>1
  <1>3. /\ f[k] = IF k = 1 THEN s[k] ELSE f[k-1] \o s[k]
        /\ g[k] = IF k = 1 THEN t[k] ELSE g[k-1] \o t[k]
    BY <1>2 DEF Joins
  <1>4. k # 1 => f[k-1] = g[k-1]
    BY <1>2
  <1> QED BY <1>2, <1>3, <1>4

LEMMA JoinType ==
    ASSUME NEW S, NEW s \in Seq(Seq(S)), NEW f, Joins(f, s, Len(s))
    PROVE  \A i \in 1 .. Len(s) : f[i] \in Seq(S)
  <1> DEFINE T == {i \in 1 .. Len(s) : f[i] \notin Seq(S)}
  <1> SUFFICES ASSUME T # {} PROVE FALSE
    OBVIOUS
  <1>0. Len(s) \in Nat /\ \A i \in 1 .. Len(s) : s[i] \in Seq(S)
    BY LenProperties
  <1>1. PICK k \in T : \A i \in T : k <= i
    <2>1. T \subseteq Nat
      BY <1>0
    <2> HIDE DEF T
    <2> QED BY <2>1, Least
  <1>2. k \in 1 .. Len(s) /\ f[k] \notin Seq(S) /\ \A i \in 1 .. Len(s) : i < k => f[i] \in Seq(S)
    BY <1>0, <1>1
  <1>3. f[k] = IF k = 1 THEN s[k] ELSE f[k-1] \o s[k]
    BY <1>2 DEF Joins
  <1>4. k # 1 => f[k-1] \in Seq(S)
    BY <1>0, <1>2
  <1> QED BY <1>0, <1>2, <1>3, <1>4, ConcatProperties

LEMMA FlatValue ==
    ASSUME NEW s, Len(s) \in Nat, Len(s) # 0
    PROVE  \E f : Joins(f, s, Len(s)) /\ FlattenSeq(s) = f[Len(s)]
  <1> DEFINE f == CHOOSE f : f = [i \in 1 .. Len(s) |-> IF i = 1 THEN s[i] ELSE f[i-1] \o s[i]]
  <1>1. FlattenSeq(s) = f[Len(s)]
    BY DEF FlattenSeq
  <1>2. \E g : g = [i \in 1 .. Len(s) |-> IF i = 1 THEN s[i] ELSE g[i-1] \o s[i]]
    BY ZenonT(30), JoinExists DEF Joins
  <1>3. f = [i \in 1 .. Len(s) |-> IF i = 1 THEN s[i] ELSE f[i-1] \o s[i]]
    BY Zenon, <1>2
  <1> HIDE DEF f
  <1>4. Joins(f, s, Len(s))
    BY <1>3 DEF Joins
  <1> QED BY <1>1, <1>4

LEMMA FlatAppend ==
    ASSUME NEW S, NEW s \in Seq(Seq(S)), NEW e \in Seq(S)
    PROVE  /\ FlattenSeq(<<>>) = <<>> /\ FlattenSeq(s) \in Seq(S)
           /\ FlattenSeq(Append(s, e)) = FlattenSeq(s) \o e
  <1> DEFINE n == Len(s)
             t == Append(s, e)
  <1>1. /\ n \in Nat /\ t \in Seq(Seq(S)) /\ Len(t) = n + 1 /\ t[n + 1] = e
        /\ \A i \in 1 .. n : t[i] = s[i]
    BY LenProperties, AppendProperties
  <1>2. FlattenSeq(<<>>) = <<>>
    BY DEF FlattenSeq
  <1>3. PICK g : Joins(g, t, n + 1) /\ FlattenSeq(t) = g[n + 1]
    <2>1. Len(t) \in Nat /\ Len(t) # 0
      BY <1>1
    <2> HIDE DEF t
    <2> QED BY <1>1, <2>1, FlatValue
  <1>4. g[n + 1] = IF n + 1 = 1 THEN t[n + 1] ELSE g[n + 1 - 1] \o t[n + 1]
    <2> DEFINE m == n + 1
    <2>1. m \in 1 .. m
      BY <1>1
    <2>2. Joins(g, t, m)
      BY <1>3
    <2> HIDE DEF m, t
    <2>3. g[m] = IF m = 1 THEN t[m] ELSE g[m - 1] \o t[m]
      BY <2>1, <2>2, JoinAt
    <2> QED BY <2>3 DEF m
  <1>5. CASE n = 0
    <2>1. s = <<>>
      BY <1>5, EmptySeq
    <2>2. FlattenSeq(t) = e
      BY <1>1, <1>3, <1>4, <1>5
    <2>3. <<>> \o e = e
      BY ConcatEmptySeq
    <2> QED BY <1>2, <2>1, <2>2, <2>3, EmptySeq
  <1>6. CASE n # 0
    <2>1. PICK f : Joins(f, s, n) /\ FlattenSeq(s) = f[n]
      BY <1>1, <1>6, FlatValue
    <2>2. f[n] \in Seq(S)
      BY <1>1, <1>6, <2>1, JoinType
    <2>3. f[n] = g[n]
      <3>1. n <= n + 1 /\ n + 1 \in Nat /\ n \in 1 .. n /\ \A i \in 1 .. n : s[i] = t[i]
        BY <1>1, <1>6
      <3> HIDE DEF n, t
      <3>2. \A i \in 1 .. n : f[i] = g[i]
        <4>1. n \in Nat /\ n + 1 \in Nat /\ n <= n + 1
          BY <1>1
        <4>2. Joins(f, s, n) /\ Joins(g, t, n + 1)
          BY <1>3, <2>1
        <4>3. \A i \in 1 .. n : s[i] = t[i]
          BY <3>1
        <4> QED BY <4>1, <4>2, <4>3, JoinSame
      <3> QED BY <3>1, <3>2
    <2> HIDE DEF n, t
    <2>4. FlattenSeq(t) = f[n] \o e
      <3>1. n + 1 # 1 /\ n + 1 - 1 = n
        BY <1>1, <1>6
      <3>2. g[n + 1] = g[n] \o t[n + 1]
        BY <1>4, <3>1
      <3> QED BY <1>1, <1>3, <2>3, <3>2
    <2> QED BY <1>2, <2>1, <2>2, <2>4 DEF t
  <1> QED BY <1>5, <1>6

---------------------------------------------------------------------------
LEMMA Singleton ==
    ASSUME NEW S, NEW x \in S
    PROVE  /\ <<x>> \in Seq(S) /\ Len(<<x>>) = 1 /\ <<x>>[1] = x
           /\ DOMAIN <<x>> = {1}
  OBVIOUS

(* A sequence given by a function of its places, one place longer.          *)
LEMMA LongerByOne ==
    ASSUME NEW S, NEW n \in Nat, NEW s, \A k \in 1 .. n + 1 : s[k] \in S
    PROVE  /\ [k \in 1 .. n |-> s[k]] \in Seq(S)
           /\ [k \in 1 .. n + 1 |-> s[k]] = Append([k \in 1 .. n |-> s[k]], s[n + 1])
  <1> DEFINE f == [k \in 1 .. n |-> s[k]]
             g == [k \in 1 .. n + 1 |-> s[k]]
  <1>1. f \in [1 .. n -> S] /\ g \in [1 .. n + 1 -> S] /\ s[n + 1] \in S
    OBVIOUS
  <1>2. f \in Seq(S) /\ Len(f) = n /\ g \in Seq(S) /\ Len(g) = n + 1
    BY <1>1, IsASeq, LenProperties
  <1> QED BY <1>1, <1>2, AppendProperties, SeqEqual

(* One sequence more to join. *)
LEMMA FlatLonger ==
    ASSUME NEW S, NEW n \in Nat, NEW g, \A k \in 1 .. n + 1 : g[k] \in Seq(S)
    PROVE  /\ FlattenSeq([k \in 1 .. n |-> g[k]]) \in Seq(S)
           /\ FlattenSeq([k \in 1 .. n + 1 |-> g[k]]) =
                 FlattenSeq([k \in 1 .. n |-> g[k]]) \o g[n + 1]
  <1> DEFINE s == [k \in 1 .. n |-> g[k]]
             t == [k \in 1 .. n + 1 |-> g[k]]
  <1>1. g[n + 1] \in Seq(S)
    OBVIOUS
  <1>2. s \in Seq(Seq(S)) /\ t = Append(s, g[n + 1])
    BY LongerByOne
  <1> HIDE DEF s, t
  <1>3. FlattenSeq(s) \in Seq(S) /\ FlattenSeq(t) = FlattenSeq(s) \o g[n + 1]
    BY <1>1, <1>2, FlatAppend
  <1> QED BY <1>3 DEF s, t

(* What f makes of the elements of a sequence, joined. *)
FlatMap(f, s) == FlattenSeq([i \in DOMAIN s |-> f[s[i]]])

(* An element appended appends what f makes of it. *)
LEMMA FlatMapAppend ==
    ASSUME NEW S, NEW E, NEW s \in Seq(E), NEW x \in E, NEW f,
           \A e \in E : f[e] \in Seq(S)
    PROVE  /\ FlatMap(f, s) \in Seq(S)
           /\ FlatMap(f, Append(s, x)) = FlatMap(f, s) \o f[x]
  <1> DEFINE t == Append(s, x)
             n == Len(s)
             g == [k \in 1 .. n + 1 |-> f[t[k]]]
  <1>1. /\ n \in Nat /\ DOMAIN s = 1 .. n /\ DOMAIN t = 1 .. n + 1
        /\ \A k \in 1 .. n : t[k] = s[k]
        /\ t[n + 1] = x /\ \A k \in 1 .. n + 1 : t[k] \in E
    BY AppendProperties, LenProperties
  <1> HIDE DEF n, t
  <1>2. \A k \in 1 .. n + 1 : g[k] = f[t[k]] /\ g[k] \in Seq(S)
    BY <1>1
  <1>3. g[n + 1] = f[x]
    BY <1>1
  <1>4. [i \in DOMAIN s |-> f[s[i]]] = [k \in 1 .. n |-> g[k]]
    BY <1>1, <1>2
  <1>5. [i \in DOMAIN t |-> f[t[i]]] = [k \in 1 .. n + 1 |-> g[k]]
    BY <1>1, <1>2
  <1> HIDE DEF g
  <1>6. /\ FlattenSeq([k \in 1 .. n |-> g[k]]) \in Seq(S)
        /\ FlattenSeq([k \in 1 .. n + 1 |-> g[k]]) =
              FlattenSeq([k \in 1 .. n |-> g[k]]) \o g[n + 1]
    BY <1>1, <1>2, FlatLonger
  <1> QED BY <1>3, <1>4, <1>5, <1>6 DEF FlatMap, t

---------------------------------------------------------------------------
(* Sequences whose elements are related. *)

(* Every element of s is related by R to every one after it. *)
Paired(s, R) == \A m, n \in 1 .. Len(s) : m < n => <<s[m], s[n]>> \in R

LEMMA ElementsOf ==
    ASSUME NEW S, NEW s \in Seq(S)
    PROVE  /\ ToSet(s) = {s[i] : i \in 1 .. Len(s)} /\ ToSet(s) \subseteq S
           /\ Len(s) \in Nat
  BY LenProperties DEF ToSet

LEMMA AppendIs ==
    ASSUME NEW S, NEW s \in Seq(S), NEW x \in S
    PROVE  /\ Append(s, x) \in Seq(S) /\ Len(s) \in Nat /\ Len(Append(s, x)) = Len(s) + 1
           /\ Append(s, x)[Len(s) + 1] = x
           /\ \A i \in 1 .. Len(s) : Append(s, x)[i] = s[i]
  BY AppendProperties, LenProperties

LEMMA ConcatPairs ==
    ASSUME NEW S, NEW s \in Seq(S), NEW t \in Seq(S), NEW R,
           Paired(s, R), Paired(t, R),
           \A x \in ToSet(s), y \in ToSet(t) : <<x, y>> \in R
    PROVE  Paired(s \o t, R) /\ ToSet(s \o t) = ToSet(s) \cup ToSet(t)
  <1> DEFINE M == Len(s)
             N == Len(t)
             u == s \o t
  <1>1. /\ M \in Nat /\ N \in Nat /\ u \in Seq(S) /\ Len(u) = M + N
        /\ \A i \in 1 .. M + N : u[i] = IF i <= M THEN s[i] ELSE t[i - M]
    BY LenProperties, ConcatProperties
  <1>2. /\ ToSet(s) = {s[i] : i \in 1 .. M} /\ ToSet(t) = {t[i] : i \in 1 .. N}
        /\ ToSet(u) = {u[i] : i \in 1 .. M + N}
    BY <1>1, ElementsOf
  <1>3. /\ \A m, n \in 1 .. M : m < n => <<s[m], s[n]>> \in R
        /\ \A m, n \in 1 .. N : m < n => <<t[m], t[n]>> \in R
    BY DEF Paired
  <1> HIDE DEF M, N, u
  <1>4. ASSUME NEW m \in 1 .. M + N, NEW n \in 1 .. M + N, m < n
        PROVE  <<u[m], u[n]>> \in R
    <2>1. CASE n <= M
      BY <1>1, <1>3, <1>4, <2>1
    <2>2. CASE m <= M /\ ~ (n <= M)
      <3>1. n - M \in 1 .. N /\ m \in 1 .. M /\ u[m] = s[m] /\ u[n] = t[n - M]
        BY <1>1, <2>2
      <3>2. s[m] \in ToSet(s) /\ t[n - M] \in ToSet(t)
        BY <1>2, <3>1
      <3> QED BY <3>1, <3>2
    <2>3. CASE ~ (m <= M)
      <3>1. m - M \in 1 .. N /\ n - M \in 1 .. N /\ m - M < n - M
        BY <1>1, <1>4, <2>3
      <3>2. u[m] = t[m - M] /\ u[n] = t[n - M]
        BY <1>1, <1>4, <2>3
      <3> QED BY <1>3, <3>1, <3>2
    <2> QED BY <2>1, <2>2, <2>3
  <1>5. Paired(u, R)
    BY <1>1, <1>4 DEF Paired
  <1>6. ASSUME NEW x PROVE x \in ToSet(u) <=> x \in ToSet(s) \/ x \in ToSet(t)
    <2>1. ASSUME NEW i \in 1 .. M PROVE s[i] \in ToSet(u)
      <3>1. i \in 1 .. M + N /\ u[i] = s[i]
        BY <1>1
      <3> QED BY <1>2, <3>1
    <2>2. ASSUME NEW i \in 1 .. N PROVE t[i] \in ToSet(u)
      <3>1. M + i \in 1 .. M + N /\ u[M + i] = t[i]
        BY <1>1
      <3> QED BY <1>2, <3>1
    <2>3. ASSUME NEW i \in 1 .. M + N PROVE u[i] \in ToSet(s) \/ u[i] \in ToSet(t)
      <3>1. CASE i <= M
        BY <1>1, <1>2, <3>1
      <3>2. CASE ~ (i <= M)
        <4>1. i - M \in 1 .. N /\ u[i] = t[i - M]
          BY <1>1, <3>2
        <4> QED BY <1>2, <4>1
      <3> QED BY <3>1, <3>2
    <2> QED BY <1>2, <2>1, <2>2, <2>3
  <1> QED BY <1>5, <1>6 DEF u

LEMMA FlatPairs ==
    ASSUME NEW S, NEW R, NEW n \in Nat, NEW g,
           \A k \in 1 .. n : g[k] \in Seq(S) /\ Paired(g[k], R),
           \A j, k \in 1 .. n : j < k =>
                \A x \in ToSet(g[j]), y \in ToSet(g[k]) : <<x, y>> \in R
    PROVE  /\ FlattenSeq([k \in 1 .. n |-> g[k]]) \in Seq(S)
           /\ Paired(FlattenSeq([k \in 1 .. n |-> g[k]]), R)
           /\ \A x : x \in ToSet(FlattenSeq([k \in 1 .. n |-> g[k]])) <=>
                        \E k \in 1 .. n : x \in ToSet(g[k])
  <1> DEFINE f(m) == FlattenSeq([k \in 1 .. m |-> g[k]])
             P(m) == /\ f(m) \in Seq(S) /\ Paired(f(m), R)
                     /\ \A x : x \in ToSet(f(m)) <=> \E k \in 1 .. m : x \in ToSet(g[k])
             T == {m \in 0 .. n : ~ P(m)}
  <1> SUFFICES P(n)
    OBVIOUS
  <1> SUFFICES ASSUME T # {} PROVE FALSE
    <2>1. n \in 0 .. n
      OBVIOUS
    <2> HIDE DEF P
    <2> QED BY <2>1
  <1>1. PICK m \in T : \A l \in T : m <= l
    <2>1. T \subseteq Nat
      <3> HIDE DEF P
      <3> QED OBVIOUS
    <2> HIDE DEF T
    <2> QED BY <2>1, Least
  <1>2. m \in 0 .. n /\ ~ P(m) /\ \A l \in 0 .. n : l < m => P(l)
    <2> HIDE DEF P
    <2> QED BY <1>1
  <1>3. CASE m = 0
    <2>1. [k \in 1 .. 0 |-> g[k]] = <<>>
      OBVIOUS
    <2>2. f(0) = <<>> /\ <<>> \in Seq(S) /\ Len(<<>>) = 0
      BY ZenonT(30), <2>1, EmptySeq DEF FlattenSeq
    <2>3. ToSet(f(0)) = {} /\ Paired(f(0), R) /\ f(0) \in Seq(S)
      <3>1. \A k \in 1 .. 0 : FALSE
        OBVIOUS
      <3> HIDE DEF f
      <3>2. f(0) \in Seq(S) /\ Len(f(0)) = 0
        BY <2>2
      <3>3. ToSet(f(0)) = {f(0)[i] : i \in 1 .. 0}
        BY <3>2, ElementsOf
      <3> QED BY <3>1, <3>2, <3>3 DEF Paired
    <2>4. P(0)
      <3>1. \A k \in 1 .. 0 : FALSE
        OBVIOUS
      <3> HIDE DEF f
      <3> QED BY <2>3, <3>1
    <2> HIDE DEF P
    <2> QED BY <1>2, <1>3, <2>4
  <1>4. CASE m # 0
    <2> DEFINE l == m - 1
    <2>1. l \in 0 .. n /\ l < m /\ l \in Nat /\ l + 1 = m /\ m \in 1 .. n
      BY <1>2, <1>4
    <2> HIDE DEF l
    <2>2. P(l)
      <3> HIDE DEF P
      <3> QED BY <1>2, <2>1
    <2>3. f(m) = f(l) \o g[m] /\ g[m] \in Seq(S) /\ Paired(g[m], R)
      <3>1. \A k \in 1 .. l + 1 : g[k] \in Seq(S)
        BY <2>1
      <3>2. f(l + 1) = f(l) \o g[l + 1]
        BY <2>1, <3>1, FlatLonger
      <3> QED BY <2>1, <3>2
    <2>4. \A k \in 1 .. m : k \in 1 .. l \/ k = m
      BY <2>1
    <2>5. \A x \in ToSet(f(l)), y \in ToSet(g[m]) : <<x, y>> \in R
      <3>1. TAKE x \in ToSet(f(l)), y \in ToSet(g[m])
      <3>2. PICK k \in 1 .. l : x \in ToSet(g[k])
        BY <2>2
      <3>3. k \in 1 .. n /\ k < m
        BY <2>1
      <3> QED BY <2>1, <3>2, <3>3
    <2> DEFINE u == f(l)
    <2>6. u \in Seq(S) /\ Paired(u, R) /\ \A x \in ToSet(u), y \in ToSet(g[m]) : <<x, y>> \in R
      BY <2>2, <2>5
    <2>7. f(m) = u \o g[m]
      BY <2>3
    <2>8. \A x : x \in ToSet(u) <=> \E k \in 1 .. l : x \in ToSet(g[k])
      BY <2>2
    <2> HIDE DEF u
    <2>9. f(m) \in Seq(S) /\ Paired(f(m), R) /\ ToSet(f(m)) = ToSet(u) \cup ToSet(g[m])
      <3>1. u \o g[m] \in Seq(S)
        BY <2>3, <2>6, ConcatProperties
      <3>2. Paired(u \o g[m], R) /\ ToSet(u \o g[m]) = ToSet(u) \cup ToSet(g[m])
        BY <2>3, <2>6, ConcatPairs
      <3> HIDE DEF f
      <3> QED BY <2>7, <3>1, <3>2
    <2>10. P(m)
      <3>1. \A x : x \in ToSet(f(m)) <=> x \in ToSet(u) \/ x \in ToSet(g[m])
        <4> HIDE DEF f
        <4> QED BY <2>9
      <3>2. \A k \in 1 .. l : k \in 1 .. m
        BY <2>1
      <3>3. m \in 1 .. m
        BY <2>1
      <3> HIDE DEF f
      <3> QED BY <2>4, <2>8, <2>9, <3>1, <3>2, <3>3
    <2> HIDE DEF P
    <2> QED BY <1>2, <2>10
  <1> QED BY <1>3, <1>4
(* What an element of a joined sequence comes from. *)
LEMMA FlatElements ==
    ASSUME NEW S, NEW n \in Nat, NEW ss, ss = [k \in 1 .. n |-> ss[k]],
           \A k \in 1 .. n : ss[k] \in Seq(S)
    PROVE  /\ FlattenSeq(ss) \in Seq(S)
           /\ \A x : x \in ToSet(FlattenSeq(ss)) <=> \E k \in 1 .. n : x \in ToSet(ss[k])
  <1> DEFINE R == S \X S
  <1>1. ASSUME NEW k \in 1 .. n PROVE Paired(ss[k], R)
    <2>1. \A m \in 1 .. Len(ss[k]) : ss[k][m] \in S
      BY LenProperties
    <2> QED BY <2>1 DEF Paired
  <1>2. ASSUME NEW j \in 1 .. n, NEW k \in 1 .. n, j < k
        PROVE  \A x \in ToSet(ss[j]), y \in ToSet(ss[k]) : <<x, y>> \in R
    <2>1. ToSet(ss[j]) \subseteq S /\ ToSet(ss[k]) \subseteq S
      BY ElementsOf
    <2> QED BY <2>1
  <1> HIDE DEF R
  <1>3. /\ FlattenSeq([k \in 1 .. n |-> ss[k]]) \in Seq(S)
        /\ Paired(FlattenSeq([k \in 1 .. n |-> ss[k]]), R)
        /\ \A x : x \in ToSet(FlattenSeq([k \in 1 .. n |-> ss[k]])) <=>
                     \E k \in 1 .. n : x \in ToSet(ss[k])
    <2>1. \A k \in 1 .. n : ss[k] \in Seq(S) /\ Paired(ss[k], R)
      BY <1>1
    <2>2. \A j, k \in 1 .. n : j < k =>
             \A x \in ToSet(ss[j]), y \in ToSet(ss[k]) : <<x, y>> \in R
      BY <1>2
    <2>3. n \in Nat
      OBVIOUS
    <2> QED BY ONLY <2>1, <2>2, <2>3, FlatPairs
  <1> DEFINE t == [k \in 1 .. n |-> ss[k]]
  <1>4. /\ FlattenSeq(t) \in Seq(S)
        /\ \A x : x \in ToSet(FlattenSeq(t)) <=> \E k \in 1 .. n : x \in ToSet(ss[k])
    BY <1>3
  <1>5. ss = t
    OBVIOUS
  <1> HIDE DEF t
  <1> QED BY ONLY <1>4, <1>5

LEMMA ConcatElements ==
    ASSUME NEW S, NEW s \in Seq(S), NEW t \in Seq(S)
    PROVE  /\ s \o t \in Seq(S) /\ ToSet(s \o t) = ToSet(s) \cup ToSet(t)
           /\ Len(s) \in Nat /\ Len(t) \in Nat /\ Len(s \o t) = Len(s) + Len(t)
           /\ \A i \in 1 .. Len(s) + Len(t) :
                 (s \o t)[i] = IF i <= Len(s) THEN s[i] ELSE t[i - Len(s)]
  <1> DEFINE R == S \X S
  <1>1. \A i \in 1 .. Len(s) : s[i] \in S
    BY LenProperties
  <1>2. \A i \in 1 .. Len(t) : t[i] \in S
    BY LenProperties
  <1>3. Paired(s, R) /\ Paired(t, R)
    BY <1>1, <1>2 DEF Paired
  <1>4. \A x \in ToSet(s), y \in ToSet(t) : <<x, y>> \in R
    <2>1. ToSet(s) \subseteq S /\ ToSet(t) \subseteq S
      BY ElementsOf
    <2> QED BY <2>1
  <1> HIDE DEF R
  <1>5. ToSet(s \o t) = ToSet(s) \cup ToSet(t)
    BY <1>3, <1>4, ConcatPairs
  <1> QED BY <1>5, LenProperties, ConcatProperties
=============================================================================
