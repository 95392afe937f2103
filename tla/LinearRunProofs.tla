-------------------------- MODULE LinearRunProofs --------------------------
(***************************************************************************)
(* Theorems about LinearRun, for every finite set of runs and every set of  *)
(* scenes whose flows are parsed ones; and about the order its steps take,  *)
(* which Dag computes: its recursive functions are there and give what they *)
(* should, by the least number for which they would not.                   *)
(***************************************************************************)
EXTENDS LinearRun, SequenceLemmas, FiniteSetTheorems

----------------------------------------------------------------------------
(* Every finite set of numbers has an ascending sequence: the place of a    *)
(* number is how many are not larger.                                      *)

LEMMA PlacesGrow ==
  ASSUME NEW S \in SUBSET Nat, IsFiniteSet(S), NEW x \in S
  PROVE  /\ IsFiniteSet({z \in S : z <= x})
         /\ Cardinality({z \in S : z <= x}) \in 1 .. Cardinality(S)
         /\ \A y \in S : x < y =>
               Cardinality({z \in S : z <= x}) < Cardinality({z \in S : z <= y})
<1> DEFINE Up(y) == {z \in S : z <= y}
<1>1. \A y \in S : /\ IsFiniteSet(Up(y)) /\ Cardinality(Up(y)) \in Nat
                   /\ Cardinality(Up(y)) <= Cardinality(S)
                   /\ Cardinality(Up(y)) # 0
  <2> TAKE y \in S
  <2>1. Up(y) \in SUBSET S /\ y \in Up(y)
    OBVIOUS
  <2> HIDE DEF Up
  <2>2. IsFiniteSet(Up(y)) /\ Cardinality(Up(y)) <= Cardinality(S)
    BY <2>1, FS_Subset
  <2>3. Cardinality(Up(y)) \in Nat /\ Cardinality(Up(y)) # 0
    BY <2>1, <2>2, FS_CardinalityType, FS_EmptySet
  <2> QED BY <2>2, <2>3
<1>2. ASSUME NEW y \in S, x < y PROVE Cardinality(Up(x)) < Cardinality(Up(y))
  <2>1. Up(x) \in SUBSET Up(y) /\ Up(x) # Up(y)
    <3>1. y \in Up(y) /\ y \notin Up(x)
      BY <1>2
    <3>2. \A z \in S : z <= x => z <= y
      BY <1>2
    <3> QED BY <3>1, <3>2
  <2> HIDE DEF Up
  <2>2. /\ Cardinality(Up(x)) <= Cardinality(Up(y))
        /\ Cardinality(Up(y)) = Cardinality(Up(x)) => Up(y) = Up(x)
    BY <1>1, <2>1, FS_Subset
  <2>3. Cardinality(Up(x)) \in Nat /\ Cardinality(Up(y)) \in Nat
    BY <1>1
  <2> QED BY <2>1, <2>2, <2>3
<1>3. Cardinality(S) \in Nat
  BY FS_CardinalityType
<1> HIDE DEF Up
<1>4. Cardinality(Up(x)) \in 1 .. Cardinality(S)
  BY <1>1, <1>3
<1> QED BY <1>1, <1>2, <1>4 DEF Up

LEMMA AscendingIs ==
  ASSUME NEW S \in SUBSET Nat, IsFiniteSet(S)
  PROVE  /\ Cardinality(S) \in Nat
         /\ Ascending(S) \in Seq(S) /\ Len(Ascending(S)) = Cardinality(S)
         /\ \A i, j \in 1 .. Cardinality(S) : Ascending(S)[i] = Ascending(S)[j] => i = j
         /\ \A x \in S : \E i \in 1 .. Cardinality(S) : Ascending(S)[i] = x
<1> DEFINE n == Cardinality(S)
           place == [x \in S |-> Cardinality({z \in S : z <= x})]
<1>0. \A x \in S : x \in Nat
  OBVIOUS
<1>1. n \in Nat /\ IsFiniteSet(1 .. n) /\ Cardinality(1 .. n) = n
  BY FS_CardinalityType, FS_Interval
<1>2. place \in [S -> 1 .. n]
  BY PlacesGrow
<1>3. \A x, y \in S : x < y => place[x] < place[y]
  BY PlacesGrow
<1> HIDE DEF place, n
<1>4. \A x \in S : place[x] \in Nat
  BY <1>1, <1>2
<1>5. \A x, y \in S : place[x] = place[y] => x = y
  BY <1>3, <1>4
<1>6. place \in Injection(S, 1 .. n)
  BY <1>2, <1>5 DEF Injection, IsInjective
<1>7. place \in Surjection(S, 1 .. n)
  BY <1>1, <1>6, FS_Injection DEF n
<1>8. \A k \in 1 .. n : \E x \in S : place[x] = k
  BY <1>7 DEF Surjection
<1> DEFINE q == [k \in 1 .. n |-> CHOOSE x \in S : place[x] = k]
<1>9. \A k \in 1 .. n : q[k] \in S /\ place[q[k]] = k
  BY <1>8
<1>10. q \in [1 .. n -> S]
  BY <1>9
<1> HIDE DEF q
<1>11. ASSUME NEW i \in 1 .. n, NEW j \in 1 .. n, i < j PROVE q[i] < q[j]
  <2>1. q[i] \in Nat /\ q[j] \in Nat /\ i \in Nat /\ j \in Nat
    <3>1. q[i] \in S /\ q[j] \in S
      BY <1>9
    <3>2. i \in Nat /\ j \in Nat
      BY <1>1
    <3> HIDE DEF n
    <3> QED BY <1>0, <3>1, <3>2
  <2>2. CASE q[j] < q[i]
    BY <1>3, <1>9, <1>11, <2>1, <2>2
  <2>3. CASE q[j] = q[i]
    BY <1>9, <1>11, <2>1, <2>3
  <2> QED BY <2>1, <2>2, <2>3
<1> DEFINE a == Ascending(S)
<1>12. a \in [1 .. n -> S] /\ \A i, j \in 1 .. n : i < j => a[i] < a[j]
  BY <1>10, <1>11 DEF Ascending, n
<1> HIDE DEF a
<1>13. \A i, j \in 1 .. n : a[i] = a[j] => i = j
  <2> TAKE i, j \in 1 .. n
  <2>1. i \in Nat /\ j \in Nat /\ a[i] \in Nat /\ a[j] \in Nat
    <3>1. a[i] \in S /\ a[j] \in S
      BY <1>12
    <3>2. i \in Nat /\ j \in Nat
      BY <1>1
    <3> HIDE DEF n
    <3> QED BY <1>0, <3>1, <3>2
  <2>2. (i < j => a[i] < a[j]) /\ (j < i => a[j] < a[i])
    BY <1>12
  <2> QED BY <2>1, <2>2
<1>14. a \in Injection(1 .. n, S)
  BY <1>12, <1>13 DEF Injection, IsInjective
<1>15. a \in Surjection(1 .. n, S)
  BY <1>1, <1>14, FS_Injection DEF n
<1>16. \A x \in S : \E i \in 1 .. n : a[i] = x
  BY <1>15 DEF Surjection
<1>17. a \in Seq(S) /\ Len(a) = n
  BY <1>1, <1>12, SeqDef
<1> QED BY <1>1, <1>13, <1>16, <1>17 DEF a, n

----------------------------------------------------------------------------
(* What a step needs.                                                      *)

Merges(f, step, n) ==
  f = [i \in 0 .. n |->
         IF i = 0 THEN step.needs
         ELSE IF Contains(f[i - 1], step.input[i]) THEN f[i - 1]
              ELSE Append(f[i - 1], step.input[i])]

LEMMA MergeExists ==
  ASSUME NEW step, NEW n \in Nat
  PROVE  \E f : Merges(f, step, n)
<1> DEFINE T == {k \in Nat : ~ \E f : Merges(f, step, k)}
<1> SUFFICES ASSUME T # {} PROVE FALSE
  OBVIOUS
<1>1. PICK k \in T : \A m \in T : k <= m
  <2>1. T \subseteq Nat
    OBVIOUS
  <2> HIDE DEF T
  <2> QED BY <2>1, Least
<1>2. k \in Nat /\ ~ \E f : Merges(f, step, k)
  BY <1>1
<1>3. CASE k = 0
  <2> DEFINE f == [i \in 0 .. 0 |-> step.needs]
  <2>1. Merges(f, step, 0)
    BY DEF Merges
  <2> QED BY <1>2, <1>3, <2>1
<1>4. CASE k # 0
  <2>1. k - 1 \in Nat /\ k - 1 \notin T
    BY <1>1, <1>2, <1>4
  <2>2. PICK g : Merges(g, step, k - 1)
    BY <2>1
  <2> DEFINE After(h, i) == IF i = 0 THEN step.needs
                           ELSE IF Contains(h[i - 1], step.input[i]) THEN h[i - 1]
                                ELSE Append(h[i - 1], step.input[i])
             f == [i \in 0 .. k |-> After(g, i)]
  <2>3. g = [i \in 0 .. k - 1 |-> After(g, i)]
    BY <2>2 DEF Merges
  <2>4. \A i \in 0 .. k - 1 : f[i] = g[i]
    <3> TAKE i \in 0 .. k - 1
    <3>1. i \in 0 .. k
      BY <1>2
    <3> HIDE DEF After
    <3> QED BY <2>3, <3>1
  <2>5. \A i \in 0 .. k : After(f, i) = After(g, i)
    <3> HIDE DEF f
    <3> TAKE i \in 0 .. k
    <3>1. i # 0 => i - 1 \in 0 .. k - 1
      BY <1>2
    <3> QED BY <2>4, <3>1
  <2>6. f = [i \in 0 .. k |-> After(f, i)]
    <3>1. f = [i \in 0 .. k |-> After(g, i)]
      OBVIOUS
    <3> HIDE DEF f, After
    <3> QED BY <2>5, <3>1
  <2>7. Merges(f, step, k)
    <3> HIDE DEF f
    <3> QED BY <2>6 DEF Merges
  <2> QED BY <1>2, <2>7
<1> QED BY <1>3, <1>4

LEMMA NeedsIs ==
  ASSUME NEW step, step.needs \in Seq(Nat), step.input \in Seq(Nat)
  PROVE  Needs(step) \in Seq(Nat) /\ ToSet(step.input) \subseteq ToSet(Needs(step))
<1> DEFINE n == Len(step.input)
           After(h, i) == IF i = 0 THEN step.needs
                         ELSE IF Contains(h[i - 1], step.input[i]) THEN h[i - 1]
                              ELSE Append(h[i - 1], step.input[i])
           f == CHOOSE h : h = [i \in 0 .. n |-> After(h, i)]
<1>1. n \in Nat /\ \A i \in 1 .. n : step.input[i] \in Nat
  BY LenProperties
<1>2. Needs(step) = f[n]
  BY DEF Needs
<1>3. \E h : h = [i \in 0 .. n |-> After(h, i)]
  BY ZenonT(30), <1>1, MergeExists DEF Merges
<1>4. f = [i \in 0 .. n |-> After(f, i)]
  BY Zenon, <1>3
<1> HIDE DEF f
<1>5. f[0] = step.needs
  BY <1>1, <1>4
<1>6. \A i \in 1 .. n : f[i] = IF Contains(f[i - 1], step.input[i]) THEN f[i - 1]
                               ELSE Append(f[i - 1], step.input[i])
  <2> HIDE DEF n
  <2> TAKE i \in 1 .. n
  <2>1. i \in 0 .. n /\ i # 0
    BY <1>1
  <2>2. f[i] = After(f, i)
    <3> HIDE DEF After
    <3> QED BY <1>4, <2>1
  <2> QED BY <2>1, <2>2
<1> HIDE DEF n
<1> DEFINE Ok(i) == f[i] \in Seq(Nat) /\ \A k \in 1 .. i : step.input[k] \in ToSet(f[i])
           T == {i \in 0 .. n : ~ Ok(i)}
<1>7. ASSUME T # {} PROVE FALSE
  <2>1. PICK k \in T : \A m \in T : k <= m
    <3>1. T \subseteq Nat
      BY <1>1
    <3> HIDE DEF T
    <3> QED BY <1>7, <3>1, Least
  <2>2. k \in 0 .. n /\ k \in Nat /\ ~ Ok(k)
    BY <1>1, <2>1
  <2>3. k # 0
    BY <1>5, <2>2
  <2>4. k - 1 \in 0 .. n /\ k - 1 \notin T /\ k \in 1 .. n
    BY SMTT(30), <1>1, <2>1, <2>2, <2>3
  <2> DEFINE s == f[k - 1]
             d == step.input[k]
  <2>5. s \in Seq(Nat) /\ d \in Nat /\ \A m \in 1 .. k - 1 : step.input[m] \in ToSet(s)
    BY <1>1, <2>4
  <2>6. f[k] = IF Contains(s, d) THEN s ELSE Append(s, d)
    BY <1>6, <2>4
  <2>7. f[k] \in Seq(Nat) /\ d \in ToSet(f[k]) /\ ToSet(s) \subseteq ToSet(f[k])
    <3> HIDE DEF s, d
    <3>1. CASE Contains(s, d)
      BY SMTT(30), <2>5, <2>6, <3>1 DEF Contains, ToSet
    <3>2. CASE ~Contains(s, d)
      <4>1. f[k] = Append(s, d)
        BY <2>6, <3>2
      <4>2. /\ Append(s, d) \in Seq(Nat) /\ Len(Append(s, d)) = Len(s) + 1
            /\ Append(s, d)[Len(s) + 1] = d
            /\ \A i \in 1 .. Len(s) : Append(s, d)[i] = s[i]
            /\ Len(s) \in Nat
        BY <2>5, AppendProperties, LenProperties
      <4> HIDE DEF Ok
      <4>3. DOMAIN Append(s, d) = 1 .. Len(s) + 1 /\ DOMAIN s = 1 .. Len(s)
        BY <2>5, <4>2, LenProperties
      <4>4. d \in ToSet(Append(s, d)) /\ ToSet(s) \subseteq ToSet(Append(s, d))
        BY <4>2, <4>3 DEF ToSet
      <4> QED BY <4>1, <4>2, <4>4
    <3> QED BY <3>1, <3>2
  <2>8. \A m \in 1 .. k : m \in 1 .. k - 1 \/ m = k
    BY <2>2
  <2>9. \A m \in 1 .. k : step.input[m] \in ToSet(f[k])
    BY <2>5, <2>7, <2>8
  <2> QED BY <2>2, <2>7, <2>9
<1>8. Ok(n)
  BY SMTT(30), <1>1, <1>7
<1>9. ToSet(step.input) \subseteq ToSet(f[n])
  BY <1>8, LenProperties DEF ToSet, n
<1> QED BY <1>2, <1>8, <1>9 DEF n

----------------------------------------------------------------------------
(* A flow and its dependencies.                                            *)

LEMMA FlowIs ==
  ASSUME NEW f, IsFlow(f)
  PROVE  /\ Len(f) \in Nat /\ DOMAIN f = 1 .. Len(f)
         /\ IsFiniteSet(Ids(f)) /\ Cardinality(Ids(f)) = Len(f) /\ Ids(f) \subseteq Nat
         /\ \A x \in Ids(f) : \E i \in DOMAIN f : StepOf(f, x) = f[i] /\ f[i].id = x
<1> DEFINE n == Len(f)
<1>1. n \in Nat /\ DOMAIN f = 1 .. n
  BY LenProperties DEF IsFlow
<1> DEFINE ids == [i \in 1 .. n |-> f[i].id]
<1>2. ids \in [1 .. n -> Ids(f)]
  BY <1>1 DEF Ids
<1>3. \A i, j \in 1 .. n : ids[i] = ids[j] => i = j
  BY <1>1 DEF IsFlow
<1>4. \A x \in Ids(f) : \E i \in 1 .. n : ids[i] = x
  BY <1>1 DEF Ids
<1>5. Ids(f) \subseteq Nat
  BY DEF Ids, IsFlow
<1>6. ASSUME NEW x \in Ids(f) PROVE \E i \in DOMAIN f : StepOf(f, x) = f[i] /\ f[i].id = x
  <2>1. \E i \in DOMAIN f : f[i].id = x
    BY DEF Ids
  <2> DEFINE i == CHOOSE i \in DOMAIN f : f[i].id = x
  <2>2. i \in DOMAIN f /\ f[i].id = x
    BY <2>1
  <2>3. StepOf(f, x) = f[i]
    BY DEF StepOf
  <2> QED BY <2>2, <2>3
<1>7. IsFiniteSet(1 .. n) /\ Cardinality(1 .. n) = n
  <2> HIDE DEF n
  <2>1. Cardinality(1 .. n) = IF 1 > n THEN 0 ELSE n - 1 + 1
    BY <1>1, FS_Interval
  <2> QED BY <1>1, <2>1, FS_Interval
<1> HIDE DEF ids, n
<1>8. ids \in Surjection(1 .. n, Ids(f)) /\ ids \in Injection(1 .. n, Ids(f))
  BY <1>2, <1>3, <1>4 DEF Surjection, Injection, IsInjective
<1>9. IsFiniteSet(Ids(f)) /\ Cardinality(Ids(f)) = n
  BY <1>7, <1>8, FS_Surjection
<1> QED BY <1>1, <1>5, <1>6, <1>9 DEF n

LEMMA DepsAre ==
  ASSUME NEW f, IsFlow(f), NEW x \in Ids(f)
  PROVE  /\ Needs(StepOf(f, x)) \in Seq(Nat)
         /\ ToSet(StepOf(f, x).input) \subseteq Deps(f, x)
         /\ UnknownSteps(f) = {} => Deps(f, x) \subseteq Ids(f)
<1>1. PICK i \in DOMAIN f : StepOf(f, x) = f[i]
  BY FlowIs
<1>2. f[i].needs \in Seq(Nat) /\ f[i].input \in Seq(Nat)
  BY <1>1 DEF IsFlow
<1>3. Needs(f[i]) \in Seq(Nat) /\ ToSet(f[i].input) \subseteq ToSet(Needs(f[i]))
  BY <1>2, NeedsIs
<1>4. UnknownSteps(f) = {} => ToSet(Needs(f[i])) \subseteq Ids(f)
  <2>1. ToSet(Needs(f[i])) \subseteq UNION {ToSet(Needs(f[j])) : j \in DOMAIN f}
    BY <1>1
  <2> QED BY <2>1 DEF UnknownSteps
<1> QED BY <1>1, <1>3, <1>4 DEF Deps

(* How many entries of its list a step waits for when O have been ordered.  *)
Waits(f, x, O) ==
  LET n == Needs(StepOf(f, x)) IN {k \in DOMAIN n : n[k] \notin O}

Left(f, x, O) == Cardinality(Waits(f, x, O))

LEMMA LeftIs ==
  ASSUME NEW f, IsFlow(f), NEW x \in Ids(f), NEW O
  PROVE  /\ IsFiniteSet(Waits(f, x, O)) /\ Left(f, x, O) \in Nat
         /\ Left(f, x, O) = 0 <=> Deps(f, x) \subseteq O
<1> DEFINE n == Needs(StepOf(f, x))
<1>1. n \in Seq(Nat)
  BY DepsAre
<1>2. DOMAIN n = 1 .. Len(n) /\ Len(n) \in Nat
  BY <1>1, LenProperties
<1>3. IsFiniteSet(DOMAIN n)
  BY <1>2, FS_Interval
<1>4. Waits(f, x, O) \in SUBSET DOMAIN n
  BY DEF Waits
<1>5. IsFiniteSet(Waits(f, x, O))
  BY <1>3, <1>4, FS_Subset
<1>6. Left(f, x, O) \in Nat /\ (Left(f, x, O) = 0 <=> Waits(f, x, O) = {})
  BY <1>5, FS_CardinalityType, FS_EmptySet DEF Left
<1>7. Waits(f, x, O) = {} <=> Deps(f, x) \subseteq O
  BY DEF Waits, Deps, ToSet
<1> QED BY <1>5, <1>6, <1>7

LEMMA LeftNext ==
  ASSUME NEW f, IsFlow(f), NEW x \in Ids(f), NEW O, NEW id, id \notin O
  PROVE  /\ Times(f, x, id) \in Nat
         /\ Left(f, x, O \cup {id}) = Left(f, x, O) - Times(f, x, id)
         /\ Times(f, x, id) > 0 <=> id \in Deps(f, x)
<1> DEFINE n == Needs(StepOf(f, x))
           A == Waits(f, x, O \cup {id})
           B == {k \in DOMAIN n : n[k] = id}
<1>1. IsFiniteSet(A) /\ Cardinality(A) \in Nat
  BY LeftIs DEF Left
<1>2. IsFiniteSet(DOMAIN n)
  BY DepsAre, LenProperties, FS_Interval
<1>3. B \in SUBSET DOMAIN n
  OBVIOUS
<1>4. IsFiniteSet(B)
  BY <1>2, <1>3, FS_Subset
<1>5. Cardinality(B) \in Nat /\ (Cardinality(B) = 0 <=> B = {})
  BY <1>4, FS_CardinalityType, FS_EmptySet
<1>6. A \cup B = Waits(f, x, O) /\ A \cap B = {}
  BY DEF Waits
<1>7. Times(f, x, id) = Cardinality(B)
  BY DEF Times
<1>8. B = {} <=> id \notin Deps(f, x)
  BY DEF Deps, ToSet
<1> HIDE DEF A, B, n
<1>9. Cardinality(A \cup B) = Cardinality(A) + Cardinality(B) - Cardinality(A \cap B)
  BY <1>1, <1>4, FS_Union
<1>10. Cardinality(A \cap B) = 0
  BY <1>6, FS_EmptySet
<1>11. Left(f, x, O) = Cardinality(A) + Cardinality(B)
  <2>1. Cardinality(A \cup B) = Cardinality(A) + Cardinality(B)
    BY <1>1, <1>5, <1>9, <1>10
  <2> QED BY <1>6, <2>1 DEF Left
<1>12. Left(f, x, O \cup {id}) = Cardinality(A)
  BY DEF Left, A
<1> QED BY <1>1, <1>5, <1>7, <1>8, <1>11, <1>12
----------------------------------------------------------------------------
(* Sequences without repetition.                                           *)

Once(q) == \A i, j \in 1 .. Len(q) : q[i] = q[j] => i = j

LEMMA HeadOnce ==
  ASSUME NEW S, NEW q \in Seq(S), q # <<>>, Once(q)
  PROVE  /\ Head(q) \in S /\ Tail(q) \in Seq(S) /\ Once(Tail(q))
         /\ ToSet(q) = {Head(q)} \cup ToSet(Tail(q))
         /\ Head(q) \notin ToSet(Tail(q))
<1>1. /\ Head(q) = q[1] /\ Head(q) \in S /\ Tail(q) \in Seq(S)
      /\ Len(Tail(q)) = Len(q) - 1
      /\ \A i \in 1 .. Len(Tail(q)) : Tail(q)[i] = q[i + 1]
  BY HeadTailProperties
<1>2. Len(q) \in Nat /\ Len(q) # 0 /\ DOMAIN q = 1 .. Len(q)
  BY EmptySeq, LenProperties
<1>3. DOMAIN Tail(q) = 1 .. Len(q) - 1
  BY <1>1, LenProperties
<1> DEFINE n == Len(q)
           t == Tail(q)
<1>4. n \in Nat /\ n >= 1 /\ 1 \in 1 .. n
  BY <1>2
<1>5. \A i \in 1 .. n - 1 : t[i] = q[i + 1] /\ i \in Nat /\ i + 1 \in 1 .. n /\ i + 1 # 1
  BY <1>1, <1>4
<1>6. \A i \in 2 .. n : i - 1 \in 1 .. n - 1 /\ q[i] = t[i - 1]
  BY <1>1, <1>4
<1>7. \A i, j \in 1 .. n : q[i] = q[j] => i = j
  BY DEF Once
<1>8. DOMAIN t = 1 .. n - 1 /\ Len(t) = n - 1 /\ DOMAIN q = 1 .. n
  BY <1>1, <1>2, <1>3
<1>9. q[1] = Head(q)
  BY <1>1
<1> HIDE DEF t, n
<1>10. Once(t)
  <2> SUFFICES ASSUME NEW i \in 1 .. n - 1, NEW j \in 1 .. n - 1, t[i] = t[j] PROVE i = j
    BY <1>8 DEF Once
  <2>1. i + 1 = j + 1
    BY <1>5, <1>7
  <2> QED BY <1>5, <2>1
<1>11. Head(q) \notin ToSet(t)
  <2> SUFFICES ASSUME NEW i \in 1 .. n - 1, t[i] = Head(q) PROVE FALSE
    BY <1>8 DEF ToSet
  <2>1. q[i + 1] = q[1]
    BY <1>5, <1>9
  <2> QED BY <1>4, <1>5, <1>7, <2>1
<1>12. ToSet(q) \subseteq {Head(q)} \cup ToSet(t)
  <2> SUFFICES ASSUME NEW i \in 1 .. n PROVE q[i] \in {Head(q)} \cup ToSet(t)
    BY <1>8 DEF ToSet
  <2>1. i = 1 \/ i \in 2 .. n
    BY <1>4
  <2> QED BY <1>6, <1>8, <1>9, <2>1 DEF ToSet
<1>13. {Head(q)} \cup ToSet(t) \subseteq ToSet(q)
  BY <1>4, <1>5, <1>8, <1>9 DEF ToSet
<1> QED BY <1>1, <1>10, <1>11, <1>12, <1>13 DEF t

LEMMA AppendOnce ==
  ASSUME NEW S, NEW q \in Seq(S), Once(q), NEW x \in S, x \notin ToSet(q)
  PROVE  /\ Append(q, x) \in Seq(S) /\ Once(Append(q, x))
         /\ ToSet(Append(q, x)) = ToSet(q) \cup {x}
<1> DEFINE n == Len(q)
           a == Append(q, x)
<1>1. /\ a \in Seq(S) /\ Len(a) = n + 1 /\ a[n + 1] = x /\ \A i \in 1 .. n : a[i] = q[i]
  BY AppendProperties
<1>2. n \in Nat /\ DOMAIN q = 1 .. n /\ DOMAIN a = 1 .. n + 1
  BY <1>1, LenProperties
<1>3. \A i \in 1 .. n : q[i] # x
  BY <1>2 DEF ToSet
<1>4. \A i, j \in 1 .. n : q[i] = q[j] => i = j
  BY DEF Once
<1>5. \A i \in 1 .. n + 1 : i \in 1 .. n \/ i = n + 1
  BY <1>2
<1>6. n + 1 \in 1 .. n + 1 /\ \A i \in 1 .. n : i \in 1 .. n + 1
  BY <1>2
<1> HIDE DEF a, n
<1>7. Once(a)
  BY <1>1, <1>3, <1>4, <1>5 DEF Once
<1>8. ToSet(a) = ToSet(q) \cup {x}
  BY <1>1, <1>2, <1>5, <1>6 DEF ToSet
<1> QED BY <1>1, <1>7, <1>8 DEF a

LEMMA ConcatOnce ==
  ASSUME NEW S, NEW q \in Seq(S), NEW p \in Seq(S), Once(q), Once(p),
         ToSet(q) \cap ToSet(p) = {}
  PROVE  /\ q \o p \in Seq(S) /\ Once(q \o p)
         /\ ToSet(q \o p) = ToSet(q) \cup ToSet(p)
<1> DEFINE n == Len(q)
           m == Len(p)
           c == q \o p
<1>1. /\ c \in Seq(S) /\ Len(c) = n + m
      /\ \A i \in 1 .. n + m : c[i] = IF i <= n THEN q[i] ELSE p[i - n]
  BY ConcatProperties
<1>2. n \in Nat /\ m \in Nat /\ DOMAIN q = 1 .. n /\ DOMAIN p = 1 .. m
      /\ DOMAIN c = 1 .. n + m
  BY <1>1, LenProperties
<1>3. /\ \A i, j \in 1 .. n : q[i] = q[j] => i = j
      /\ \A i, j \in 1 .. m : p[i] = p[j] => i = j
  BY DEF Once
<1>4. \A i \in 1 .. n, j \in 1 .. m : q[i] # p[j]
  BY <1>2 DEF ToSet
<1> HIDE DEF c, n, m
<1>5. \A i \in 1 .. n + m : /\ i \in Nat
                            /\ i <= n => i \in 1 .. n
                            /\ ~ (i <= n) => i - n \in 1 .. m
  BY <1>2
<1>6. Once(c)
  <2> SUFFICES ASSUME NEW i \in 1 .. n + m, NEW j \in 1 .. n + m, c[i] = c[j] PROVE i = j
    BY <1>1 DEF Once
  <2>1. CASE i <= n /\ j <= n
    BY <1>1, <1>3, <1>5, <2>1
  <2>2. CASE ~ (i <= n) /\ ~ (j <= n)
    <3>1. i - n = j - n
      BY <1>1, <1>3, <1>5, <2>2
    <3> QED BY <1>2, <1>5, <3>1
  <2>3. CASE i <= n /\ ~ (j <= n)
    BY <1>1, <1>4, <1>5, <2>3
  <2>4. CASE ~ (i <= n) /\ j <= n
    BY <1>1, <1>4, <1>5, <2>4
  <2> QED BY <2>1, <2>2, <2>3, <2>4
<1>7. \A i \in 1 .. n : i \in 1 .. n + m /\ c[i] = q[i]
  BY <1>1, <1>2
<1>8. \A i \in 1 .. m : i + n \in 1 .. n + m /\ c[i + n] = p[i]
  <2> TAKE i \in 1 .. m
  <2>1. /\ i + n \in 1 .. n + m /\ i + n \in 1 .. Len(q) + Len(p)
        /\ ~ (i + n <= n) /\ i + n - n = i
    BY <1>2
  <2> QED BY <1>1, <1>2, <2>1
<1>9. ToSet(c) \subseteq ToSet(q) \cup ToSet(p)
  BY <1>1, <1>2, <1>5 DEF ToSet
<1>10. ToSet(q) \cup ToSet(p) \subseteq ToSet(c)
  BY SMTT(30), <1>2, <1>7, <1>8 DEF ToSet
<1> QED BY <1>1, <1>6, <1>9, <1>10 DEF c
----------------------------------------------------------------------------
(* Kahn's algorithm: what has been ordered, what is next, what still waits. *)

KahnInv(f, s) ==
    /\ s.order \in Seq(Ids(f)) /\ s.queue \in Seq(Ids(f))
    /\ s.degree = [x \in Ids(f) |-> Left(f, x, ToSet(s.order))]
    /\ Once(s.order) /\ Once(s.queue) /\ ToSet(s.order) \cap ToSet(s.queue) = {}
    /\ \A x \in Ids(f) :
          x \in ToSet(s.order) \cup ToSet(s.queue) <=> Deps(f, x) \subseteq ToSet(s.order)
    /\ \A i \in 1 .. Len(s.order) :
          Deps(f, s.order[i]) \subseteq {s.order[j] : j \in 1 .. i - 1}

LEMMA AscendingOnce ==
  ASSUME NEW f, IsFlow(f), NEW S \in SUBSET Ids(f)
  PROVE  /\ Ascending(S) \in Seq(Ids(f)) /\ Once(Ascending(S)) /\ ToSet(Ascending(S)) = S
<1>1. IsFiniteSet(S) /\ S \in SUBSET Nat
  BY FlowIs, FS_Subset
<1> DEFINE a == Ascending(S)
           n == Cardinality(S)
<1>2. /\ n \in Nat /\ a \in Seq(S) /\ Len(a) = n
      /\ \A i, j \in 1 .. n : a[i] = a[j] => i = j
      /\ \A x \in S : \E i \in 1 .. n : a[i] = x
  BY <1>1, AscendingIs
<1> HIDE DEF a, n
<1>3. DOMAIN a = 1 .. n /\ \A i \in 1 .. n : a[i] \in S
  BY <1>2, LenProperties, ElementOfSeq
<1>4. ToSet(a) = S
  BY <1>2, <1>3 DEF ToSet
<1>5. a \in Seq(Ids(f))
  <2>1. \A i \in 1 .. Len(a) : a[i] \in Ids(f)
    BY <1>2, <1>3
  <2> QED BY <1>2, <1>3, <2>1, SeqDef
<1> QED BY <1>2, <1>4, <1>5 DEF Once, a

LEMMA StartKahn ==
  ASSUME NEW f, IsFlow(f)
  PROVE  KahnInv(f, Start(f)) /\ Len(Start(f).order) = 0
<1> DEFINE deg == [x \in Ids(f) |-> Len(Needs(StepOf(f, x)))]
           S == {x \in Ids(f) : deg[x] = 0}
           s == Start(f)
<1>1. s = [degree |-> deg, order |-> <<>>, queue |-> Ascending(S)]
  BY DEF Start
<1>2. ToSet(<<>>) = {} /\ <<>> \in Seq(Ids(f)) /\ Len(<<>>) = 0
  BY EmptySeq DEF ToSet
<1>3. \A x \in Ids(f) : deg[x] = Left(f, x, {})
  <2> TAKE x \in Ids(f)
  <2> DEFINE n == Needs(StepOf(f, x))
  <2>1. n \in Seq(Nat) /\ DOMAIN n = 1 .. Len(n) /\ Len(n) \in Nat
    BY DepsAre, LenProperties
  <2>2. Waits(f, x, {}) = 1 .. Len(n)
    BY <2>1 DEF Waits
  <2>3. Cardinality(1 .. Len(n)) = Len(n)
    <3> HIDE DEF n
    <3>1. Cardinality(1 .. Len(n)) = IF 1 > Len(n) THEN 0 ELSE Len(n) - 1 + 1
      BY SMTT(30), <2>1, FS_Interval
    <3> QED BY <2>1, <3>1
  <2> QED BY <2>2, <2>3 DEF Left
<1>4. \A x \in Ids(f) : x \in S <=> Deps(f, x) \subseteq {}
  BY <1>3, LeftIs
<1>5. S \in SUBSET Ids(f)
  OBVIOUS
<1>6. deg = [x \in Ids(f) |-> Left(f, x, {})]
  BY <1>3
<1> HIDE DEF deg, S, s
<1>7. Ascending(S) \in Seq(Ids(f)) /\ Once(Ascending(S)) /\ ToSet(Ascending(S)) = S
  BY <1>5, AscendingOnce
<1>8. s.order = <<>> /\ s.queue = Ascending(S) /\ s.degree = deg
  BY <1>1
<1>9. Once(<<>>)
  BY <1>2 DEF Once
<1>10. KahnInv(f, s)
  <2>1. /\ s.order \in Seq(Ids(f)) /\ s.queue \in Seq(Ids(f))
        /\ Once(s.order) /\ Once(s.queue) /\ ToSet(s.order) \cap ToSet(s.queue) = {}
    BY <1>2, <1>7, <1>8, <1>9
  <2>2. s.degree = [x \in Ids(f) |-> Left(f, x, ToSet(s.order))]
    BY <1>2, <1>6, <1>8
  <2>3. \A x \in Ids(f) :
          x \in ToSet(s.order) \cup ToSet(s.queue) <=> Deps(f, x) \subseteq ToSet(s.order)
    BY <1>2, <1>4, <1>7, <1>8
  <2>4. \A i \in 1 .. Len(s.order) :
          Deps(f, s.order[i]) \subseteq {s.order[j] : j \in 1 .. i - 1}
    BY <1>2, <1>8
  <2> QED BY <2>1, <2>2, <2>3, <2>4 DEF KahnInv
<1> QED BY <1>2, <1>8, <1>10 DEF s

LEMMA PopKahn ==
  ASSUME NEW f, IsFlow(f), NEW s, KahnInv(f, s), s.queue # <<>>
  PROVE  KahnInv(f, Pop(f, s)) /\ Len(Pop(f, s).order) = Len(s.order) + 1
<1> DEFINE id == Head(s.queue)
           O == ToSet(s.order)
           deg == [x \in Ids(f) |-> s.degree[x] - Times(f, x, id)]
           F == {x \in Ids(f) : Times(f, x, id) > 0 /\ deg[x] = 0}
           t == Pop(f, s)
           rest == Tail(s.queue)
           order == Append(s.order, id)
<1>0. t = [degree |-> deg, order |-> order, queue |-> rest \o Ascending(F)]
  BY DEF Pop
<1>1. /\ s.order \in Seq(Ids(f)) /\ s.queue \in Seq(Ids(f))
      /\ Once(s.order) /\ Once(s.queue) /\ O \cap ToSet(s.queue) = {}
      /\ \A x \in Ids(f) : s.degree[x] = Left(f, x, O)
      /\ \A x \in Ids(f) : x \in O \cup ToSet(s.queue) <=> Deps(f, x) \subseteq O
      /\ \A i \in 1 .. Len(s.order) :
            Deps(f, s.order[i]) \subseteq {s.order[j] : j \in 1 .. i - 1}
  BY DEF KahnInv
<1>2. /\ id \in Ids(f) /\ rest \in Seq(Ids(f)) /\ Once(rest)
      /\ ToSet(s.queue) = {id} \cup ToSet(rest) /\ id \notin ToSet(rest)
  BY <1>1, HeadOnce
<1>3. id \notin O
  BY <1>1, <1>2
<1>4. order \in Seq(Ids(f)) /\ Once(order) /\ ToSet(order) = O \cup {id}
  BY <1>1, <1>2, <1>3, AppendOnce
<1>5. /\ Len(order) = Len(s.order) + 1 /\ order[Len(s.order) + 1] = id
      /\ Len(s.order) \in Nat
      /\ \A i \in 1 .. Len(s.order) : order[i] = s.order[i]
  BY <1>1, <1>2, AppendProperties, LenProperties
<1>6. \A x \in Ids(f) : /\ deg[x] = Left(f, x, O \cup {id})
                        /\ Times(f, x, id) > 0 <=> id \in Deps(f, x)
  <2> TAKE x \in Ids(f)
  <2>1. s.degree[x] = Left(f, x, O)
    BY <1>1
  <2>2. deg[x] = s.degree[x] - Times(f, x, id)
    OBVIOUS
  <2> HIDE DEF deg, id, O
  <2>3. Left(f, x, O \cup {id}) = Left(f, x, O) - Times(f, x, id)
    BY <1>3, LeftNext
  <2>4. Times(f, x, id) > 0 <=> id \in Deps(f, x)
    BY <1>3, LeftNext
  <2> QED BY <2>1, <2>2, <2>3, <2>4
<1>7. \A x \in Ids(f) : x \in F <=> id \in Deps(f, x) /\ Deps(f, x) \subseteq O \cup {id}
  <2> TAKE x \in Ids(f)
  <2>1. x \in F <=> Times(f, x, id) > 0 /\ deg[x] = 0
    OBVIOUS
  <2> HIDE DEF F, deg, id, O
  <2>2. Left(f, x, O \cup {id}) = 0 <=> Deps(f, x) \subseteq O \cup {id}
    BY LeftIs
  <2> QED BY <1>6, <2>1, <2>2
<1>8. F \in SUBSET Ids(f)
  OBVIOUS
<1> HIDE DEF id, O, deg, F, t, rest, order
<1>9. Ascending(F) \in Seq(Ids(f)) /\ Once(Ascending(F)) /\ ToSet(Ascending(F)) = F
  BY <1>8, AscendingOnce
<1>10. F \cap (O \cup ToSet(s.queue)) = {}
  <2> SUFFICES ASSUME NEW x \in F, x \in O \cup ToSet(s.queue) PROVE FALSE
    OBVIOUS
  <2>1. x \in Ids(f) /\ id \in Deps(f, x) /\ Deps(f, x) \subseteq O
    BY <1>1, <1>7, <1>8
  <2> QED BY <1>3, <2>1
<1> DEFINE queue == rest \o Ascending(F)
<1>11. queue \in Seq(Ids(f)) /\ Once(queue) /\ ToSet(queue) = ToSet(rest) \cup F
  <2>1. ToSet(rest) \cap ToSet(Ascending(F)) = {}
    BY <1>2, <1>9, <1>10
  <2>2. /\ rest \o Ascending(F) \in Seq(Ids(f)) /\ Once(rest \o Ascending(F))
        /\ ToSet(rest \o Ascending(F)) = ToSet(rest) \cup ToSet(Ascending(F))
    BY <1>2, <1>9, <2>1, ConcatOnce
  <2> QED BY <1>9, <2>2
<1>12. t.order = order /\ t.queue = queue /\ t.degree = deg
  BY <1>0
<1> HIDE DEF queue
<1>13. ToSet(order) \cap ToSet(queue) = {}
  BY <1>1, <1>2, <1>4, <1>10, <1>11
<1>14. ASSUME NEW x \in Ids(f)
       PROVE  x \in ToSet(order) \cup ToSet(queue) <=> Deps(f, x) \subseteq ToSet(order)
  <2>1. x \in ToSet(order) \cup ToSet(queue) <=> x \in O \cup ToSet(s.queue) \/ x \in F
    BY <1>2, <1>4, <1>11
  <2>2. x \in O \cup ToSet(s.queue) <=> Deps(f, x) \subseteq O
    BY <1>1
  <2> QED BY <1>4, <1>7, <2>1, <2>2
<1>15. ASSUME NEW i \in 1 .. Len(order)
       PROVE  Deps(f, order[i]) \subseteq {order[j] : j \in 1 .. i - 1}
  <2>1. CASE i = Len(s.order) + 1
    <3>1. Deps(f, id) \subseteq O
      BY <1>1, <1>2
    <3>2. DOMAIN s.order = 1 .. Len(s.order)
      BY <1>1, LenProperties
    <3>3. i - 1 = Len(s.order)
      BY <1>5, <2>1
    <3>4. O = {order[j] : j \in 1 .. i - 1}
      BY <1>5, <3>2, <3>3 DEF O, ToSet
    <3> QED BY <1>5, <2>1, <3>1, <3>4
  <2>2. CASE i # Len(s.order) + 1
    <3>1. i \in 1 .. Len(s.order) /\ \A j \in 1 .. i - 1 : j \in 1 .. Len(s.order)
      BY <1>5, <2>2
    <3>2. order[i] = s.order[i] /\ \A j \in 1 .. i - 1 : order[j] = s.order[j]
      BY <1>5, <3>1
    <3>3. Deps(f, s.order[i]) \subseteq {s.order[j] : j \in 1 .. i - 1}
      BY <1>1, <3>1
    <3>4. {s.order[j] : j \in 1 .. i - 1} = {order[j] : j \in 1 .. i - 1}
      BY <3>1, <3>2
    <3> QED BY <3>2, <3>3, <3>4
  <2> QED BY <2>1, <2>2
<1>16. deg = [x \in Ids(f) |-> Left(f, x, ToSet(order))]
  <2>1. deg = [x \in Ids(f) |-> deg[x]]
    BY DEF deg
  <2> QED BY <1>4, <1>6, <2>1
<1>17. KahnInv(f, t)
  <2>1. /\ t.order \in Seq(Ids(f)) /\ t.queue \in Seq(Ids(f))
        /\ Once(t.order) /\ Once(t.queue) /\ ToSet(t.order) \cap ToSet(t.queue) = {}
    BY <1>4, <1>11, <1>12, <1>13
  <2>2. t.degree = [x \in Ids(f) |-> Left(f, x, ToSet(t.order))]
    BY <1>12, <1>16
  <2>3. \A x \in Ids(f) :
          x \in ToSet(t.order) \cup ToSet(t.queue) <=> Deps(f, x) \subseteq ToSet(t.order)
    BY <1>12, <1>14
  <2>4. \A i \in 1 .. Len(t.order) :
          Deps(f, t.order[i]) \subseteq {t.order[j] : j \in 1 .. i - 1}
    BY <1>12, <1>15
  <2> QED BY <2>1, <2>2, <2>3, <2>4 DEF KahnInv
<1> QED BY <1>5, <1>12, <1>17 DEF t
(* The states of the queue after 0, 1, ... n pops.                          *)
Popped(g, f, n) ==
  g = [i \in 0 .. n |->
         IF i = 0 THEN Start(f)
         ELSE IF g[i - 1].queue = <<>> THEN g[i - 1] ELSE Pop(f, g[i - 1])]

LEMMA PopsExist ==
  ASSUME NEW f, NEW n \in Nat
  PROVE  \E g : Popped(g, f, n)
<1> DEFINE T == {k \in Nat : ~ \E g : Popped(g, f, k)}
<1> SUFFICES ASSUME T # {} PROVE FALSE
  OBVIOUS
<1>1. PICK k \in T : \A m \in T : k <= m
  <2>1. T \subseteq Nat
    OBVIOUS
  <2> HIDE DEF T
  <2> QED BY <2>1, Least
<1>2. k \in Nat /\ ~ \E g : Popped(g, f, k)
  BY <1>1
<1>3. CASE k = 0
  <2> DEFINE g == [i \in 0 .. 0 |-> Start(f)]
  <2>1. Popped(g, f, 0)
    BY DEF Popped
  <2> QED BY <1>2, <1>3, <2>1
<1>4. CASE k # 0
  <2>1. k - 1 \in Nat /\ k - 1 \notin T
    BY <1>1, <1>2, <1>4
  <2>2. PICK g : Popped(g, f, k - 1)
    BY <2>1
  <2> DEFINE Following(h, i) ==
               IF i = 0 THEN Start(f)
               ELSE IF h[i - 1].queue = <<>> THEN h[i - 1] ELSE Pop(f, h[i - 1])
             e == [i \in 0 .. k |-> Following(g, i)]
  <2>3. g = [i \in 0 .. k - 1 |-> Following(g, i)]
    BY <2>2 DEF Popped
  <2>4. \A i \in 0 .. k - 1 : e[i] = g[i]
    <3> TAKE i \in 0 .. k - 1
    <3>1. i \in 0 .. k
      BY <1>2
    <3> HIDE DEF Following
    <3> QED BY <2>3, <3>1
  <2>5. \A i \in 0 .. k : Following(e, i) = Following(g, i)
    <3> HIDE DEF e
    <3> TAKE i \in 0 .. k
    <3>1. i # 0 => i - 1 \in 0 .. k - 1
      BY <1>2
    <3> QED BY <2>4, <3>1
  <2>6. e = [i \in 0 .. k |-> Following(e, i)]
    <3>1. e = [i \in 0 .. k |-> Following(g, i)]
      OBVIOUS
    <3> HIDE DEF e, Following
    <3> QED BY <2>5, <3>1
  <2>7. Popped(e, f, k)
    <3> HIDE DEF e
    <3> QED BY <2>6 DEF Popped
  <2> QED BY <1>2, <2>7
<1> QED BY <1>3, <1>4

(* As many steps as the flow has, none of them twice, are all of them.      *)
LEMMA AllOrdered ==
  ASSUME NEW f, IsFlow(f), NEW q \in Seq(Ids(f)), Once(q)
  PROVE  ToSet(q) = Ids(f) <=> Len(q) = Len(f)
<1>1. /\ Len(f) \in Nat /\ IsFiniteSet(Ids(f)) /\ Cardinality(Ids(f)) = Len(f)
  BY FlowIs
<1> DEFINE n == Len(q)
<1>2. n \in Nat /\ DOMAIN q = 1 .. n /\ \A i \in 1 .. n : q[i] \in Ids(f)
  BY LenProperties, ElementOfSeq
<1>3. IsFiniteSet(1 .. n) /\ Cardinality(1 .. n) = n
  <2> HIDE DEF n
  <2>1. Cardinality(1 .. n) = IF 1 > n THEN 0 ELSE n - 1 + 1
    BY <1>2, FS_Interval
  <2> QED BY <1>2, <2>1, FS_Interval
<1>4. q \in [1 .. n -> Ids(f)]
  BY <1>2, LenProperties
<1>5. \A i, j \in 1 .. n : q[i] = q[j] => i = j
  BY DEF Once
<1> HIDE DEF n
<1>6. q \in Injection(1 .. n, Ids(f))
  BY <1>4, <1>5 DEF Injection, IsInjective
<1>7. q \in Surjection(1 .. n, Ids(f)) <=> Cardinality(1 .. n) = Cardinality(Ids(f))
  BY <1>1, <1>3, <1>6, FS_Injection, FS_Surjection
<1>8. q \in Surjection(1 .. n, Ids(f)) <=> ToSet(q) = Ids(f)
  <2>1. q \in Surjection(1 .. n, Ids(f)) <=> \A x \in Ids(f) : \E i \in 1 .. n : q[i] = x
    BY <1>4 DEF Surjection
  <2> QED BY <1>2, <2>1 DEF ToSet
<1> QED BY <1>1, <1>3, <1>7, <1>8 DEF n

(* When Kahn stops, nothing is queued: a step would be left over otherwise. *)
LEMMA KahnEnds ==
  ASSUME NEW f, IsFlow(f)
  PROVE  \E s : /\ KahnInv(f, s) /\ s.queue = <<>> /\ s.order = Kahn(f)
<1> DEFINE n == Len(f)
           Following(h, i) ==
             IF i = 0 THEN Start(f)
             ELSE LET s == h[i - 1] IN IF s.queue = <<>> THEN s ELSE Pop(f, s)
           g == CHOOSE h : h = [i \in 0 .. n |-> Following(h, i)]
<1>1. n \in Nat /\ IsFiniteSet(Ids(f)) /\ Cardinality(Ids(f)) = n
  BY FlowIs
<1>2. Kahn(f) = g[n].order
  BY DEF Kahn
<1>3. \E h : h = [i \in 0 .. n |-> Following(h, i)]
  BY SMTT(30), <1>1, PopsExist DEF Popped
<1>4. g = [i \in 0 .. n |-> Following(g, i)]
  BY Zenon, <1>3
<1> HIDE DEF g
<1>5. g[0] = Start(f)
  BY <1>1, <1>4
<1>6. \A i \in 1 .. n : g[i] = IF g[i - 1].queue = <<>> THEN g[i - 1] ELSE Pop(f, g[i - 1])
  <2> HIDE DEF n
  <2> TAKE i \in 1 .. n
  <2>1. i \in 0 .. n /\ i # 0
    BY <1>1
  <2>2. g[i] = Following(g, i)
    <3> HIDE DEF Following
    <3> QED BY <1>4, <2>1
  <2> QED BY <2>1, <2>2
<1> HIDE DEF n
<1> DEFINE Ok(i) == KahnInv(f, g[i]) /\ (g[i].queue = <<>> \/ Len(g[i].order) = i)
           T == {i \in 0 .. n : ~ Ok(i)}
<1>7. ASSUME T # {} PROVE FALSE
  <2>1. PICK k \in T : \A m \in T : k <= m
    <3>1. T \subseteq Nat
      BY <1>1
    <3> HIDE DEF T
    <3> QED BY <1>7, <3>1, Least
  <2>2. k \in 0 .. n /\ k \in Nat /\ ~ Ok(k)
    BY <1>1, <2>1
  <2>3. k # 0
    <3>1. KahnInv(f, Start(f)) /\ Len(Start(f).order) = 0
      BY StartKahn
    <3> QED BY <1>5, <2>2, <3>1
  <2>4. k - 1 \in 0 .. n /\ k - 1 \notin T /\ k \in 1 .. n
    BY <1>1, <2>1, <2>2, <2>3
  <2> DEFINE s == g[k - 1]
  <2>5. KahnInv(f, s) /\ (s.queue = <<>> \/ Len(s.order) = k - 1)
    BY <2>4
  <2>6. g[k] = IF s.queue = <<>> THEN s ELSE Pop(f, s)
    BY <1>6, <2>4
  <2> HIDE DEF s
  <2>7. CASE s.queue = <<>>
    BY <2>2, <2>5, <2>6, <2>7
  <2>8. CASE s.queue # <<>>
    <3>1. KahnInv(f, Pop(f, s)) /\ Len(Pop(f, s).order) = Len(s.order) + 1
      BY <2>5, <2>8, PopKahn
    <3>2. Len(s.order) + 1 = k
      BY <2>2, <2>5, <2>8
    <3> QED BY <2>2, <2>6, <2>8, <3>1, <3>2
  <2> QED BY <2>7, <2>8
<1>8. Ok(n)
  BY <1>1, <1>7
<1> DEFINE s == g[n]
<1>9. KahnInv(f, s) /\ (s.queue = <<>> \/ Len(s.order) = n)
  BY <1>8
<1> HIDE DEF s
<1>10. ASSUME s.queue # <<>> PROVE FALSE
  <2>1. /\ s.order \in Seq(Ids(f)) /\ s.queue \in Seq(Ids(f)) /\ Once(s.order)
        /\ Once(s.queue) /\ ToSet(s.order) \cap ToSet(s.queue) = {} /\ Len(s.order) = n
    BY <1>9, <1>10 DEF KahnInv
  <2>2. ToSet(s.order) = Ids(f)
    BY <1>1, <2>1, AllOrdered DEF n
  <2>3. Head(s.queue) \in Ids(f) /\ Head(s.queue) \in ToSet(s.queue)
    BY <1>10, <2>1, HeadOnce
  <2> QED BY <2>1, <2>2, <2>3
<1> QED BY <1>2, <1>9, <1>10 DEF s

----------------------------------------------------------------------------
(***************************************************************************)
(* validate_dag accepts a flow exactly if every reference names a step and  *)
(* no steps wait for one another, and the order it returns has every step   *)
(* once, after all that it needs and reads.                                *)
(***************************************************************************)
THEOREM AcceptsRightly ==
  ASSUME NEW f, IsFlow(f)
  PROVE  AcceptedRight(f, ValidateDag(f))
<1> DEFINE O == ToSet(Kahn(f))
<1>1. PICK s : KahnInv(f, s) /\ s.queue = <<>> /\ s.order = Kahn(f)
  BY KahnEnds
<1>2. ToSet(s.queue) = {}
  BY <1>1, EmptySeq DEF ToSet
<1>3. /\ Kahn(f) \in Seq(Ids(f)) /\ Once(Kahn(f)) /\ Len(Kahn(f)) \in Nat
      /\ DOMAIN Kahn(f) = 1 .. Len(Kahn(f))
  BY <1>1, LenProperties DEF KahnInv
<1>4. \A x \in Ids(f) : x \in O <=> Deps(f, x) \subseteq O
  BY <1>1, <1>2 DEF KahnInv
<1>5. \A i \in 1 .. Len(Kahn(f)) : Deps(f, Kahn(f)[i]) \subseteq {Kahn(f)[j] : j \in 1 .. i - 1}
  <2> DEFINE q == s.order
  <2>1. \A i \in 1 .. Len(q) : Deps(f, q[i]) \subseteq {q[j] : j \in 1 .. i - 1}
    BY <1>1 DEF KahnInv
  <2>2. q = Kahn(f)
    BY <1>1
  <2> HIDE DEF q
  <2> QED BY <2>1, <2>2
<1>6. ValidateDag(f).ok <=> UnknownSteps(f) = {} /\ Len(Kahn(f)) = Len(f)
  BY DEF ValidateDag
<1>7. ValidateDag(f).ok => ValidateDag(f).order = Kahn(f)
  BY DEF ValidateDag
<1>8. ASSUME UnknownSteps(f) = {}, Len(Kahn(f)) # Len(f) PROVE Knotted(f)
  <2> DEFINE X == Ids(f) \ O
  <2>1. X # {}
    <3>1. O \subseteq Ids(f)
      BY <1>3, ElementOfSeq DEF ToSet
    <3> SUFFICES ASSUME O = Ids(f) PROVE FALSE
      BY <3>1
    <3> QED BY <1>3, <1>8, AllOrdered
  <2>2. \A x \in X : Deps(f, x) \cap X # {}
    <3> TAKE x \in X
    <3>1. x \in Ids(f) /\ ~ (Deps(f, x) \subseteq O)
      BY <1>4
    <3>2. Deps(f, x) \subseteq Ids(f)
      BY <1>8, <3>1, DepsAre
    <3> QED BY <3>1, <3>2
  <2>3. X \in SUBSET Ids(f)
    OBVIOUS
  <2> HIDE DEF X
  <2> QED BY <2>1, <2>2, <2>3 DEF Knotted
<1>9. ASSUME ValidateDag(f).ok PROVE ~Knotted(f) /\ InOrder(f, Kahn(f))
  <2>1. UnknownSteps(f) = {} /\ Len(Kahn(f)) = Len(f)
    BY <1>6, <1>9
  <2>2. O = Ids(f)
    BY <1>3, <2>1, AllOrdered
  <2>3. ASSUME NEW X \in SUBSET Ids(f), X # {}, \A x \in X : Deps(f, x) \cap X # {}
        PROVE  FALSE
    <3> DEFINE T == {i \in 1 .. Len(Kahn(f)) : Kahn(f)[i] \in X}
    <3>1. T # {} /\ T \subseteq Nat
      BY <1>3, <2>2, <2>3 DEF ToSet
    <3>2. PICK k \in T : \A m \in T : k <= m
      <4> HIDE DEF T
      <4> QED BY <3>1, Least
    <3>3. k \in 1 .. Len(Kahn(f)) /\ Kahn(f)[k] \in X /\ k \in Nat
      BY <1>3, <3>2
    <3>4. PICK x \in X : x \in Deps(f, Kahn(f)[k])
      BY <2>3, <3>3
    <3>5. PICK j \in 1 .. k - 1 : Kahn(f)[j] = x
      BY <1>5, <3>3, <3>4
    <3>6. j \in Nat /\ j < k /\ j \in 1 .. Len(Kahn(f))
      BY <1>3, <3>3
    <3>7. j \in T
      BY <3>5, <3>6
    <3> QED BY <3>2, <3>3, <3>6, <3>7
  <2>4. \A i \in 1 .. Len(Kahn(f)) :
          Deps(f, Kahn(f)[i]) \cup ToSet(StepOf(f, Kahn(f)[i]).input)
              \subseteq {Kahn(f)[j] : j \in 1 .. i - 1}
    <3> TAKE i \in 1 .. Len(Kahn(f))
    <3>1. Kahn(f)[i] \in Ids(f)
      BY <1>3, ElementOfSeq
    <3>2. ToSet(StepOf(f, Kahn(f)[i]).input) \subseteq Deps(f, Kahn(f)[i])
      BY <3>1, DepsAre
    <3> QED BY <1>5, <3>2
  <2>5. \A i, j \in DOMAIN Kahn(f) : Kahn(f)[i] = Kahn(f)[j] => i = j
    BY <1>3 DEF Once
  <2>6. ~Knotted(f)
    BY <2>3 DEF Knotted
  <2> QED BY <1>3, <2>2, <2>4, <2>5, <2>6 DEF InOrder
<1> QED BY <1>6, <1>7, <1>8, <1>9 DEF AcceptedRight

----------------------------------------------------------------------------
(* The search for a cycle.  What it has left, it has followed to the end.   *)

States(f) ==
    [root : 1 .. Len(f) + 1, path : Seq(Ids(f)), next : [Ids(f) -> Nat \ {0}],
     visited : SUBSET Ids(f), cycle : Seq(Ids(f))]

Ways(f, x) == Needs(StepOf(f, x))

Finished(s) == s.visited \ ToSet(s.path)

(* Its stack is a way along the dependencies.                              *)
Stacked(f, s) ==
    /\ ToSet(s.path) \subseteq s.visited /\ Once(s.path)
    /\ \A i \in 1 .. Len(s.path) - 1 : s.path[i + 1] \in Deps(f, s.path[i])

(* What a step on the stack has looked at is finished or above it.          *)
Looked(f, s) ==
    \A i \in 1 .. Len(s.path) : \A k \in 1 .. Len(Ways(f, s.path[i])) :
        k < s.next[s.path[i]] =>
            Ways(f, s.path[i])[k] \in Finished(s) \cup {s.path[j] : j \in i + 1 .. Len(s.path)}

(* No step that is finished waits for one that is not, and none of them     *)
(* wait for one another.                                                   *)
Settled(f, F) ==
    /\ \A x \in F : Deps(f, x) \subseteq F
    /\ \A X \in SUBSET F : X # {} => \E x \in X : Deps(f, x) \cap X = {}

Scanned(f, s) == {e \in Listed(f) : e[2] < s.next[e[1]]}

SearchInv(f, s) ==
    /\ s \in States(f) /\ s.cycle = <<>>
    /\ Stacked(f, s) /\ Looked(f, s) /\ Settled(f, Finished(s))
    /\ \A x \in Ids(f) \ s.visited : s.next[x] = 1
    /\ \A i \in 1 .. s.root - 1 : f[i].id \in s.visited

Work(f, s) ==
    (s.root - 1) + Cardinality(s.visited) + Cardinality(Finished(s)) + Cardinality(Scanned(f, s))

Over(f, s) == s.root > Len(f) /\ s.path = <<>>

FirstState(f) ==
    [root |-> 1, path |-> <<>>, next |-> [id \in Ids(f) |-> 1], visited |-> {}, cycle |-> <<>>]

LEMMA WaysAre ==
  ASSUME NEW f, IsFlow(f), NEW x \in Ids(f)
  PROVE  /\ Ways(f, x) \in Seq(Nat) /\ Len(Ways(f, x)) \in Nat
         /\ Deps(f, x) = {Ways(f, x)[k] : k \in 1 .. Len(Ways(f, x))}
         /\ UnknownSteps(f) = {} => \A k \in 1 .. Len(Ways(f, x)) : Ways(f, x)[k] \in Ids(f)
<1>1. Ways(f, x) \in Seq(Nat)
  BY DepsAre DEF Ways
<1>2. DOMAIN Ways(f, x) = 1 .. Len(Ways(f, x)) /\ Len(Ways(f, x)) \in Nat
  BY <1>1, LenProperties
<1>3. Deps(f, x) = {Ways(f, x)[k] : k \in 1 .. Len(Ways(f, x))}
  BY <1>2 DEF Deps, ToSet, Ways
<1>4. UnknownSteps(f) = {} => Deps(f, x) \subseteq Ids(f)
  BY DepsAre
<1> QED BY <1>1, <1>2, <1>3, <1>4

(* The work that can be done is bounded. *)
LEMMA WorkIs ==
  ASSUME NEW f, IsFlow(f), NEW s \in States(f)
  PROVE  /\ IsFiniteSet(Listed(f)) /\ Cardinality(Listed(f)) \in Nat
         /\ IsFiniteSet(s.visited) /\ Cardinality(s.visited) \in Nat
         /\ IsFiniteSet(Finished(s)) /\ Cardinality(Finished(s)) \in Nat
         /\ IsFiniteSet(Scanned(f, s)) /\ Cardinality(Scanned(f, s)) \in Nat
         /\ Cardinality(s.visited) <= Len(f) /\ Cardinality(Finished(s)) <= Len(f)
         /\ Cardinality(Finished(s)) = Len(f) => Finished(s) = Ids(f)
         /\ Cardinality(Scanned(f, s)) <= Cardinality(Listed(f))
<1>1. /\ IsFiniteSet(Ids(f)) /\ Cardinality(Ids(f)) = Len(f) /\ Len(f) \in Nat
  BY FlowIs
<1>2. IsFiniteSet(Listed(f))
  <2> DEFINE B == {{id} \X (1 .. Len(Needs(StepOf(f, id)))) : id \in Ids(f)}
             g == [id \in Ids(f) |-> {id} \X (1 .. Len(Needs(StepOf(f, id))))]
  <2>1. IsFiniteSet(B)
    <3>1. g \in [Ids(f) -> B] /\ \A b \in B : \E id \in Ids(f) : g[id] = b
      OBVIOUS
    <3> HIDE DEF g, B
    <3>2. g \in Surjection(Ids(f), B)
      BY <3>1 DEF Surjection
    <3> QED BY <1>1, <3>2, FS_Surjection
  <2>2. ASSUME NEW id \in Ids(f)
        PROVE  IsFiniteSet({id} \X (1 .. Len(Needs(StepOf(f, id)))))
    <3> HIDE DEF g
    <3> DEFINE m == Len(Needs(StepOf(f, id)))
    <3>1. m \in Nat
      <4>1. Len(Ways(f, id)) \in Nat
        BY WaysAre
      <4> QED BY <4>1 DEF Ways
    <3> HIDE DEF m
    <3>2. IsFiniteSet({id})
      BY FS_Singleton
    <3>4. IsFiniteSet(1 .. m)
      BY <3>1, FS_Interval
    <3>3. IsFiniteSet({id} \X (1 .. m))
      BY <3>2, <3>4, FS_Product
    <3> QED BY <3>3 DEF m
  <2>3. \A b \in B : IsFiniteSet(b)
    BY <2>2
  <2> HIDE DEF B
  <2>4. IsFiniteSet(UNION B)
    BY <2>1, <2>3, FS_UNION
  <2> QED BY <2>4 DEF Listed, B
<1>3. s.visited \in SUBSET Ids(f)
  BY DEF States
<1>4. Finished(s) \in SUBSET Ids(f)
  BY <1>3 DEF Finished
<1>5. Scanned(f, s) \in SUBSET Listed(f)
  BY DEF Scanned
<1>6. IsFiniteSet(s.visited) /\ Cardinality(s.visited) <= Len(f)
  BY <1>1, <1>3, FS_Subset
<1>7. /\ IsFiniteSet(Finished(s)) /\ Cardinality(Finished(s)) <= Len(f)
      /\ Cardinality(Finished(s)) = Len(f) => Finished(s) = Ids(f)
  BY <1>1, <1>4, FS_Subset
<1>8. IsFiniteSet(Scanned(f, s)) /\ Cardinality(Scanned(f, s)) <= Cardinality(Listed(f))
  BY <1>2, <1>5, FS_Subset
<1> QED BY <1>2, <1>6, <1>7, <1>8, FS_CardinalityType

LEMMA FrontOnce ==
  ASSUME NEW S, NEW p \in Seq(S), p # <<>>, Once(p)
  PROVE  /\ Front(p) \in Seq(S) /\ Once(Front(p)) /\ Len(p) \in Nat \ {0}
         /\ Len(Front(p)) = Len(p) - 1 /\ \A i \in 1 .. Len(p) - 1 : Front(p)[i] = p[i]
         /\ Last(p) \in S /\ Last(p) = p[Len(p)]
         /\ ToSet(p) = {p[i] : i \in 1 .. Len(p)}
         /\ ToSet(Front(p)) = ToSet(p) \ {Last(p)} /\ Last(p) \in ToSet(p)
<1> DEFINE n == Len(p)
           q == Front(p)
<1>1. /\ n \in Nat \ {0} /\ (\A i \in 1 .. n : p[i] \in S) /\ ToSet(p) = {p[i] : i \in 1 .. n}
  BY EmptySeq, ElementOfSeq, ElementsOf
<1>2. q = SubSeq(p, 1, n - 1)
  BY DEF Front
<1>3. /\ q \in Seq(S) /\ Len(q) = n - 1 /\ \A i \in 1 .. n - 1 : q[i] = p[i]
  <2> HIDE DEF n, q
  <2>1. 1 \in Int /\ n - 1 \in Int /\ \A i \in 1 .. n - 1 : p[i] \in S
    BY <1>1
  <2>2. /\ SubSeq(p, 1, n - 1) \in Seq(S)
        /\ Len(SubSeq(p, 1, n - 1)) = IF 1 <= n - 1 THEN n - 1 - 1 + 1 ELSE 0
        /\ \A i \in 1 .. n - 1 - 1 + 1 : SubSeq(p, 1, n - 1)[i] = p[1 + i - 1]
    BY <2>1, SubSeqProperties
  <2>3. Len(q) = n - 1
    BY <1>1, <1>2, <2>2
  <2>4. \A i \in 1 .. n - 1 : 1 + i - 1 = i /\ i \in 1 .. n - 1 - 1 + 1
    BY <1>1
  <2> QED BY <1>2, <2>2, <2>3, <2>4
<1>4. \A i, j \in 1 .. n : p[i] = p[j] => i = j
  BY DEF Once
<1>5. Last(p) = p[n]
  BY DEF Last
<1> HIDE DEF n, q
<1>6. Once(q)
  <2>1. \A i \in 1 .. n - 1 : i \in 1 .. n
    BY <1>1
  <2> QED BY <1>3, <1>4, <2>1 DEF Once
<1>7. n \in 1 .. n /\ \A i \in 1 .. n : (i \in 1 .. n - 1 /\ i # n) \/ (i = n /\ i \notin 1 .. n - 1)
  BY <1>1
<1>8. ToSet(q) = {q[i] : i \in 1 .. n - 1}
  BY <1>3, ElementsOf
<1>9. ToSet(q) = ToSet(p) \ {p[n]}
  <2>1. ASSUME NEW i \in 1 .. n - 1 PROVE q[i] \in ToSet(p) /\ q[i] # p[n]
    <3>1. i \in 1 .. n /\ i # n
      BY <1>1
    <3> QED BY <1>1, <1>3, <1>4, <1>7, <3>1
  <2>2. ASSUME NEW i \in 1 .. n, p[i] # p[n] PROVE p[i] \in ToSet(q)
    <3>1. i \in 1 .. n - 1
      BY <1>7, <2>2
    <3> QED BY <1>3, <1>8, <3>1
  <2> QED BY <1>1, <1>8, <2>1, <2>2
<1> QED BY <1>1, <1>3, <1>5, <1>6, <1>7, <1>9 DEF n, q

(* The step of the outer loop was entered already. *)
LEMMA SearchOn ==
  ASSUME NEW f, IsFlow(f), NEW s, SearchInv(f, s),
         s.path = <<>>, ~ (s.root > Len(f)), f[s.root].id \in s.visited,
         NEW t \in States(f), t.root = s.root + 1, t.path = s.path, t.next = s.next,
         t.visited = s.visited, t.cycle = s.cycle
  PROVE  SearchInv(f, t) /\ Work(f, t) = Work(f, s) + 1
<1>1. s \in States(f) /\ Len(f) \in Nat
  BY FlowIs DEF SearchInv
<1>2. s.root \in Nat /\ s.root + 1 \in 1 .. Len(f) + 1
  BY <1>1 DEF States
<1>3. /\ t \in States(f) /\ t.root = s.root + 1 /\ t.path = s.path /\ t.next = s.next
      /\ t.visited = s.visited /\ t.cycle = s.cycle
  OBVIOUS
<1>4. Finished(t) = Finished(s) /\ Scanned(f, t) = Scanned(f, s)
  BY <1>3 DEF Finished, Scanned
<1>5. \A i \in 1 .. t.root - 1 : f[i].id \in t.visited
  <2>1. \A i \in 1 .. s.root - 1 : f[i].id \in s.visited
    BY DEF SearchInv
  <2>2. \A i \in 1 .. t.root - 1 : i \in 1 .. s.root - 1 \/ i = s.root
    BY <1>2, <1>3
  <2> QED BY <1>3, <2>1, <2>2
<1>6. SearchInv(f, t)
  <2>1. Stacked(f, t) /\ Looked(f, t)
    BY <1>3, <1>4 DEF SearchInv, Stacked, Looked
  <2> QED BY <1>3, <1>4, <1>5, <2>1 DEF SearchInv
<1>7. Work(f, t) = Work(f, s) + 1
  <2>1. /\ Cardinality(s.visited) \in Nat /\ Cardinality(Finished(s)) \in Nat
        /\ Cardinality(Scanned(f, s)) \in Nat
    BY <1>1, WorkIs
  <2> QED BY SMTT(30), <1>2, <1>3, <1>4, <2>1 DEF Work
<1> QED BY <1>6, <1>7

(* It is entered. *)
LEMMA SearchRoot ==
  ASSUME NEW f, IsFlow(f), NEW s, SearchInv(f, s),
         s.path = <<>>, ~ (s.root > Len(f)), NEW id, id = f[s.root].id, id \notin s.visited,
         NEW t \in States(f), t.root = s.root, t.path = <<id>>, t.next = s.next,
         t.visited = s.visited \cup {id}, t.cycle = s.cycle
  PROVE  SearchInv(f, t) /\ Work(f, t) = Work(f, s) + 1
<1>1. s \in States(f) /\ Len(f) \in Nat /\ DOMAIN f = 1 .. Len(f)
  BY FlowIs DEF SearchInv
<1>2. s.root \in 1 .. Len(f)
  BY <1>1 DEF States
<1>3. id \in Ids(f)
  BY <1>1, <1>2 DEF Ids
<1> DEFINE p == <<id>>
<1>4. p \in Seq(Ids(f)) /\ Len(p) = 1 /\ p[1] = id
  BY <1>3, Singleton
<1>6. /\ t \in States(f) /\ t.root = s.root /\ t.path = p /\ t.next = s.next
      /\ t.visited = s.visited \cup {id} /\ t.cycle = s.cycle
  OBVIOUS
<1> HIDE DEF p
<1>7. ToSet(p) = {id} /\ ToSet(s.path) = {}
  <2>1. ToSet(p) = {p[i] : i \in 1 .. 1}
    <3>1. ToSet(p) = {p[i] : i \in 1 .. Len(p)}
      BY <1>4, LenProperties DEF ToSet
    <3> QED BY <1>4, <3>1
  <2>3. ToSet(s.path) = {}
    <3>1. ToSet(<<>>) = {}
      BY EmptySeq DEF ToSet
    <3> QED BY <3>1
  <2> QED BY <1>4, <2>1, <2>3
<1>8. Finished(t) = Finished(s) /\ Finished(s) = s.visited /\ Scanned(f, t) = Scanned(f, s)
  BY <1>6, <1>7 DEF Finished, Scanned
<1>9. Stacked(f, t)
  BY <1>4, <1>6, <1>7 DEF Stacked, Once
<1>10. Looked(f, t)
  <2>1. s.next[id] = 1
    BY <1>3 DEF SearchInv
  <2>2. \A k \in 1 .. Len(Ways(f, id)) : ~ (k < s.next[id])
    <3>1. Len(Ways(f, id)) \in Nat
      BY <1>3, WaysAre
    <3> QED BY <2>1, <3>1
  <2> QED BY <1>4, <1>6, <2>2 DEF Looked
<1>11. SearchInv(f, t)
  <2>1. \A x \in Ids(f) \ t.visited : t.next[x] = 1
    BY <1>6 DEF SearchInv
  <2>2. \A i \in 1 .. t.root - 1 : f[i].id \in t.visited
    BY <1>6 DEF SearchInv
  <2> QED BY <1>6, <1>8, <1>9, <1>10, <2>1, <2>2 DEF SearchInv
<1>12. Work(f, t) = Work(f, s) + 1
  <2>1. /\ Cardinality(s.visited) \in Nat /\ Cardinality(Finished(s)) \in Nat
        /\ Cardinality(Scanned(f, s)) \in Nat /\ IsFiniteSet(s.visited)
    BY <1>1, WorkIs
  <2>2. Cardinality(s.visited \cup {id}) = Cardinality(s.visited) + 1
    <3> DEFINE V == s.visited
    <3>1. IsFiniteSet(V) /\ id \notin V
      BY <2>1
    <3> HIDE DEF V
    <3>2. Cardinality(V \cup {id}) = Cardinality(V) + 1
      BY <3>1, FS_AddElement
    <3> QED BY <3>2 DEF V
  <2>3. s.root \in Nat
    BY <1>2
  <2> QED BY SMTT(30), <1>6, <1>8, <2>1, <2>2, <2>3 DEF Work
<1> QED BY <1>11, <1>12

(* What holds of the step on top of the stack. *)
LEMMA TopIs ==
  ASSUME NEW f, IsFlow(f), UnknownSteps(f) = {}, NEW s, SearchInv(f, s), s.path # <<>>
  PROVE  /\ s \in States(f) /\ Last(s.path) \in Ids(f) /\ Last(s.path) \in s.visited
         /\ Last(s.path) \in ToSet(s.path) /\ s.next[Last(s.path)] \in Nat \ {0}
         /\ Len(s.path) \in Nat \ {0} /\ Last(s.path) = s.path[Len(s.path)]
         /\ \A i \in 1 .. Len(s.path) : s.path[i] \in Ids(f)
         /\ \A k \in 1 .. Len(Ways(f, Last(s.path))) :
               k < s.next[Last(s.path)] => Ways(f, Last(s.path))[k] \in Finished(s)
<1>1. s \in States(f)
  BY DEF SearchInv
<1>2. s.path \in Seq(Ids(f)) /\ s.next \in [Ids(f) -> Nat \ {0}]
  BY <1>1 DEF States
<1>3. Once(s.path) /\ ToSet(s.path) \subseteq s.visited
  BY DEF SearchInv, Stacked
<1> DEFINE n == Len(s.path)
<1>4. /\ Last(s.path) \in Ids(f) /\ n \in Nat \ {0} /\ Last(s.path) = s.path[n]
      /\ Last(s.path) \in ToSet(s.path)
  BY <1>2, <1>3, FrontOnce
<1>5. ASSUME NEW k \in 1 .. Len(Ways(f, s.path[n])), k < s.next[s.path[n]]
      PROVE  Ways(f, s.path[n])[k] \in Finished(s)
  <2>1. n \in 1 .. n /\ \A j \in n + 1 .. n : FALSE
    <3> HIDE DEF n
    <3> QED BY <1>4
  <2>2. Ways(f, s.path[n])[k] \in Finished(s) \cup {s.path[j] : j \in n + 1 .. n}
    BY <1>5, <2>1 DEF SearchInv, Looked
  <2> HIDE DEF n
  <2> QED BY <2>1, <2>2
<1>6. \A i \in 1 .. n : s.path[i] \in Ids(f)
  BY <1>2, ElementOfSeq
<1> QED BY <1>1, <1>2, <1>3, <1>4, <1>5, <1>6

(* A step whose dependencies are all followed to the end is so itself. *)
LEMMA SettledMore ==
  ASSUME NEW f, NEW F, Settled(f, F), NEW x, x \notin F, Deps(f, x) \subseteq F
  PROVE  Settled(f, F \cup {x})
<1>1. \A y \in F \cup {x} : Deps(f, y) \subseteq F
  BY DEF Settled
<1>2. ASSUME NEW X \in SUBSET (F \cup {x}), X # {}
      PROVE  \E y \in X : Deps(f, y) \cap X = {}
  <2>1. CASE X \cap F = {}
    <3>1. X = {x}
      BY <1>2, <2>1
    <3> QED BY <3>1
  <2>2. CASE X \cap F # {}
    <3>1. X \cap F \in SUBSET F
      OBVIOUS
    <3>2. PICK y \in X \cap F : Deps(f, y) \cap (X \cap F) = {}
      BY <2>2, <3>1 DEF Settled
    <3>3. Deps(f, y) \subseteq F
      BY <1>1
    <3> QED BY <3>2, <3>3
  <2> QED BY <2>1, <2>2
<1> QED BY <1>1, <1>2 DEF Settled

(* The step on top is left when its list is at an end. *)
LEMMA SearchLeave ==
  ASSUME NEW f, IsFlow(f), UnknownSteps(f) = {}, NEW s, SearchInv(f, s),
         s.path # <<>>, NEW x, x = Last(s.path), s.next[x] > Len(Ways(f, x)),
         NEW t \in States(f), t.root = s.root, t.path = Front(s.path), t.next = s.next,
         t.visited = s.visited, t.cycle = s.cycle
  PROVE  SearchInv(f, t) /\ Work(f, t) = Work(f, s) + 1
<1> DEFINE p == s.path
           q == Front(p)
           n == Len(p)
<1>1. /\ s \in States(f) /\ x \in Ids(f) /\ x \in s.visited /\ x \in ToSet(p)
      /\ n \in Nat \ {0} /\ x = p[n] /\ s.next[x] \in Nat
      /\ \A k \in 1 .. Len(Ways(f, x)) : k < s.next[x] => Ways(f, x)[k] \in Finished(s)
  BY TopIs
<1>2. /\ p \in Seq(Ids(f)) /\ p # <<>> /\ Once(p) /\ ToSet(p) \subseteq s.visited
      /\ \A i \in 1 .. n - 1 : p[i + 1] \in Deps(f, p[i])
  BY <1>1 DEF SearchInv, Stacked, States
<1>3. t.path = q
  OBVIOUS
<1>4. /\ q \in Seq(Ids(f)) /\ Once(q) /\ Len(q) = n - 1 /\ ToSet(q) = ToSet(p) \ {x}
      /\ \A i \in 1 .. n - 1 : q[i] = p[i]
  <2> HIDE DEF p
  <2> QED BY <1>2, FrontOnce DEF p
<1>5. \A i \in 1 .. n - 1 : \A k \in 1 .. Len(Ways(f, p[i])) :
        k < s.next[p[i]] =>
            Ways(f, p[i])[k] \in Finished(s) \cup {p[j] : j \in i + 1 .. n}
  <2>1. \A i \in 1 .. n - 1 : i \in 1 .. n
    <3> HIDE DEF n
    <3> QED BY <1>1
  <2> QED BY <2>1 DEF SearchInv, Looked
<1>6. Finished(t) = Finished(s) \cup {x} /\ x \notin Finished(s) /\ Scanned(f, t) = Scanned(f, s)
  <2> HIDE DEF p, q
  <2>1. Finished(t) = s.visited \ ToSet(q) /\ Finished(s) = s.visited \ ToSet(p)
    BY <1>3 DEF Finished, p
  <2> QED BY <1>1, <1>4, <2>1 DEF Scanned
<1> HIDE DEF p, q, n
<1>7. Stacked(f, t)
  <2>1. \A i \in 1 .. n - 1 - 1 : i \in 1 .. n - 1 /\ i + 1 \in 1 .. n - 1
    BY <1>1
  <2>2. \A i \in 1 .. n - 1 - 1 : q[i + 1] \in Deps(f, q[i])
    BY <1>2, <1>4, <2>1
  <2> QED BY <1>2, <1>3, <1>4, <2>2 DEF Stacked
<1>8. Looked(f, t)
  <2>1. ASSUME NEW i \in 1 .. n - 1, NEW k \in 1 .. Len(Ways(f, p[i])), k < s.next[p[i]]
        PROVE  Ways(f, p[i])[k] \in Finished(t) \cup {q[j] : j \in i + 1 .. n - 1}
    <3>1. Ways(f, p[i])[k] \in Finished(s) \cup {p[j] : j \in i + 1 .. n}
      BY <1>5, <2>1
    <3>2. CASE Ways(f, p[i])[k] \in Finished(s)
      BY <1>6, <3>2
    <3>3. CASE Ways(f, p[i])[k] \in {p[j] : j \in i + 1 .. n}
      <4>1. PICK j \in i + 1 .. n : Ways(f, p[i])[k] = p[j]
        BY <3>3
      <4>2. j = n \/ (j \in i + 1 .. n - 1 /\ j \in 1 .. n - 1)
        BY <1>1
      <4>3. p[n] \in Finished(t)
        BY <1>1, <1>6
      <4> QED BY <1>4, <4>1, <4>2, <4>3
    <3> QED BY <3>1, <3>2, <3>3
  <2>2. \A i \in 1 .. n - 1 : q[i] = p[i]
    BY <1>4
  <2> QED BY <1>3, <1>4, <2>1, <2>2 DEF Looked
<1>9. Settled(f, Finished(t))
  <2>1. Len(Ways(f, x)) \in Nat /\ Deps(f, x) = {Ways(f, x)[k] : k \in 1 .. Len(Ways(f, x))}
    BY <1>1, WaysAre
  <2>2. \A k \in 1 .. Len(Ways(f, x)) : k < s.next[x]
    BY <1>1, <2>1
  <2>3. Deps(f, x) \subseteq Finished(s)
    BY <1>1, <2>1, <2>2
  <2>4. Settled(f, Finished(s))
    BY DEF SearchInv
  <2> QED BY <1>6, <2>3, <2>4, SettledMore
<1>10. SearchInv(f, t)
  BY <1>7, <1>8, <1>9 DEF SearchInv
<1>11. Work(f, t) = Work(f, s) + 1
  <2> DEFINE F == Finished(s)
  <2>1. /\ Cardinality(s.visited) \in Nat /\ Cardinality(F) \in Nat
        /\ Cardinality(Scanned(f, s)) \in Nat /\ IsFiniteSet(F)
    BY <1>1, WorkIs
  <2>2. x \notin F /\ Finished(t) = F \cup {x}
    BY <1>6
  <2> HIDE DEF F
  <2>3. Cardinality(F \cup {x}) = Cardinality(F) + 1
    BY <2>1, <2>2, FS_AddElement
  <2>4. s.root \in Nat
    BY <1>1, FlowIs DEF States
  <2>5. Cardinality(Finished(t)) = Cardinality(Finished(s)) + 1
    BY <2>2, <2>3 DEF F
  <2>6. t.root = s.root /\ t.visited = s.visited /\ Scanned(f, t) = Scanned(f, s)
    BY <1>6
  <2> DEFINE a == Cardinality(s.visited)
             b == Cardinality(Finished(s))
             c == Cardinality(Scanned(f, s))
             r == s.root
  <2>7. Work(f, s) = (r - 1) + a + b + c /\ Work(f, t) = (r - 1) + a + (b + 1) + c
    BY <2>5, <2>6 DEF Work
  <2>8. a \in Nat /\ b \in Nat /\ c \in Nat /\ r \in Nat
    BY <2>1, <2>4 DEF F
  <2> HIDE DEF a, b, c, r
  <2> QED BY <2>7, <2>8
<1> QED BY <1>10, <1>11

(* One entry more of a list is looked at. *)
LEMMA ScannedMore ==
  ASSUME NEW f, IsFlow(f), NEW s \in States(f), NEW t \in States(f), NEW x \in Ids(f),
         s.next[x] \in 1 .. Len(Ways(f, x)), t.next = [s.next EXCEPT ![x] = s.next[x] + 1]
  PROVE  Cardinality(Scanned(f, t)) = Cardinality(Scanned(f, s)) + 1
<1> DEFINE k == s.next[x]
           A == Scanned(f, s)
           e == <<x, k>>
<1>1. s.next \in [Ids(f) -> Nat \ {0}] /\ k \in Nat
  BY DEF States
<1>2. e \in Listed(f)
  BY DEF Listed, Ways
<1>3. \A y \in Ids(f) : t.next[y] = IF y = x THEN k + 1 ELSE s.next[y]
  BY <1>1
<1>4. \A w \in Listed(f) : w = <<w[1], w[2]>> /\ w[1] \in Ids(f) /\ w[2] \in Nat
  <2> SUFFICES ASSUME NEW w \in Listed(f) PROVE w = <<w[1], w[2]>> /\ w[1] \in Ids(f) /\ w[2] \in Nat
    OBVIOUS
  <2>1. PICK y \in Ids(f) : w \in {y} \X (1 .. Len(Ways(f, y)))
    BY DEF Listed, Ways
  <2>2. Len(Ways(f, y)) \in Nat
    BY WaysAre
  <2> QED BY <2>1, <2>2
<1>5. ASSUME NEW w \in Listed(f)
      PROVE  w \in Scanned(f, t) <=> (w \in A \/ w = e)
  <2>1. w = <<w[1], w[2]>> /\ w[1] \in Ids(f) /\ w[2] \in Nat
    BY <1>4
  <2>2. w \in Scanned(f, t) <=> w[2] < t.next[w[1]]
    BY DEF Scanned
  <2>3. w \in A <=> w[2] < s.next[w[1]]
    BY DEF Scanned
  <2> HIDE DEF A
  <2>4. CASE w[1] = x
    <3>1. t.next[w[1]] = k + 1 /\ s.next[w[1]] = k
      BY <1>3, <2>1, <2>4
    <3>2. w = e <=> w[2] = k
      BY <2>1, <2>4
    <3> HIDE DEF k, e
    <3>3. w[2] < k + 1 <=> w[2] < k \/ w[2] = k
      BY <1>1, <2>1
    <3> QED BY <2>2, <2>3, <3>1, <3>2, <3>3
  <2>5. CASE w[1] # x
    <3>1. t.next[w[1]] = s.next[w[1]]
      BY <1>3, <2>1, <2>5
    <3>2. w # e
      BY <2>5
    <3> QED BY <2>2, <2>3, <3>1, <3>2
  <2> QED BY <2>4, <2>5
<1>6. Scanned(f, t) = A \cup {e}
  <2>1. Scanned(f, t) \subseteq Listed(f) /\ A \subseteq Listed(f)
    BY DEF Scanned
  <2> HIDE DEF A, e
  <2> QED BY <1>2, <1>5, <2>1
<1>7. e \notin A
  BY <1>1 DEF Scanned
<1>8. IsFiniteSet(A)
  BY WorkIs
<1> HIDE DEF A, e
<1>9. Cardinality(A \cup {e}) = Cardinality(A) + 1
  BY <1>7, <1>8, FS_AddElement
<1> QED BY <1>6, <1>9 DEF A

(* The stack has kept its steps, on which are only new ones; the dependency *)
(* which the top was at is finished or among them.                         *)
Grown(f, s, t) ==
    LET n == Len(s.path)  m == Len(t.path)  x == Last(s.path) IN
    /\ n <= m /\ \A i \in 1 .. n : t.path[i] = s.path[i]
    /\ Ways(f, x)[s.next[x]] \in Finished(s) \cup {t.path[j] : j \in n + 1 .. m}
    /\ \A i \in n + 1 .. m :
          t.path[i] \in Ids(f) /\ t.path[i] # x /\ s.next[t.path[i]] = 1

(* The step on top has looked at its next dependency, which is finished or  *)
(* now above it.                                                           *)
LEMMA LookedMore ==
  ASSUME NEW f, IsFlow(f), UnknownSteps(f) = {}, NEW s, SearchInv(f, s), s.path # <<>>,
         NEW x, x = Last(s.path), s.next[x] \in 1 .. Len(Ways(f, x)),
         NEW t \in States(f), t.next = [s.next EXCEPT ![x] = s.next[x] + 1],
         Finished(t) = Finished(s), Grown(f, s, t)
  PROVE  Looked(f, t)
<1> DEFINE n == Len(s.path)
           m == Len(t.path)
           k0 == s.next[x]
<1>1. /\ s \in States(f) /\ x \in Ids(f) /\ n \in Nat \ {0} /\ x = s.path[n] /\ k0 \in Nat
      /\ \A i \in 1 .. n : s.path[i] \in Ids(f)
      /\ \A k \in 1 .. Len(Ways(f, x)) : k < k0 => Ways(f, x)[k] \in Finished(s)
  BY TopIs
<1>2. m \in Nat
  BY LenProperties DEF States
<1>3. \A y \in Ids(f) : t.next[y] = IF y = x THEN k0 + 1 ELSE s.next[y]
  BY <1>1 DEF States
<1>4. \A i \in 1 .. n : s.path[i] = x => i = n
  <2>1. n \in 1 .. n
    <3> HIDE DEF n
    <3> QED BY <1>1
  <2> QED BY <1>1, <2>1 DEF SearchInv, Stacked, Once
<1>5. \A i \in 1 .. n : \A k \in 1 .. Len(Ways(f, s.path[i])) : k < s.next[s.path[i]] =>
         Ways(f, s.path[i])[k] \in Finished(s) \cup {s.path[j] : j \in i + 1 .. n}
  BY DEF SearchInv, Looked
<1>6. \A y \in Ids(f) : Len(Ways(f, y)) \in Nat
  BY WaysAre
<1>7. /\ n <= m /\ \A i \in 1 .. n : t.path[i] = s.path[i]
      /\ Ways(f, x)[k0] \in Finished(s) \cup {t.path[j] : j \in n + 1 .. m}
      /\ \A i \in n + 1 .. m :
            t.path[i] \in Ids(f) /\ t.path[i] # x /\ s.next[t.path[i]] = 1
  BY DEF Grown
<1> HIDE DEF n, m, k0
<1>8. ASSUME NEW i \in 1 .. m, NEW k \in 1 .. Len(Ways(f, t.path[i])), k < t.next[t.path[i]]
      PROVE  Ways(f, t.path[i])[k] \in Finished(t) \cup {t.path[j] : j \in i + 1 .. m}
  <2>1. (i \in 1 .. n /\ i # n) \/ i = n \/ i \in n + 1 .. m
    BY <1>1, <1>2
  <2>2. CASE i \in 1 .. n /\ i # n
    <3>1. t.path[i] = s.path[i] /\ s.path[i] \in Ids(f) /\ s.path[i] # x
      BY <1>1, <1>4, <1>7, <2>2
    <3>2. t.next[t.path[i]] = s.next[s.path[i]]
      BY <1>3, <3>1
    <3>3. Ways(f, s.path[i])[k] \in Finished(s) \cup {s.path[j] : j \in i + 1 .. n}
      BY <1>5, <1>8, <2>2, <3>1, <3>2
    <3>4. \A j \in i + 1 .. n : s.path[j] = t.path[j] /\ j \in i + 1 .. m
      <4>1. \A j \in i + 1 .. n : j \in 1 .. n /\ j \in i + 1 .. m
        BY <1>1, <1>2, <1>7, <2>2
      <4> QED BY <1>7, <4>1
    <3> QED BY <3>1, <3>3, <3>4
  <2>3. CASE i = n
    <3>1. t.path[i] = x /\ t.next[t.path[i]] = k0 + 1
      <4>1. n \in 1 .. n
        BY <1>1
      <4>2. t.path[n] = s.path[n]
        BY <1>7, <4>1
      <4> QED BY <1>1, <1>3, <2>3, <4>2
    <3>2. k \in 1 .. Len(Ways(f, x)) /\ (k < k0 \/ k = k0)
      <4>1. k \in 1 .. Len(Ways(f, x)) /\ Len(Ways(f, x)) \in Nat /\ k < k0 + 1
        BY <1>1, <1>6, <1>8, <3>1
      <4> QED BY <1>1, <4>1
    <3>3. CASE k < k0
      <4>1. Ways(f, x)[k] \in Finished(s)
        BY <1>1, <3>2, <3>3
      <4> QED BY <3>1, <4>1
    <3>4. CASE k = k0
      <4>1. Ways(f, x)[k] \in Finished(s) \cup {t.path[j] : j \in n + 1 .. m}
        BY <1>7, <3>4
      <4> QED BY <2>3, <3>1, <4>1
    <3> QED BY <3>2, <3>3, <3>4
  <2>4. CASE i \in n + 1 .. m
    <3>1. t.path[i] \in Ids(f) /\ t.path[i] # x /\ s.next[t.path[i]] = 1
      BY <1>7, <2>4
    <3>2. t.next[t.path[i]] = 1 /\ Len(Ways(f, t.path[i])) \in Nat
      BY <1>3, <1>6, <3>1
    <3> DEFINE l == Len(Ways(f, t.path[i]))
    <3>3. k \in 1 .. l /\ l \in Nat /\ k < 1
      BY <1>8, <3>2
    <3> HIDE DEF l
    <3>4. FALSE
      BY <3>3
    <3> QED BY <3>4
  <2> QED BY <2>1, <2>2, <2>3, <2>4
<1> QED BY <1>8 DEF Looked, m

Pushed(s, t, d) ==
    /\ Len(t.path) = Len(s.path) + 1 /\ t.path[Len(s.path) + 1] = d
    /\ \A i \in 1 .. Len(s.path) : t.path[i] = s.path[i]

(* A dependency that was not visited yet is entered. *)
LEMMA SearchEnter ==
  ASSUME NEW f, IsFlow(f), UnknownSteps(f) = {}, NEW s, SearchInv(f, s), s.path # <<>>,
         NEW x, x = Last(s.path), s.next[x] \in 1 .. Len(Ways(f, x)),
         NEW d, d = Ways(f, x)[s.next[x]], d \notin s.visited,
         NEW t \in States(f), t.root = s.root, Pushed(s, t, d),
         t.next = [s.next EXCEPT ![x] = s.next[x] + 1],
         t.visited = s.visited \cup {d}, t.cycle = s.cycle
  PROVE  SearchInv(f, t) /\ Work(f, t) = Work(f, s) + 2
<1> DEFINE p == s.path
           q == t.path
           n == Len(p)
<1>1. /\ s \in States(f) /\ x \in Ids(f) /\ x \in s.visited
      /\ n \in Nat \ {0} /\ x = p[n]
  BY TopIs
<1>2. /\ p \in Seq(Ids(f)) /\ Once(p) /\ ToSet(p) \subseteq s.visited
      /\ \A i \in 1 .. n - 1 : p[i + 1] \in Deps(f, p[i])
  BY <1>1 DEF SearchInv, Stacked, States
<1>3. d \in Ids(f) /\ d \in Deps(f, x) /\ d # x
  <2>1. /\ Deps(f, x) = {Ways(f, x)[k] : k \in 1 .. Len(Ways(f, x))}
        /\ \A k \in 1 .. Len(Ways(f, x)) : Ways(f, x)[k] \in Ids(f)
    BY <1>1, WaysAre
  <2> DEFINE w == Ways(f, x)
             k == s.next[x]
  <2>2. d = w[k] /\ k \in 1 .. Len(w)
    OBVIOUS
  <2> HIDE DEF w, k
  <2>3. d \in {w[i] : i \in 1 .. Len(w)}
    BY <2>2
  <2>4. d \in Ids(f) /\ d \in Deps(f, x)
    BY SMTT(30), <2>1, <2>2, <2>3 DEF w
  <2>5. d # x
    BY <1>1
  <2> QED BY SMTT(30), <2>4, <2>5
<1>4. t.path = q
  OBVIOUS
<1>5. /\ q \in Seq(Ids(f)) /\ Len(q) = n + 1 /\ q[n + 1] = d /\ \A i \in 1 .. n : q[i] = p[i]
  <2>1. t.path \in Seq(Ids(f))
    BY DEF States
  <2> QED BY <2>1 DEF Pushed
<1>6. ToSet(p) = {p[i] : i \in 1 .. n}
  <2> HIDE DEF p
  <2> QED BY <1>2, ElementsOf
<1>7. ToSet(q) = ToSet(p) \cup {d}
  <2>1. ToSet(q) = {q[i] : i \in 1 .. n + 1}
    <3> HIDE DEF q
    <3> QED BY <1>5, LenProperties DEF ToSet
  <2> HIDE DEF p, q, n
  <2>2. \A i : i \in 1 .. n + 1 <=> (i \in 1 .. n \/ i = n + 1)
    BY <1>1
  <2>3. {q[i] : i \in 1 .. n + 1} = {q[i] : i \in 1 .. n} \cup {q[n + 1]}
    <3> DEFINE A == 1 .. n + 1
               B == 1 .. n
               m == n + 1
    <3>1. \A i : i \in A <=> (i \in B \/ i = m)
      BY <2>2
    <3> HIDE DEF A, B, m
    <3>2. {q[i] : i \in A} = {q[i] : i \in B} \cup {q[m]}
      BY <3>1
    <3> QED BY <3>2 DEF A, B, m
  <2>4. {q[i] : i \in 1 .. n} = {p[i] : i \in 1 .. n}
    BY <1>5
  <2> QED BY <1>5, <1>6, <2>1, <2>3, <2>4
<1>8. d \notin ToSet(p)
  BY <1>2
<1>9. Finished(t) = Finished(s)
  <2> HIDE DEF p, q
  <2>1. Finished(t) = (s.visited \cup {d}) \ ToSet(q) /\ Finished(s) = s.visited \ ToSet(p)
    BY <1>4 DEF Finished, p
  <2> QED BY <1>7, <2>1
<1>10. Looked(f, t)
  <2>1. n + 1 \in Nat /\ n <= n + 1 /\ \A j : j \in n + 1 .. n + 1 <=> j = n + 1
    <3> HIDE DEF n
    <3> QED BY <1>1
  <2>2. s.next[d] = 1
    BY <1>3 DEF SearchInv
  <2>3. d \in {q[j] : j \in n + 1 .. n + 1}
    <3> HIDE DEF q, n
    <3> QED BY <1>5, <2>1
  <2>4. \A i \in n + 1 .. n + 1 : q[i] \in Ids(f) /\ q[i] # x /\ s.next[q[i]] = 1
    <3> HIDE DEF q, n
    <3> QED BY <1>3, <1>5, <2>1, <2>2
  <2>5. Ways(f, x)[s.next[x]] \in {q[j] : j \in n + 1 .. n + 1}
    BY <2>3
  <2>6. Grown(f, s, t)
    BY <1>5, <2>1, <2>4, <2>5 DEF Grown
  <2> QED BY <1>9, <2>6, LookedMore
<1>11. t.next \in [Ids(f) -> Nat \ {0}] /\ \A y \in Ids(f) \ {x} : t.next[y] = s.next[y]
  BY DEF States
<1>12. Work(f, t) = Work(f, s) + 2
  <2> DEFINE V == s.visited
  <2>1. /\ Cardinality(V) \in Nat /\ Cardinality(Finished(s)) \in Nat
        /\ Cardinality(Scanned(f, s)) \in Nat /\ IsFiniteSet(V)
    BY SMTT(30), <1>1, WorkIs
  <2>2. Cardinality(Scanned(f, t)) = Cardinality(Scanned(f, s)) + 1
    BY <1>1, ScannedMore
  <2>3. t.visited = V \cup {d} /\ d \notin V
    OBVIOUS
  <2>4. s.root \in Nat
    BY <1>1, FlowIs DEF States
  <2> HIDE DEF V
  <2>5. Cardinality(t.visited) = Cardinality(V) + 1
    <3>1. Cardinality(V \cup {d}) = Cardinality(V) + 1
      BY <2>1, <2>3, FS_AddElement
    <3> QED BY <2>3, <3>1
  <2> DEFINE a == Cardinality(V)
             b == Cardinality(Finished(s))
             c == Cardinality(Scanned(f, s))
             r == s.root
  <2>7. Work(f, s) = (r - 1) + a + b + c
    BY DEF Work, V
  <2>8. Work(f, t) = (r - 1) + (a + 1) + b + (c + 1)
    BY <1>9, <2>2, <2>5 DEF Work
  <2>9. a \in Nat /\ b \in Nat /\ c \in Nat /\ r \in Nat
    BY <2>1, <2>4
  <2> HIDE DEF a, b, c, r
  <2> QED BY <2>7, <2>8, <2>9
<1> HIDE DEF p, q, n
<1>13. Stacked(f, t)
  <2>1. Once(q)
    <3>1. \A i \in 1 .. n + 1 : i \in 1 .. n \/ i = n + 1
      BY <1>1
    <3>2. \A i \in 1 .. n : q[i] # d /\ q[i] = p[i]
      BY <1>5, <1>6, <1>8
    <3>3. \A i, j \in 1 .. n : p[i] = p[j] => i = j
      BY <1>2 DEF Once, n
    <3> QED BY <1>5, <3>1, <3>2, <3>3 DEF Once
  <2>2. \A i \in 1 .. n : q[i + 1] \in Deps(f, q[i])
    <3> TAKE i \in 1 .. n
    <3>1. i = n \/ (i \in 1 .. n - 1 /\ i + 1 \in 1 .. n)
      BY <1>1
    <3>2. CASE i = n
      <4>1. q[i] = x /\ q[i + 1] = d
        BY <1>1, <1>5, <3>2
      <4> QED BY <1>3, <4>1
    <3>3. CASE i \in 1 .. n - 1 /\ i + 1 \in 1 .. n
      BY <1>2, <1>5, <3>3
    <3> QED BY <3>1, <3>2, <3>3
  <2>3. ToSet(q) \subseteq t.visited
    BY <1>2, <1>7
  <2>4. \A i \in 1 .. Len(q) - 1 : q[i + 1] \in Deps(f, q[i])
    <3>1. Len(q) - 1 = n
      BY <1>1, <1>5
    <3> QED BY <2>2, <3>1
  <2> QED BY <1>4, <2>1, <2>3, <2>4 DEF Stacked
<1>14. SearchInv(f, t)
  <2>1. \A y \in Ids(f) \ t.visited : t.next[y] = 1
    BY <1>1, <1>11 DEF SearchInv
  <2>2. \A i \in 1 .. t.root - 1 : f[i].id \in t.visited
    BY DEF SearchInv
  <2> QED BY <1>9, <1>10, <1>13, <2>1, <2>2 DEF SearchInv
<1> QED BY <1>12, <1>14

(* One that is finished is passed over. *)
LEMMA SearchSkip ==
  ASSUME NEW f, IsFlow(f), UnknownSteps(f) = {}, NEW s, SearchInv(f, s), s.path # <<>>,
         NEW x, x = Last(s.path), s.next[x] \in 1 .. Len(Ways(f, x)),
         NEW d, d = Ways(f, x)[s.next[x]], d \in s.visited, d \notin ToSet(s.path),
         NEW t \in States(f), t.root = s.root, t.path = s.path,
         t.next = [s.next EXCEPT ![x] = s.next[x] + 1],
         t.visited = s.visited, t.cycle = s.cycle
  PROVE  SearchInv(f, t) /\ Work(f, t) = Work(f, s) + 1
<1>1. s \in States(f) /\ x \in Ids(f) /\ x \in s.visited /\ Len(s.path) \in Nat
  BY TopIs
<1>2. Finished(t) = Finished(s) /\ d \in Finished(s)
  BY DEF Finished
<1>3. Looked(f, t)
  <2>1. \A j : ~ (j \in Len(s.path) + 1 .. Len(s.path))
    <3> DEFINE n == Len(s.path)
    <3>1. n \in Nat
      BY <1>1
    <3> HIDE DEF n
    <3>2. \A j : ~ (j \in n + 1 .. n)
      BY <3>1
    <3> QED BY <3>2 DEF n
  <2>2. Grown(f, s, t)
    BY <1>1, <1>2, <2>1 DEF Grown
  <2> QED BY <1>2, <2>2, LookedMore
<1>4. t.next \in [Ids(f) -> Nat \ {0}] /\ \A y \in Ids(f) \ {x} : t.next[y] = s.next[y]
  BY DEF States
<1>5. SearchInv(f, t)
  <2>1. \A y \in Ids(f) \ t.visited : t.next[y] = 1
    BY <1>1, <1>4 DEF SearchInv
  <2>2. Stacked(f, t)
    BY DEF Stacked, SearchInv
  <2> QED BY <1>2, <1>3, <2>1, <2>2 DEF SearchInv
<1>6. Work(f, t) = Work(f, s) + 1
  <2>1. /\ Cardinality(s.visited) \in Nat /\ Cardinality(Finished(s)) \in Nat
        /\ Cardinality(Scanned(f, s)) \in Nat
    BY <1>1, WorkIs
  <2>2. Cardinality(Scanned(f, t)) = Cardinality(Scanned(f, s)) + 1
    BY <1>1, ScannedMore
  <2>3. s.root \in Nat
    BY <1>1, FlowIs DEF States
  <2> DEFINE a == Cardinality(s.visited)
             b == Cardinality(Finished(s))
             c == Cardinality(Scanned(f, s))
             r == s.root
  <2>4. Work(f, s) = (r - 1) + a + b + c
    BY DEF Work
  <2>5. Work(f, t) = (r - 1) + a + b + (c + 1)
    BY <1>2, <2>2 DEF Work
  <2>6. a \in Nat /\ b \in Nat /\ c \in Nat /\ r \in Nat
    BY <2>1, <2>3
  <2> HIDE DEF a, b, c, r
  <2> QED BY <2>4, <2>5, <2>6
<1> QED BY <1>5, <1>6

LEMMA StateIs ==
  ASSUME NEW f, NEW r \in 1 .. Len(f) + 1, NEW p \in Seq(Ids(f)),
         NEW n \in [Ids(f) -> Nat \ {0}], NEW v \in SUBSET Ids(f), NEW c \in Seq(Ids(f))
  PROVE  [root |-> r, path |-> p, next |-> n, visited |-> v, cycle |-> c] \in States(f)
<1> DEFINE R == 1 .. Len(f) + 1
           P == Seq(Ids(f))
           N == [Ids(f) -> Nat \ {0}]
           V == SUBSET Ids(f)
<1>1. States(f) = [root : R, path : P, next : N, visited : V, cycle : P]
  BY DEF States
<1>2. r \in R /\ p \in P /\ n \in N /\ v \in V /\ c \in P
  OBVIOUS
<1> HIDE DEF R, P, N, V
<1> QED BY <1>1, <1>2

LEMMA StateHas ==
  ASSUME NEW f, NEW s \in States(f)
  PROVE  /\ s = [root |-> s.root, path |-> s.path, next |-> s.next,
                 visited |-> s.visited, cycle |-> s.cycle]
         /\ s.root \in 1 .. Len(f) + 1 /\ s.path \in Seq(Ids(f))
         /\ s.next \in [Ids(f) -> Nat \ {0}] /\ s.visited \in SUBSET Ids(f)
         /\ s.cycle \in Seq(Ids(f))
<1> DEFINE R == 1 .. Len(f) + 1
           P == Seq(Ids(f))
           N == [Ids(f) -> Nat \ {0}]
           V == SUBSET Ids(f)
<1>1. s \in [root : R, path : P, next : N, visited : V, cycle : P]
  BY DEF States
<1> HIDE DEF R, P, N, V
<1>2. /\ s = [root |-> s.root, path |-> s.path, next |-> s.next,
              visited |-> s.visited, cycle |-> s.cycle]
      /\ s.root \in R /\ s.path \in P /\ s.next \in N /\ s.visited \in V /\ s.cycle \in P
  BY <1>1
<1> QED BY <1>2 DEF R, P, N, V

(* From a step on the stack up to the top, and back. *)
LEMMA CycleIs ==
  ASSUME NEW f, NEW p \in Seq(Ids(f)), NEW j \in 1 .. Len(p), NEW d, d = p[j],
         \A i \in 1 .. Len(p) - 1 : p[i + 1] \in Deps(f, p[i]), d \in Deps(f, p[Len(p)])
  PROVE  LET c == SubSeq(p, j, Len(p)) \o <<d>>
         IN c \in Seq(Ids(f)) /\ c # <<>> /\ Closed(f, c)
<1> DEFINE n == Len(p)
           q == SubSeq(p, j, n)
           e == <<d>>
           c == q \o e
           m == n - j + 1
<1>1. n \in Nat /\ \A i \in 1 .. n : p[i] \in Ids(f)
  BY LenProperties, ElementOfSeq
<1>2. /\ e \in Seq(Ids(f)) /\ Len(e) = 1 /\ e[1] = d
  <2>1. d \in Ids(f)
    BY <1>1
  <2> QED BY <2>1, Singleton
<1>3. j \in 1 .. n
  OBVIOUS
<1>4. d = p[j]
  OBVIOUS
<1>5. \A i \in 1 .. n - 1 : p[i + 1] \in Deps(f, p[i])
  OBVIOUS
<1>6. d \in Deps(f, p[n])
  OBVIOUS
<1> HIDE DEF n, e
<1>7. j \in Int /\ n \in Int /\ j <= n /\ m \in Nat \ {0} /\ \A i \in j .. n : p[i] \in Ids(f)
  BY <1>1, <1>3
<1>8. q \in Seq(Ids(f)) /\ Len(q) = m /\ \A i \in 1 .. m : q[i] = p[j + i - 1]
  BY <1>7, SubSeqProperties
<1> HIDE DEF q, m
<1>9. /\ c \in Seq(Ids(f)) /\ Len(c) = m + 1
      /\ \A i \in 1 .. m + 1 : c[i] = IF i <= m THEN q[i] ELSE e[i - m]
  <2>1. /\ q \o e \in Seq(Ids(f)) /\ Len(q \o e) = Len(q) + Len(e)
        /\ \A i \in 1 .. Len(q) + Len(e) :
              (q \o e)[i] = IF i <= Len(q) THEN q[i] ELSE e[i - Len(q)]
    BY <1>2, <1>8, ConcatProperties
  <2>2. Len(q) = m /\ Len(e) = 1
    BY <1>2, <1>8
  <2> QED BY <2>1, <2>2
<1> HIDE DEF c
<1>10. c[m + 1] = d /\ \A i \in 1 .. m : c[i] = q[i]
  <2>1. m + 1 \in 1 .. m + 1
    BY <1>7
  <2>2. \A i \in 1 .. m : i \in 1 .. m + 1 /\ i <= m
    BY <1>7
  <2>3. c[m + 1] = e[1]
    <3>1. c[m + 1] = IF m + 1 <= m THEN q[m + 1] ELSE e[m + 1 - m]
      BY <1>7, <1>9, <2>1
    <3>2. m + 1 - m = 1 /\ ~ (m + 1 <= m)
      BY <1>7
    <3> QED BY <3>1, <3>2
  <2>4. \A i \in 1 .. m : c[i] = q[i]
    BY <1>9, <2>2
  <2> QED BY <1>2, <2>3, <2>4
<1>11. c[1] = d
  <2>1. 1 \in 1 .. m /\ j + 1 - 1 = j
    BY <1>3, <1>7
  <2> QED BY <1>4, <1>8, <1>10, <2>1
<1>12. Last(c) = d
  BY <1>9, <1>10 DEF Last
<1>13. c # <<>> /\ Len(c) > 1
  <2>1. Len(c) > 1
    BY <1>7, <1>9
  <2> QED BY <2>1, <1>9, EmptySeq
<1>14. \A i \in 1 .. m : c[i + 1] \in Deps(f, c[i])
  <2> TAKE i \in 1 .. m
  <2>1. i = m \/ (i \in 1 .. m /\ i + 1 \in 1 .. m)
    BY <1>7
  <2>2. CASE i = m
    <3>1. j + m - 1 = n
      BY <1>3, <1>7 DEF m
    <3>2. c[i] = p[n]
      BY <1>8, <1>10, <2>2, <3>1
    <3> QED BY <1>6, <1>10, <2>2, <3>2
  <2>3. CASE i \in 1 .. m /\ i + 1 \in 1 .. m
    <3>1. c[i] = p[j + i - 1] /\ c[i + 1] = p[j + (i + 1) - 1]
      BY <1>8, <1>10, <2>3
    <3>2. j + i - 1 \in 1 .. n - 1 /\ j + (i + 1) - 1 = j + i - 1 + 1
      BY <1>3, <1>7, <2>3 DEF m
    <3> QED BY <1>5, <3>1, <3>2
  <2> QED BY <2>1, <2>2, <2>3
<1>15. Closed(f, c)
  <2>1. Len(c) - 1 = m
    BY <1>7, <1>9
  <2> QED BY <1>11, <1>12, <1>13, <1>14, <2>1 DEF Closed
<1> QED BY <1>9, <1>13, <1>15 DEF c, q, e, n

(* A dependency that is on the stack closes a cycle. *)
LEMMA SearchFound ==
  ASSUME NEW f, IsFlow(f), UnknownSteps(f) = {}, NEW s, SearchInv(f, s), s.path # <<>>,
         NEW x, x = Last(s.path), s.next[x] \in 1 .. Len(Ways(f, x)),
         NEW d, d = Ways(f, x)[s.next[x]], Contains(s.path, d)
  PROVE  LET c == SubSeq(s.path, SelectInSeq(s.path, LAMBDA y : y = d), Len(s.path)) \o <<d>>
         IN c \in Seq(Ids(f)) /\ c # <<>> /\ Closed(f, c)
<1> DEFINE p == s.path
           j == SelectInSeq(p, LAMBDA y : y = d)
<1>1. s \in States(f) /\ x \in Ids(f) /\ x = p[Len(p)]
  BY TopIs
<1>2. p \in Seq(Ids(f)) /\ \A i \in 1 .. Len(p) - 1 : p[i + 1] \in Deps(f, p[i])
  <2>1. p \in Seq(Ids(f))
    BY <1>1, StateHas
  <2> QED BY <2>1 DEF SearchInv, Stacked
<1>3. d \in Deps(f, x)
  <2>1. Deps(f, x) = {Ways(f, x)[k] : k \in 1 .. Len(Ways(f, x))}
    BY <1>1, WaysAre
  <2> QED BY <2>1
<1>4. j \in 1 .. Len(p) /\ p[j] = d
  <2> DEFINE I == {i \in 1 .. Len(p) : p[i] = d}
  <2>1. j = IF I # {} THEN Min(I) ELSE 0
    BY DEF SelectInSeq
  <2>2. I # {} /\ I \subseteq Nat
    BY LenProperties DEF Contains
  <2>3. Min(I) \in I
    <3> HIDE DEF I
    <3>1. \E y \in I : \A z \in I : y <= z
      BY <2>2, Least
    <3> QED BY <3>1 DEF Min
  <2> HIDE DEF j
  <2>4. j \in I
    BY <2>1, <2>2, <2>3
  <2> QED BY <2>4
<1>5. d \in Deps(f, p[Len(p)])
  BY <1>1, <1>3
<1> HIDE DEF p, j
<1>6. LET c == SubSeq(p, j, Len(p)) \o <<d>>
      IN c \in Seq(Ids(f)) /\ c # <<>> /\ Closed(f, c)
  BY <1>2, <1>4, <1>5, CycleIs
<1> QED BY <1>6 DEF p, j

(***************************************************************************)
(* One step of the search: nothing is left to do, or less is, or a cycle    *)
(* was found.                                                              *)
(***************************************************************************)
LEMMA SearchStep ==
  ASSUME NEW f, IsFlow(f), UnknownSteps(f) = {}, NEW s, SearchInv(f, s)
  PROVE  \/ Over(f, s) /\ Search(f, s) = s
         \/ SearchInv(f, Search(f, s)) /\ Work(f, Search(f, s)) >= Work(f, s) + 1
         \/ Search(f, s).cycle # <<>> /\ Closed(f, Search(f, s).cycle)
<1> DEFINE t == Search(f, s)
           x == Last(s.path)
           k == s.next[x]
           w == Ways(f, x)
           d == w[k]
<1>1. s \in States(f) /\ Work(f, s) \in Nat
  <2>1. s \in States(f)
    BY DEF SearchInv
  <2>2. /\ Cardinality(s.visited) \in Nat /\ Cardinality(Finished(s)) \in Nat
        /\ Cardinality(Scanned(f, s)) \in Nat
    BY <2>1, WorkIs
  <2>3. s.root - 1 \in Nat
    BY <2>1, FlowIs, StateHas
  <2> QED BY <2>1, <2>2, <2>3 DEF Work
<1>2. /\ s = [root |-> s.root, path |-> s.path, next |-> s.next,
              visited |-> s.visited, cycle |-> s.cycle]
      /\ s.root \in 1 .. Len(f) + 1 /\ s.path \in Seq(Ids(f))
      /\ s.next \in [Ids(f) -> Nat \ {0}] /\ s.visited \in SUBSET Ids(f)
      /\ s.cycle \in Seq(Ids(f)) /\ Len(f) \in Nat
  BY <1>1, StateHas, FlowIs
<1>3. CASE s.path = <<>> /\ s.root > Len(f)
  BY <1>3 DEF Search, Over
<1>4. CASE s.path = <<>> /\ ~ (s.root > Len(f)) /\ f[s.root].id \in s.visited
  <2>1. t = [s EXCEPT !.root = @ + 1]
    BY <1>4 DEF Search
  <2>2. t = [root |-> s.root + 1, path |-> s.path, next |-> s.next,
             visited |-> s.visited, cycle |-> s.cycle]
    BY <1>2, <2>1
  <2> HIDE DEF t
  <2>3. s.root + 1 \in 1 .. Len(f) + 1
    BY <1>2, <1>4
  <2>4. t \in States(f)
    BY <1>2, <2>2, <2>3, StateIs
  <2>5. SearchInv(f, t) /\ Work(f, t) = Work(f, s) + 1
    BY <1>4, <2>2, <2>4, SearchOn
  <2> QED BY <1>1, <2>5 DEF t
<1>5. CASE s.path = <<>> /\ ~ (s.root > Len(f)) /\ f[s.root].id \notin s.visited
  <2> DEFINE id == f[s.root].id
             v == s.visited \cup {id}
             p == <<id>>
  <2>1. t = [s EXCEPT !.visited = v, !.path = p]
    BY <1>5 DEF Search
  <2>3. id \in Ids(f)
    BY <1>2, <1>5, LenProperties, FlowIs DEF Ids
  <2>4. v \in SUBSET Ids(f) /\ p \in Seq(Ids(f))
    BY <1>2, <2>3, Singleton
  <2> HIDE DEF t, v, p
  <2>2. t = [root |-> s.root, path |-> p, next |-> s.next, visited |-> v, cycle |-> s.cycle]
    BY <1>2, <2>1
  <2>5. t \in States(f)
    BY <1>2, <2>2, <2>4, StateIs
  <2>6. /\ t.root = s.root /\ t.path = <<id>> /\ t.next = s.next
        /\ t.visited = s.visited \cup {id} /\ t.cycle = s.cycle
    BY <2>2 DEF v, p
  <2>7. SearchInv(f, t) /\ Work(f, t) = Work(f, s) + 1
    BY <1>5, <2>5, <2>6, SearchRoot
  <2> QED BY <1>1, <2>7 DEF t
<1>6. ASSUME s.path # <<>>
      PROVE  x \in Ids(f) /\ k \in Nat \ {0} /\ Len(w) \in Nat
  <2>1. x \in Ids(f) /\ k \in Nat \ {0}
    BY <1>6, TopIs
  <2> QED BY <2>1, WaysAre
<1>7. CASE s.path # <<>> /\ k > Len(w)
  <2> DEFINE p == Front(s.path)
  <2>1. t = [s EXCEPT !.path = p]
    BY <1>7 DEF Search, Ways
  <2>2. p \in Seq(Ids(f))
    <3>1. Once(s.path)
      BY DEF SearchInv, Stacked
    <3> QED BY <1>2, <1>7, <3>1, FrontOnce
  <2> HIDE DEF t, p
  <2>3. t = [root |-> s.root, path |-> p, next |-> s.next,
             visited |-> s.visited, cycle |-> s.cycle]
    BY <1>2, <2>1
  <2>4. t \in States(f)
    BY <1>2, <2>2, <2>3, StateIs
  <2>5. /\ t.root = s.root /\ t.path = Front(s.path) /\ t.next = s.next
        /\ t.visited = s.visited /\ t.cycle = s.cycle
    BY <2>3 DEF p
  <2>6. SearchInv(f, t) /\ Work(f, t) = Work(f, s) + 1
    BY <1>7, <2>4, <2>5, SearchLeave
  <2> QED BY <1>1, <2>6 DEF t
<1>8. ASSUME s.path # <<>>, ~ (k > Len(w))
      PROVE  k \in 1 .. Len(w) /\ [s.next EXCEPT ![x] = k + 1] \in [Ids(f) -> Nat \ {0}]
             /\ d \in Ids(f)
  <2>1. k \in 1 .. Len(w)
    BY <1>6, <1>8
  <2>2. [s.next EXCEPT ![x] = k + 1] \in [Ids(f) -> Nat \ {0}]
    BY <1>2, <1>6, <1>8
  <2>3. d \in Ids(f)
    BY <1>6, <1>8, <2>1, WaysAre
  <2> QED BY <2>1, <2>2, <2>3
<1>9. CASE s.path # <<>> /\ ~ (k > Len(w)) /\ d \notin s.visited
  <2> DEFINE n == [s.next EXCEPT ![x] = k + 1]
             v == s.visited \cup {d}
             p == Append(s.path, d)
  <2>1. t = [[s EXCEPT !.next = n] EXCEPT !.visited = v, !.path = p]
    BY <1>9 DEF Search, Ways
  <2>2. n \in [Ids(f) -> Nat \ {0}] /\ v \in SUBSET Ids(f) /\ k \in 1 .. Len(w) /\ d \in Ids(f)
    BY <1>2, <1>8, <1>9
  <2>3. p \in Seq(Ids(f)) /\ Pushed(s, [path |-> p], d)
    <3> DEFINE e == d
    <3>1. e \in Ids(f)
      BY <2>2
    <3> HIDE DEF e
    <3>2. /\ Append(s.path, e) \in Seq(Ids(f)) /\ Len(Append(s.path, e)) = Len(s.path) + 1
          /\ Append(s.path, e)[Len(s.path) + 1] = e
          /\ \A i \in 1 .. Len(s.path) : Append(s.path, e)[i] = s.path[i]
      BY <1>2, <3>1, AppendIs
    <3>3. p = Append(s.path, e) /\ d = e
      BY DEF e
    <3> HIDE DEF p, d
    <3> QED BY <3>2, <3>3 DEF Pushed
  <2> HIDE DEF t, n, v, p
  <2>4. t = [root |-> s.root, path |-> p, next |-> n, visited |-> v, cycle |-> s.cycle]
    BY <1>2, <2>1
  <2>5. t \in States(f)
    BY <1>2, <2>2, <2>3, <2>4, StateIs
  <2>6. /\ t.root = s.root /\ t.path = p /\ t.next = [s.next EXCEPT ![x] = k + 1]
        /\ t.visited = s.visited \cup {d} /\ t.cycle = s.cycle
    BY <2>4 DEF n, v
  <2>7. Pushed(s, t, d)
    BY <2>3, <2>6 DEF Pushed
  <2>8. SearchInv(f, t) /\ Work(f, t) = Work(f, s) + 2
    BY <1>9, <2>2, <2>5, <2>6, <2>7, SearchEnter
  <2> QED BY <1>1, <2>8 DEF t
<1>10. CASE s.path # <<>> /\ ~ (k > Len(w)) /\ d \in s.visited /\ Contains(s.path, d)
  <2> DEFINE c == SubSeq(s.path, SelectInSeq(s.path, LAMBDA y : y = d), Len(s.path)) \o <<d>>
             n == [s.next EXCEPT ![x] = k + 1]
  <2>1. t = [[s EXCEPT !.next = n] EXCEPT !.cycle = c]
    BY <1>10 DEF Search, Ways
  <2>2. c # <<>> /\ Closed(f, c)
    BY <1>8, <1>10, SearchFound
  <2> HIDE DEF t, c, n
  <2>3. t.cycle = c
    BY <1>2, <2>1
  <2> QED BY <2>2, <2>3 DEF t
<1>11. CASE s.path # <<>> /\ ~ (k > Len(w)) /\ d \in s.visited /\ ~ Contains(s.path, d)
  <2> DEFINE n == [s.next EXCEPT ![x] = k + 1]
  <2>1. t = [s EXCEPT !.next = n]
    BY <1>11 DEF Search, Ways
  <2>2. n \in [Ids(f) -> Nat \ {0}] /\ k \in 1 .. Len(w)
    BY <1>8, <1>11
  <2>3. d \notin ToSet(s.path)
    <3>1. ToSet(s.path) = {s.path[i] : i \in 1 .. Len(s.path)}
      BY <1>2, ElementsOf
    <3> HIDE DEF d
    <3> QED BY <1>11, <3>1 DEF Contains
  <2> HIDE DEF t, n
  <2>4. t = [root |-> s.root, path |-> s.path, next |-> n,
             visited |-> s.visited, cycle |-> s.cycle]
    BY <1>2, <2>1
  <2>5. t \in States(f)
    BY <1>2, <2>2, <2>4, StateIs
  <2>6. /\ t.root = s.root /\ t.path = s.path /\ t.next = [s.next EXCEPT ![x] = k + 1]
        /\ t.visited = s.visited /\ t.cycle = s.cycle
    BY <2>4 DEF n
  <2>7. SearchInv(f, t) /\ Work(f, t) = Work(f, s) + 1
    BY <1>11, <2>2, <2>3, <2>5, <2>6, SearchSkip
  <2> QED BY <1>1, <2>7 DEF t
<1> QED BY <1>3, <1>4, <1>5, <1>7, <1>9, <1>10, <1>11

(* The states of the search after 0, 1, ... n steps.                        *)
Searched(g, f, n) ==
  g = [i \in 0 .. n |->
         IF i = 0 THEN FirstState(f)
         ELSE IF g[i - 1].cycle # <<>> THEN g[i - 1] ELSE Search(f, g[i - 1])]

LEMMA SearchesExist ==
  ASSUME NEW f, NEW n \in Nat
  PROVE  \E g : Searched(g, f, n)
<1> DEFINE T == {k \in Nat : ~ \E g : Searched(g, f, k)}
<1> SUFFICES ASSUME T # {} PROVE FALSE
  OBVIOUS
<1>1. PICK k \in T : \A m \in T : k <= m
  <2>1. T \subseteq Nat
    OBVIOUS
  <2> HIDE DEF T
  <2> QED BY <2>1, Least
<1>2. k \in Nat /\ ~ \E g : Searched(g, f, k)
  BY <1>1
<1>3. CASE k = 0
  <2> DEFINE g == [i \in 0 .. 0 |-> FirstState(f)]
  <2>1. Searched(g, f, 0)
    BY DEF Searched
  <2> QED BY <1>2, <1>3, <2>1
<1>4. CASE k # 0
  <2>1. k - 1 \in Nat /\ k - 1 \notin T
    BY <1>1, <1>2, <1>4
  <2>2. PICK g : Searched(g, f, k - 1)
    BY <2>1
  <2> DEFINE Following(h, i) ==
               IF i = 0 THEN FirstState(f)
               ELSE IF h[i - 1].cycle # <<>> THEN h[i - 1] ELSE Search(f, h[i - 1])
             e == [i \in 0 .. k |-> Following(g, i)]
  <2>3. g = [i \in 0 .. k - 1 |-> Following(g, i)]
    BY <2>2 DEF Searched
  <2>4. \A i \in 0 .. k - 1 : e[i] = g[i]
    <3> TAKE i \in 0 .. k - 1
    <3>1. i \in 0 .. k
      BY <1>2
    <3> HIDE DEF Following
    <3> QED BY <2>3, <3>1
  <2>5. \A i \in 0 .. k : Following(e, i) = Following(g, i)
    <3> HIDE DEF e
    <3> TAKE i \in 0 .. k
    <3>1. i # 0 => i - 1 \in 0 .. k - 1
      BY <1>2
    <3> QED BY <2>4, <3>1
  <2>6. e = [i \in 0 .. k |-> Following(e, i)]
    <3>1. e = [i \in 0 .. k |-> Following(g, i)]
      OBVIOUS
    <3> HIDE DEF e, Following
    <3> QED BY <2>5, <3>1
  <2>7. Searched(e, f, k)
    <3> HIDE DEF e
    <3> QED BY <2>6 DEF Searched
  <2> QED BY <1>2, <2>7
<1> QED BY <1>3, <1>4

LEMMA StartSearch ==
  ASSUME NEW f, IsFlow(f)
  PROVE  SearchInv(f, FirstState(f))
<1> DEFINE s == FirstState(f)
           e == <<>>
           n == [id \in Ids(f) |-> 1]
<1>1. /\ e \in Seq(Ids(f)) /\ Len(e) = 0 /\ ToSet(e) = {}
  BY EmptySeq DEF ToSet
<1>2. n \in [Ids(f) -> Nat \ {0}] /\ \A x \in Ids(f) : n[x] = 1
  OBVIOUS
<1>3. s = [root |-> 1, path |-> e, next |-> n, visited |-> {}, cycle |-> e] /\ e = <<>>
  BY DEF FirstState
<1>4. 1 \in 1 .. Len(f) + 1
  BY FlowIs
<1> HIDE DEF s, e, n
<1>5. s \in States(f)
  BY <1>1, <1>2, <1>3, <1>4, StateIs
<1>6. s.root = 1 /\ s.path = e /\ s.next = n /\ s.visited = {} /\ s.cycle = <<>>
  BY <1>3
<1>7. Finished(s) = {}
  BY <1>6 DEF Finished
<1>8. Stacked(f, s) /\ Looked(f, s) /\ Settled(f, Finished(s))
  <2>1. Stacked(f, s)
    BY <1>1, <1>6 DEF Stacked, Once
  <2>2. Looked(f, s)
    BY <1>1, <1>6 DEF Looked
  <2>3. Settled(f, {})
    BY DEF Settled
  <2> QED BY <1>7, <2>1, <2>2, <2>3
<1>9. SearchInv(f, s)
  BY <1>2, <1>5, <1>6, <1>8 DEF SearchInv
<1> QED BY <1>9 DEF s

LEMMA WorkNat ==
  ASSUME NEW f, IsFlow(f), NEW s, SearchInv(f, s)
  PROVE  Work(f, s) \in Nat
<1>1. s \in States(f)
  BY DEF SearchInv
<1>2. /\ Cardinality(s.visited) \in Nat /\ Cardinality(Finished(s)) \in Nat
      /\ Cardinality(Scanned(f, s)) \in Nat
  BY <1>1, WorkIs
<1>3. s.root - 1 \in Nat
  BY <1>1, StateHas, FlowIs
<1> QED BY <1>2, <1>3 DEF Work

LEMMA OverStays ==
  ASSUME NEW f, NEW s, Over(f, s)
  PROVE  Search(f, s) = s
BY DEF Over, Search

(* When all is done that can be done, the search is over.                   *)
LEMMA WorkDone ==
  ASSUME NEW f, IsFlow(f), NEW s, SearchInv(f, s),
         Work(f, s) >= 3 * Len(f) + Cardinality(Listed(f))
  PROVE  Over(f, s)
<1> DEFINE r == s.root
           a == Cardinality(s.visited)
           b == Cardinality(Finished(s))
           c == Cardinality(Scanned(f, s))
           m == Cardinality(Listed(f))
           l == Len(f)
<1>1. s \in States(f)
  BY DEF SearchInv
<1>2. /\ r \in Nat /\ r - 1 <= l /\ l \in Nat /\ s.path \in Seq(Ids(f)) /\ s.visited \in SUBSET Ids(f)
  BY <1>1, StateHas, FlowIs
<1>3. /\ a \in Nat /\ b \in Nat /\ c \in Nat /\ m \in Nat /\ a <= l /\ b <= l /\ c <= m
      /\ b = l => Finished(s) = Ids(f)
  BY <1>1, WorkIs
<1>4. (r - 1) + a + b + c >= 3 * l + m
  BY DEF Work
<1> HIDE DEF r, a, b, c, m, l
<1>5. r > l /\ b = l
  BY <1>2, <1>3, <1>4
<1>6. ASSUME s.path # <<>> PROVE FALSE
  <2>1. ToSet(s.path) \subseteq s.visited /\ Once(s.path)
    BY DEF SearchInv, Stacked
  <2>2. Last(s.path) \in ToSet(s.path)
    BY <1>2, <1>6, <2>1, FrontOnce
  <2> QED BY <1>2, <1>3, <1>5, <2>1, <2>2 DEF Finished
<1> QED BY <1>5, <1>6 DEF Over, r, l

(* And then nothing waits for itself.                                       *)
LEMMA OverIsFree ==
  ASSUME NEW f, IsFlow(f), NEW s, SearchInv(f, s), Over(f, s)
  PROVE  ~Knotted(f)
<1>1. s.path = <<>> /\ s.root > Len(f) /\ s \in States(f)
  BY DEF Over, SearchInv
<1>2. s.visited \in SUBSET Ids(f) /\ s.root \in 1 .. Len(f) + 1 /\ Len(f) \in Nat
  BY <1>1, StateHas, FlowIs
<1>3. Finished(s) = s.visited
  <2>1. ToSet(<<>>) = {}
    BY EmptySeq DEF ToSet
  <2> QED BY <1>1, <2>1 DEF Finished
<1>4. Ids(f) \subseteq s.visited
  <2>1. \A i \in 1 .. Len(f) : i \in 1 .. s.root - 1
    BY <1>1, <1>2
  <2>2. DOMAIN f = 1 .. Len(f)
    BY FlowIs
  <2>3. \A i \in 1 .. s.root - 1 : f[i].id \in s.visited
    BY DEF SearchInv
  <2> QED BY <2>1, <2>2, <2>3 DEF Ids
<1>5. Settled(f, Ids(f))
  <2>1. Settled(f, Finished(s)) /\ Finished(s) = Ids(f)
    BY <1>2, <1>3, <1>4 DEF SearchInv
  <2> QED BY <2>1
<1> QED BY <1>5 DEF Settled, Knotted

(* What holds after i steps of the search.                                  *)
Sought(f, s, i) ==
    \/ s.cycle # <<>> /\ Closed(f, s.cycle)
    \/ SearchInv(f, s) /\ (Over(f, s) \/ Work(f, s) >= i)

LEMMA SoughtOn ==
  ASSUME NEW f, IsFlow(f), UnknownSteps(f) = {}, NEW i \in Nat, NEW s, Sought(f, s, i)
  PROVE  Sought(f, IF s.cycle # <<>> THEN s ELSE Search(f, s), i + 1)
<1> DEFINE t == Search(f, s)
<1>1. CASE s.cycle # <<>>
  <2>1. ~ SearchInv(f, s)
    BY <1>1 DEF SearchInv
  <2>2. Closed(f, s.cycle)
    BY <2>1 DEF Sought
  <2>3. Sought(f, s, i + 1)
    BY <1>1, <2>2 DEF Sought
  <2> QED BY <1>1, <2>3
<1>2. CASE s.cycle = <<>>
  <2>1. SearchInv(f, s) /\ (Over(f, s) \/ Work(f, s) >= i)
    BY <1>2 DEF Sought
  <2>2. \/ Over(f, s) /\ t = s
        \/ SearchInv(f, t) /\ Work(f, t) >= Work(f, s) + 1
        \/ t.cycle # <<>> /\ Closed(f, t.cycle)
    BY <2>1, SearchStep
  <2>3. Over(f, s) => t = s
    BY OverStays
  <2> HIDE DEF t
  <2>4. Sought(f, t, i + 1)
    <3>1. CASE Over(f, s)
      BY <2>1, <2>3, <3>1 DEF Sought
    <3>2. CASE ~ Over(f, s) /\ SearchInv(f, t) /\ Work(f, t) >= Work(f, s) + 1
      <4>1. Work(f, s) \in Nat /\ Work(f, t) \in Nat
        BY <2>1, <3>2, WorkNat
      <4>2. Work(f, t) >= i + 1
        BY <2>1, <3>2, <4>1
      <4> QED BY <3>2, <4>2 DEF Sought
    <3>3. CASE t.cycle # <<>> /\ Closed(f, t.cycle)
      BY <3>3 DEF Sought
    <3> QED BY <2>2, <3>1, <3>2, <3>3
  <2> QED BY <1>2, <2>4 DEF t
<1> QED BY <1>1, <1>2

(* When some steps wait for one another, the search finds steps that do.    *)
LEMMA CycleFound ==
  ASSUME NEW f, IsFlow(f), UnknownSteps(f) = {}, Knotted(f)
  PROVE  Closed(f, FindCycle(f))
<1> DEFINE n == 3 * Len(f) + Cardinality(Listed(f))
           Following(h, i) ==
             IF i = 0 THEN FirstState(f)
             ELSE LET s == h[i - 1] IN IF s.cycle # <<>> THEN s ELSE Search(f, s)
           g == CHOOSE h : h = [i \in 0 .. n |-> Following(h, i)]
<1>1. n \in Nat
  <2>1. SearchInv(f, FirstState(f))
    BY StartSearch
  <2>2. Cardinality(Listed(f)) \in Nat /\ Len(f) \in Nat
    BY <2>1, WorkIs, FlowIs DEF SearchInv
  <2> QED BY <2>2
<1>2. FindCycle(f) = g[n].cycle
  BY DEF FindCycle, FirstState
<1>3. \E h : h = [i \in 0 .. n |-> Following(h, i)]
  <2> HIDE DEF n
  <2>1. PICK h : Searched(h, f, n)
    BY <1>1, SearchesExist
  <2>2. h = [i \in 0 .. n |-> Following(h, i)]
    BY <2>1 DEF Searched
  <2> QED BY <2>2
<1>4. g = [i \in 0 .. n |-> Following(g, i)]
  <2> HIDE DEF n, Following
  <2> QED BY <1>3
<1> HIDE DEF g
<1>5. g[0] = FirstState(f)
  <2> HIDE DEF n
  <2> QED BY <1>1, <1>4
<1>6. \A i \in 1 .. n : g[i] = IF g[i - 1].cycle # <<>> THEN g[i - 1] ELSE Search(f, g[i - 1])
  <2> HIDE DEF n
  <2> TAKE i \in 1 .. n
  <2>1. i \in 0 .. n /\ i # 0
    BY <1>1
  <2>2. g[i] = Following(g, i)
    <3> HIDE DEF Following
    <3> QED BY <1>4, <2>1
  <2> QED BY <2>1, <2>2
<1> HIDE DEF n
<1> DEFINE T == {i \in 0 .. n : ~ Sought(f, g[i], i)}
<1>7. ASSUME T # {} PROVE FALSE
  <2>1. PICK k \in T : \A m \in T : k <= m
    <3>1. T \subseteq Nat
      BY <1>1
    <3> HIDE DEF T
    <3> QED BY <1>7, <3>1, Least
  <2>2. k \in 0 .. n /\ k \in Nat /\ ~ Sought(f, g[k], k)
    BY <1>1, <2>1
  <2>3. k # 0
    <3>1. SearchInv(f, FirstState(f)) /\ Work(f, FirstState(f)) \in Nat
      BY StartSearch, WorkNat
    <3>2. Sought(f, FirstState(f), 0)
      BY <3>1 DEF Sought
    <3> QED BY <1>5, <2>2, <3>2
  <2> DEFINE j == k - 1
  <2>4. j \in 0 .. n /\ j \notin T /\ k \in 1 .. n /\ j \in Nat /\ j + 1 = k
    BY <1>1, <2>1, <2>2, <2>3
  <2>5. Sought(f, g[j], j)
    BY <2>4
  <2>6. g[k] = IF g[j].cycle # <<>> THEN g[j] ELSE Search(f, g[j])
    BY <1>6, <2>4
  <2> HIDE DEF j
  <2>7. Sought(f, g[k], j + 1)
    <3>1. Sought(f, IF g[j].cycle # <<>> THEN g[j] ELSE Search(f, g[j]), j + 1)
      BY <2>4, <2>5, SoughtOn
    <3> QED BY <2>6, <3>1
  <2> QED BY <2>2, <2>4, <2>7
<1>8. Sought(f, g[n], n)
  BY <1>1, <1>7
<1>9. Closed(f, g[n].cycle)
  <2> DEFINE s == g[n]
  <2>1. Sought(f, s, n)
    BY <1>8
  <2> HIDE DEF s
  <2> SUFFICES ASSUME ~ Closed(f, s.cycle) PROVE FALSE
    BY DEF s
  <2>2. SearchInv(f, s) /\ (Over(f, s) \/ Work(f, s) >= n)
    BY <2>1 DEF Sought
  <2>3. Over(f, s)
    BY <2>2, WorkDone DEF n
  <2> QED BY <2>2, <2>3, OverIsFree
<1> QED BY <1>2, <1>9

(* What is said of a flow that is refused is right as well.                 *)
LEMMA AnswerIsRight ==
  ASSUME NEW f, IsFlow(f)
  PROVE  RightAnswer(f, ValidateDag(f))
<1>1. AcceptedRight(f, ValidateDag(f))
  BY AcceptsRightly
<1>2. ASSUME UnknownSteps(f) = {}, ~ ValidateDag(f).ok
      PROVE  Closed(f, ValidateDag(f).cycle)
  <2>1. Knotted(f)
    BY <1>1, <1>2 DEF AcceptedRight
  <2>2. ValidateDag(f).cycle = FindCycle(f)
    BY <1>2 DEF ValidateDag
  <2> QED BY <1>2, <2>1, <2>2, CycleFound
<1> QED BY <1>1, <1>2 DEF RightAnswer

USE DEF disk, Nobody, flow, Order, Steps, Go

----------------------------------------------------------------------------
(* Facts about the constants and the order.                                *)

LEMMA CurrentId ==
  ASSUME NEW f, NEW id \in Ids(f)
  PROVE  StepOf(f, id).id = id
BY DEF Ids, StepOf

(* The flow is one of the scenes', and the answer about it right.          *)
DagInv == scene \in Scenes /\ dag = ValidateDag(flow)

LEMMA StepDag == DagInv /\ [Next]_vars => DagInv'
<1> SUFFICES ASSUME DagInv, [Next]_vars PROVE DagInv'
  OBVIOUS
<1>1. UNCHANGED <<scene, dag>>
  BY ZenonT(30) DEF Next, vars, RunStep, Reject, PickName, MakeLayout, Launch, BeginStep, AgentAnswers,
         ModelAnswers, CommandExits, ConversationEnds, Returns, WriteContent, WriteMeta,
         PostComment, WriteManifest, StepFails, Crash, Cancel, PlanPurge, AnswerPurge
<1> QED BY <1>1 DEF DagInv

LEMMA OrderFacts ==
  ASSUME DagInv, dag.ok
  PROVE  /\ ~Knotted(flow)
         /\ Order \in Seq(Steps) /\ Len(Order) \in Nat /\ DOMAIN Order = 1 .. Len(Order)
         /\ ToSet(Order) = Steps
         /\ \A i \in 1 .. Len(Order) : Order[i] \in Steps
         /\ \A i, j \in 1 .. Len(Order) : Order[i] = Order[j] => i = j
         /\ \A i \in 1 .. Len(Order) :
               Deps(flow, Order[i]) \cup ToSet(StepOf(flow, Order[i]).input)
                   \subseteq {Order[j] : j \in 1 .. i - 1}
<1>1. AcceptedRight(flow, dag)
  BY FlowsAssumption, AcceptsRightly DEF DagInv
<1>2. InOrder(flow, dag.order) /\ ~Knotted(flow)
  BY <1>1 DEF AcceptedRight
<1>3. Order \in Seq(Steps) /\ Len(Order) \in Nat /\ DOMAIN Order = 1 .. Len(Order)
  BY <1>2, LenProperties DEF InOrder
<1>4. \A i \in 1 .. Len(Order) : Order[i] \in Steps
  BY <1>3, ElementOfSeq
<1> QED BY <1>2, <1>3, <1>4 DEF InOrder

----------------------------------------------------------------------------
(* Type correctness.                                                       *)

Begun == {"step", "working", "body", "meta", "post", "starved", "done"}
At == {"working", "body", "meta", "post"}

GivenInv == ctx = [r \in Runs |-> ctx[r]]

(* Where a run has a name, how far it is in the order, and what it lists.   *)
PlaceInv ==
    /\ GivenInv
    /\ \A r \in Runs : pc[r] \in {"absent", "idle"} => dir[r] = 0
    /\ \A r \in Runs : dir[r] = 0 => pc[r] \in {"absent", "idle", "failed"}
    /\ \A r \in Runs : dir[r] # 0 => dag.ok
    /\ dirs \subseteq {dir[r] : r \in Runs} \ {0}
    /\ \A r \in Runs : Len(results[r]) = num[r] - 1
    /\ \A r \in Runs : dir[r] # 0 => num[r] <= Len(Order) + 1
    /\ \A r \in Runs : pc[r] \in At => num[r] <= Len(Order)
    /\ \A r \in Runs : pc[r] = "done" => num[r] = Len(Order) + 1
    /\ \A r \in Runs : pc[r] \in Begun =>
          \A i \in 1 .. num[r] - 1 : results[r][i] = Order[i]
    /\ \A r \in Runs : pc[r] \in {"absent", "idle", "named", "spawned"} => num[r] = 1

TypeInv == DagInv /\ TypeOK /\ PlaceInv

\* There is a free name for a run that has none.
LEMMA NameLeft ==
  ASSUME TypeInv, NEW r \in Runs, dir[r] = 0
  PROVE  FreeName \in Names \ dirs
<1>1. Names \ dirs # {}
  <2> SUFFICES ASSUME Names \subseteq dirs PROVE FALSE
    OBVIOUS
  <2> DEFINE Others == Runs \ {r}
  <2>1. IsFiniteSet(Runs) /\ Cardinality(Runs) \in Nat /\ IsFiniteSet(Others)
        /\ Cardinality(Others) = Cardinality(Runs) - 1 /\ Cardinality(Others) \in Nat
    BY RunsAssumption, FS_CardinalityType, FS_RemoveElement, FS_Subset
  <2>2. \A d \in Names : \E q \in Others : dir[q] = d
    BY DEF TypeInv, PlaceInv, Names
  <2> DEFINE f == [d \in Names |-> CHOOSE q \in Others : dir[q] = d]
  <2>3. \A d \in Names : f[d] \in Others /\ dir[f[d]] = d
    BY <2>2
  <2>4. f \in Injection(Names, Others)
    BY <2>3 DEF Injection, IsInjective
  <2>5. Cardinality(Names) <= Cardinality(Others)
    BY <2>1, <2>4, FS_Injection
  <2>6. Cardinality(Names) = Cardinality(Runs)
    BY <2>1, FS_Interval DEF Names
  <2> QED BY <2>1, <2>5, <2>6
<1>2. Names \ dirs \subseteq Nat
  BY DEF Names
<1>3. \E n \in Names \ dirs : \A m \in Names \ dirs : n <= m
  BY <1>1, <1>2, Least
<1> QED BY <1>3 DEF FreeName

LEMMA InitTypes == Init => TypeInv
<1> SUFFICES ASSUME Init PROVE TypeInv
  OBVIOUS
<1>1. \A r \in Runs : pc[r] \in {"idle", "absent"} /\ dir[r] = 0 /\ num[r] = 1
                      /\ results[r] = <<>> /\ ctx[r] = <<>>
  BY DEF Init
<1>2. results \in [Runs -> Seq(Steps)]
      /\ manifest \in [Names -> [by : Runs \cup {Nobody}, steps : Seq(Steps)]]
  BY EmptySeq DEF Init, NoManifest
<1>3. \A r \in Runs : ToSet(ctx[r]) \subseteq Bodies
  BY <1>1, EmptySeq DEF ToSet
<1>4. NoBody \in Bodies
  BY DEF Bodies
<1>5. content \in [Names -> [Steps -> Bodies]]
  BY <1>4 DEF Init
<1>6. TypeOK
  BY <1>1, <1>2, <1>3, <1>5 DEF Init, TypeOK, Ended
<1>7. PlaceInv
  BY <1>1, EmptySeq DEF Init, PlaceInv, GivenInv, Begun, At
<1>8. DagInv
  BY DEF Init, DagInv
<1> QED BY <1>6, <1>7, <1>8 DEF TypeInv

\* A step that only moves a task on, or ends it.
LEMMA MovesTypes ==
  ASSUME TypeInv, NEW r \in Runs, NEW l,
         (l = "failed" /\ pc[r] # "absent") \/ (l = "body" /\ pc[r] = "working"),
         Go(r, l),
         UNCHANGED <<scene, dag, dir, num, ctx, results, cancel, disk, posts, purge, twins>>
  PROVE  TypeInv'
<1>1. pc' \in [Runs -> {"idle", "named", "spawned", "step", "working", "body", "meta",
                        "post"} \cup Ended]
  BY DEF TypeInv, TypeOK, Ended
<1>2. TypeOK'
  BY <1>1 DEF TypeInv, TypeOK, Bodies, Names
<1>3. \A q \in Runs : pc'[q] = IF q = r THEN l ELSE pc[q]
  BY DEF TypeInv, TypeOK
<1>4. PlaceInv'
  BY <1>3 DEF TypeInv, PlaceInv, GivenInv, Begun, At
<1>5. DagInv'
  BY DEF TypeInv, DagInv
<1> QED BY <1>2, <1>4, <1>5 DEF TypeInv

LEMMA CancelTypes ==
  ASSUME TypeInv, NEW r \in Runs, Cancel(r)
  PROVE  TypeInv'
<1>1. TypeOK'
  BY DEF Cancel, TypeInv, TypeOK, Bodies, Names
<1>2. PlaceInv'
  BY DEF Cancel, TypeInv, PlaceInv, GivenInv, Begun, At
<1>3. DagInv'
  BY DEF Cancel, TypeInv, DagInv
<1> QED BY <1>1, <1>2, <1>3 DEF TypeInv

LEMMA PickNameTypes ==
  ASSUME TypeInv, NEW r \in Runs, PickName(r)
  PROVE  TypeInv'
<1>0. dir[r] = 0 /\ FreeName \in Names \ dirs
  BY NameLeft DEF PickName, TypeInv, PlaceInv
<1>1. PICK n \in Names \ dirs : n = FreeName
  BY <1>0
<1>2. dir' = [dir EXCEPT ![r] = n] /\ pc' = [pc EXCEPT ![r] = "named"] /\ pc[r] = "idle" /\ dag.ok
      /\ UNCHANGED <<scene, dag, num, ctx, results, cancel, disk, posts, purge>>
  BY <1>1 DEF PickName
<1>3. twins' \subseteq Runs
  BY DEF PickName, TypeInv, TypeOK
<1>4. TypeOK'
  BY <1>2, <1>3 DEF TypeInv, TypeOK, Bodies, Names, Ended
<1>5. /\ \A q \in Runs : q # r => pc'[q] = pc[q] /\ dir'[q] = dir[q]
      /\ pc'[r] = "named" /\ dir'[r] = n /\ n # 0 /\ n \notin dirs
  BY <1>2 DEF TypeInv, TypeOK, Names
<1>6. dirs \subseteq {dir'[q] : q \in Runs} \ {0}
  <2>1. \A d \in dirs : \E q \in Runs : q # r /\ dir[q] = d
    BY <1>0 DEF TypeInv, PlaceInv, GivenInv
  <2> QED BY <2>1, <1>5 DEF TypeInv, PlaceInv
<1>7. PlaceInv'
  BY <1>2, <1>5, <1>6 DEF TypeInv, PlaceInv, GivenInv, Begun, At
<1>8. DagInv'
  BY <1>2 DEF TypeInv, DagInv
<1> QED BY <1>4, <1>7, <1>8 DEF TypeInv

\* The directory of a run past its setup is one of the names.
LEMMA OwnDir ==
  ASSUME TypeInv, NEW r \in Runs, pc[r] \notin {"absent", "idle", "failed"}
  PROVE  dir[r] \in Names /\ dir[r] # 0 /\ dag.ok
BY DEF TypeInv, TypeOK, PlaceInv, Names

LEMMA MakeLayoutTypes ==
  ASSUME TypeInv, NEW r \in Runs, MakeLayout(r)
  PROVE  TypeInv'
<1>1. dir[r] \in Names /\ dir[r] # 0
  BY OwnDir DEF MakeLayout
<1>2. TypeOK'
  <2>1. PICK by \in Runs \cup {Nobody} : audit' = [audit EXCEPT ![dir[r]] = by]
    BY <1>1 DEF MakeLayout, TypeInv, TypeOK
  <2>2. audit' \in [Names -> Runs \cup {Nobody}]
    BY <2>1 DEF TypeInv, TypeOK
  <2> QED BY <1>1, <2>2 DEF MakeLayout, TypeInv, TypeOK, Bodies, Names, Ended
<1>3. /\ \A q \in Runs : q # r => pc'[q] = pc[q]
      /\ pc'[r] = "spawned" /\ pc[r] = "named"
  BY DEF MakeLayout, TypeInv, TypeOK
<1>4. PlaceInv'
  BY <1>1, <1>3 DEF MakeLayout, TypeInv, PlaceInv, GivenInv, Begun, At
<1>5. DagInv'
  BY DEF MakeLayout, TypeInv, DagInv
<1> QED BY <1>2, <1>4, <1>5 DEF TypeInv

LEMMA LaunchTypes ==
  ASSUME TypeInv, NEW r \in Runs, Launch(r)
  PROVE  TypeInv'
<1>1. dir[r] \in Names /\ dir[r] # 0 /\ dag.ok
  BY OwnDir DEF Launch
<1>2. Len(Order) \in Nat
  BY <1>1, OrderFacts DEF TypeInv
<1>3. PICK l \in {"failed", "step"} : pc' = [pc EXCEPT ![r] = l]
  BY DEF Launch
<1>4. dirs' = dirs \/ dirs' = dirs \cup {dir[r]}
  BY DEF Launch
<1>5. TypeOK'
  BY <1>1, <1>3, <1>4 DEF Launch, TypeInv, TypeOK, Bodies, Names, Ended
<1>6. /\ \A q \in Runs : q # r => pc'[q] = pc[q]
      /\ pc'[r] = l /\ pc[r] = "spawned"
  BY <1>3 DEF Launch, TypeInv, TypeOK
<1>7. num[r] = 1
  BY <1>6 DEF TypeInv, PlaceInv
<1>8. PlaceInv'
  BY <1>1, <1>2, <1>4, <1>6, <1>7 DEF Launch, TypeInv, PlaceInv, GivenInv, Begun, At
<1>9. DagInv'
  BY DEF Launch, TypeInv, DagInv
<1> QED BY <1>5, <1>8, <1>9 DEF TypeInv

\* What a run stands at is a step of the flow, and its inputs are earlier ones.
LEMMA CurrentFacts ==
  ASSUME TypeInv, NEW r \in Runs, pc[r] \notin {"absent", "idle", "failed"},
         num[r] <= Len(Order)
  PROVE  /\ num[r] \in 1 .. Len(Order) /\ Current(r).id = Order[num[r]] /\ Current(r).id \in Steps
         /\ ToSet(Current(r).input) \cup Deps(flow, Current(r).id)
               \subseteq {Order[j] : j \in 1 .. num[r] - 1}
         /\ ToSet(Current(r).input) \subseteq Steps
<1>1. dag.ok
  BY OwnDir
<1>2. num[r] \in Nat \ {0} /\ Len(Order) \in Nat
  BY <1>1, OrderFacts DEF TypeInv, TypeOK
<1>3. num[r] \in 1 .. Len(Order)
  BY <1>2
<1>4. Order[num[r]] \in Steps
  BY <1>1, <1>3, OrderFacts DEF TypeInv
<1>5. Current(r).id = Order[num[r]]
  BY <1>4, CurrentId DEF Current
<1>6. ToSet(Current(r).input) \cup Deps(flow, Current(r).id)
               \subseteq {Order[j] : j \in 1 .. num[r] - 1}
  BY <1>1, <1>3, <1>5, OrderFacts DEF TypeInv, Current
<1>7. \A j \in 1 .. num[r] - 1 : Order[j] \in Steps
  BY <1>1, <1>3, OrderFacts DEF TypeInv
<1> QED BY <1>3, <1>4, <1>5, <1>6, <1>7

LEMMA BeginStepTypes ==
  ASSUME TypeInv, NEW r \in Runs, BeginStep(r)
  PROVE  TypeInv'
<1>1. dir[r] \in Names /\ dir[r] # 0 /\ dag.ok
  BY OwnDir DEF BeginStep
<1>2. num[r] <= Len(Order) /\ Current(r).id \in Steps /\ ToSet(Current(r).input) \subseteq Steps
  BY CurrentFacts DEF BeginStep
<1>3. PICK l \in {"starved", "working"} : pc' = [pc EXCEPT ![r] = l]
  BY DEF BeginStep
<1>4. dirs' = dirs \/ dirs' = dirs \cup {dir[r]}
  BY DEF BeginStep
<1>5. content' = content \/ content' = [content EXCEPT ![dir[r]][Current(r).id] = Torn(r)]
  BY DEF BeginStep
<1>6. content' \in [Names -> [Steps -> Bodies]]
  <2>1. Torn(r) \in Bodies
    BY DEF Bodies
  <2>2. content \in [Names -> [Steps -> Bodies]]
    BY DEF TypeInv, TypeOK
  <2> HIDE DEF Steps
  <2> QED BY <1>1, <1>2, <1>5, <2>1, <2>2
<1>0. \/ UNCHANGED ctx
      \/ \E given : ctx' = [ctx EXCEPT ![r] = given]
                    /\ given \in {<<>>, [k \in DOMAIN Current(r).input |->
                                              content[dir[r]][Current(r).input[k]]]}
  BY DEF BeginStep
<1>7. \A q \in Runs : ToSet(ctx'[q]) \subseteq Bodies
  <2>1. \A q \in Runs : q # r => ctx'[q] = ctx[q]
    BY <1>0 DEF TypeInv, PlaceInv, GivenInv
  <2>2. ctx'[r] = ctx[r] \/ ctx'[r] = <<>>
        \/ ctx'[r] = [k \in DOMAIN Current(r).input |-> content[dir[r]][Current(r).input[k]]]
    BY <1>0 DEF TypeInv, PlaceInv, GivenInv
  <2>3. \A k \in DOMAIN Current(r).input : Current(r).input[k] \in Steps
    BY <1>2 DEF ToSet
  <2>4. \A s \in Steps : content[dir[r]][s] \in Bodies
    <3> HIDE DEF Steps
    <3> QED BY <1>1 DEF TypeInv, TypeOK
  <2>5. ToSet([k \in DOMAIN Current(r).input |-> content[dir[r]][Current(r).input[k]]]) \subseteq Bodies
    BY <2>3, <2>4 DEF ToSet
  <2>6. ToSet(<< >>) \subseteq Bodies
    BY EmptySeq DEF ToSet
  <2> QED BY <2>1, <2>2, <2>5, <2>6 DEF TypeInv, TypeOK
<1>8. /\ \A q \in Runs : q # r => pc'[q] = pc[q]
      /\ pc'[r] = l /\ pc[r] = "step"
  BY <1>3 DEF BeginStep, TypeInv, TypeOK
<1>9. pc' \in [Runs -> {"idle", "named", "spawned", "step", "working", "body", "meta",
                        "post"} \cup Ended]
  BY <1>3 DEF TypeInv, TypeOK, Ended
<1>10. UNCHANGED <<scene, dag, dir, num, results, cancel, meta, manifest, audit, posts, purge, twins>>
  BY DEF BeginStep
<1>11. TypeOK'
  BY <1>1, <1>4, <1>6, <1>7, <1>9, <1>10 DEF TypeInv, TypeOK, Bodies, Names
<1>12. PlaceInv'
  <2>1. GivenInv'
    <3>1. ctx = [q \in Runs |-> ctx[q]]
      BY DEF TypeInv, PlaceInv, GivenInv
    <3>2. ASSUME NEW given, ctx' = [ctx EXCEPT ![r] = given]
          PROVE  ctx' = [q \in Runs |-> ctx'[q]]
      BY <3>1, <3>2
    <3> QED BY <1>0, <3>1, <3>2 DEF GivenInv
  <2> QED BY <1>1, <1>2, <1>4, <1>8, <1>10, <2>1 DEF TypeInv, PlaceInv, Begun, At
<1>13. DagInv'
  BY <1>10 DEF TypeInv, DagInv
<1> QED BY <1>11, <1>12, <1>13 DEF TypeInv

LEMMA WriteContentTypes ==
  ASSUME TypeInv, NEW r \in Runs, WriteContent(r)
  PROVE  TypeInv'
<1>1. dir[r] \in Names /\ dir[r] # 0 /\ dag.ok /\ pc[r] = "body"
  BY OwnDir DEF WriteContent
<1>2. num[r] <= Len(Order)
  BY <1>1 DEF TypeInv, PlaceInv, At
<1>3. Current(r).id \in Steps
  BY <1>1, <1>2, CurrentFacts
<1>4. content' \in [Names -> [Steps -> Bodies]]
  <2>1. Body(r) \in Bodies
    BY DEF Bodies
  <2>2. content \in [Names -> [Steps -> Bodies]]
    BY DEF TypeInv, TypeOK
  <2>3. content' = [content EXCEPT ![dir[r]][Current(r).id] = Body(r)]
    BY DEF WriteContent
  <2> HIDE DEF Steps
  <2> QED BY <1>1, <1>3, <2>1, <2>2, <2>3
<1>5. pc' = [pc EXCEPT ![r] = "meta"] /\ dirs' = dirs \cup {dir[r]}
      /\ UNCHANGED <<scene, dag, dir, num, ctx, results, cancel, meta, manifest, audit, posts,
                     purge, twins>>
  BY DEF WriteContent
<1>6. TypeOK'
  BY <1>1, <1>4, <1>5 DEF TypeInv, TypeOK, Bodies, Names, Ended
<1>7. /\ \A q \in Runs : q # r => pc'[q] = pc[q]
      /\ pc'[r] = "meta"
  BY <1>5 DEF TypeInv, TypeOK
<1>8. PlaceInv'
  BY <1>1, <1>2, <1>5, <1>7 DEF TypeInv, PlaceInv, GivenInv, Begun, At
<1>9. DagInv'
  BY <1>5 DEF TypeInv, DagInv
<1> QED BY <1>6, <1>8, <1>9 DEF TypeInv

\* A step is over: its id joins the results and the loop goes on.
LEMMA StepOver ==
  ASSUME TypeInv, NEW r \in Runs, pc[r] \in {"meta", "post"},
         pc' = [pc EXCEPT ![r] = "step"],
         num' = [num EXCEPT ![r] = @ + 1],
         results' = [results EXCEPT ![r] = Append(@, Current(r).id)],
         UNCHANGED <<scene, dag, dir, ctx, dirs>>
  PROVE  /\ num' \in [Runs -> Nat \ {0}] /\ results' \in [Runs -> Seq(Steps)]
         /\ PlaceInv'
<1>1. dir[r] \in Names /\ dir[r] # 0 /\ dag.ok
  BY OwnDir
<1>2. num[r] <= Len(Order)
  BY DEF TypeInv, PlaceInv, At
<1>3. Current(r).id \in Steps /\ Current(r).id = Order[num[r]] /\ num[r] \in 1 .. Len(Order)
  BY <1>2, CurrentFacts
<1>4. /\ \A q \in Runs : q # r => pc'[q] = pc[q] /\ num'[q] = num[q] /\ results'[q] = results[q]
      /\ pc'[r] = "step" /\ num'[r] = num[r] + 1 /\ results'[r] = Append(results[r], Current(r).id)
  BY DEF TypeInv, TypeOK
<1>5. results[r] \in Seq(Steps) /\ Len(results[r]) = num[r] - 1
  BY DEF TypeInv, TypeOK, PlaceInv
<1>6. /\ results'[r] \in Seq(Steps) /\ Len(results'[r]) = num[r]
      /\ \A i \in 1 .. num[r] - 1 : results'[r][i] = results[r][i]
      /\ results'[r][num[r]] = Order[num[r]]
  <2> HIDE DEF Steps
  <2> DEFINE e == Current(r).id
  <2>1. e \in Steps
    BY <1>3
  <2> HIDE DEF e
  <2>2. /\ Append(results[r], e) \in Seq(Steps)
        /\ Len(Append(results[r], e)) = Len(results[r]) + 1
        /\ \A i \in 1 .. Len(results[r]) : Append(results[r], e)[i] = results[r][i]
        /\ Append(results[r], e)[Len(results[r]) + 1] = e
    BY <1>5, <2>1, AppendProperties
  <2>3. results'[r] = Append(results[r], e) /\ e = Order[num[r]]
    BY <1>3, <1>4 DEF e
  <2> QED BY <1>3, <1>5, <2>2, <2>3
<1>7. num' \in [Runs -> Nat \ {0}]
  BY <1>3 DEF TypeInv, TypeOK
<1>8. results' \in [Runs -> Seq(Steps)]
  <2> HIDE DEF Steps
  <2> QED BY <1>4, <1>6 DEF TypeInv, TypeOK
<1>9. \A i \in 1 .. num[r] - 1 : results[r][i] = Order[i]
  BY DEF TypeInv, PlaceInv, Begun
<1>10. \A i \in 1 .. num'[r] - 1 : results'[r][i] = Order[i]
  BY <1>3, <1>4, <1>6, <1>9
<1>11. Len(Order) \in Nat
  BY <1>1, OrderFacts DEF TypeInv
<1>12. \A q \in Runs : Len(results'[q]) = num'[q] - 1
  BY <1>3, <1>4, <1>6 DEF TypeInv, PlaceInv
<1>13. /\ \A q \in Runs : dir'[q] # 0 => num'[q] <= Len(Order) + 1
       /\ \A q \in Runs : pc'[q] \in At => num'[q] <= Len(Order)
       /\ \A q \in Runs : pc'[q] = "done" => num'[q] = Len(Order) + 1
       /\ \A q \in Runs : pc'[q] \in {"absent", "idle", "named", "spawned"} => num'[q] = 1
  BY <1>1, <1>3, <1>4, <1>11 DEF TypeInv, PlaceInv, GivenInv, Begun, At
<1>14. \A q \in Runs : pc'[q] \in Begun =>
          \A i \in 1 .. num'[q] - 1 : results'[q][i] = Order[i]
  <2> SUFFICES ASSUME NEW q \in Runs, pc'[q] \in Begun
               PROVE  \A i \in 1 .. num'[q] - 1 : results'[q][i] = Order[i]
    OBVIOUS
  <2>1. CASE q = r
    BY <1>10, <2>1
  <2>2. CASE q # r
    BY <1>4, <2>2 DEF TypeInv, PlaceInv
  <2> QED BY <2>1, <2>2
<1>15. PlaceInv'
  BY <1>1, <1>4, <1>12, <1>13, <1>14 DEF TypeInv, PlaceInv, GivenInv
<1> QED BY <1>7, <1>8, <1>15

LEMMA WriteMetaTypes ==
  ASSUME TypeInv, NEW r \in Runs, WriteMeta(r)
  PROVE  TypeInv'
<1>1. dir[r] \in Names /\ dir[r] # 0 /\ dag.ok /\ pc[r] = "meta"
  BY OwnDir DEF WriteMeta
<1>2. num[r] <= Len(Order)
  BY <1>1 DEF TypeInv, PlaceInv, At
<1>3. Current(r).id \in Steps
  BY <1>1, <1>2, CurrentFacts
<1>4. meta' \in [Names -> [Steps -> Runs \cup {Nobody}]]
  <2>1. meta' = meta \/ meta' = [meta EXCEPT ![dir[r]][Current(r).id] = r]
    BY DEF WriteMeta
  <2>2. meta \in [Names -> [Steps -> Runs \cup {Nobody}]]
    BY DEF TypeInv, TypeOK
  <2> HIDE DEF Steps
  <2> QED BY <1>1, <1>3, <2>1, <2>2
<1>5. UNCHANGED <<scene, dag, dir, ctx, cancel, dirs, content, manifest, audit, posts, purge, twins>>
  BY DEF WriteMeta
<1>6. DagInv'
  BY <1>5 DEF TypeInv, DagInv
<1>7. CASE /\ pc' = [pc EXCEPT ![r] = "step"]
           /\ num' = [num EXCEPT ![r] = @ + 1]
           /\ results' = [results EXCEPT ![r] = Append(@, Current(r).id)]
  <2>1. num' \in [Runs -> Nat \ {0}] /\ results' \in [Runs -> Seq(Steps)] /\ PlaceInv'
    BY <1>1, <1>5, <1>7, StepOver
  <2>2. pc' \in [Runs -> {"idle", "named", "spawned", "step", "working", "body", "meta",
                          "post"} \cup Ended]
    BY <1>7 DEF TypeInv, TypeOK
  <2>3. TypeOK'
    BY <1>4, <1>5, <2>1, <2>2 DEF TypeInv, TypeOK, Bodies, Names
  <2> QED BY <1>6, <2>1, <2>3 DEF TypeInv
<1>8. CASE /\ pc' = [pc EXCEPT ![r] = "failed"] \/ pc' = [pc EXCEPT ![r] = "post"]
           /\ UNCHANGED <<num, results>>
  <2>1. pc' \in [Runs -> {"idle", "named", "spawned", "step", "working", "body", "meta",
                          "post"} \cup Ended]
    BY <1>8 DEF TypeInv, TypeOK, Ended
  <2>2. TypeOK'
    BY <1>4, <1>5, <1>8, <2>1 DEF TypeInv, TypeOK, Bodies, Names
  <2>3. /\ \A q \in Runs : q # r => pc'[q] = pc[q]
        /\ pc'[r] \in {"failed", "post"}
    BY <1>8 DEF TypeInv, TypeOK
  <2>4. PlaceInv'
    BY <1>1, <1>2, <1>5, <1>8, <2>3 DEF TypeInv, PlaceInv, GivenInv, Begun, At
  <2> QED BY <1>6, <2>2, <2>4 DEF TypeInv
<1> QED BY <1>7, <1>8 DEF WriteMeta

LEMMA PostCommentTypes ==
  ASSUME TypeInv, NEW r \in Runs, PostComment(r)
  PROVE  TypeInv'
<1>1. pc[r] = "post" /\ num[r] <= Len(Order)
  BY DEF PostComment, TypeInv, PlaceInv, At
<1>2. Current(r).id \in Steps
  BY <1>1, CurrentFacts
<1>3. posts' \subseteq Runs \X Steps
  BY <1>2 DEF PostComment, TypeInv, TypeOK
<1>4. num' \in [Runs -> Nat \ {0}] /\ results' \in [Runs -> Seq(Steps)] /\ PlaceInv'
  BY <1>1, StepOver DEF PostComment
<1>5. pc' \in [Runs -> {"idle", "named", "spawned", "step", "working", "body", "meta",
                        "post"} \cup Ended]
  BY DEF PostComment, TypeInv, TypeOK
<1>6. UNCHANGED <<scene, dag, dir, ctx, cancel, disk, purge, twins>>
  BY DEF PostComment
<1>7. TypeOK'
  BY <1>3, <1>4, <1>5, <1>6 DEF TypeInv, TypeOK, Bodies, Names
<1> QED BY <1>4, <1>6, <1>7 DEF TypeInv, DagInv

LEMMA WriteManifestTypes ==
  ASSUME TypeInv, NEW r \in Runs, WriteManifest(r)
  PROVE  TypeInv' /\ num[r] = Len(Order) + 1
<1>1. dir[r] \in Names /\ dir[r] # 0 /\ dag.ok /\ pc[r] = "step"
  BY OwnDir DEF WriteManifest
<1>2. num[r] \in Nat /\ Len(Order) \in Nat
  BY <1>1, OrderFacts DEF TypeInv, TypeOK
<1>3. num[r] = Len(Order) + 1
  <2>1. num[r] > Len(Order)
    BY DEF WriteManifest
  <2>2. num[r] <= Len(Order) + 1
    BY <1>1 DEF TypeInv, PlaceInv
  <2> QED BY <1>2, <2>1, <2>2
<1>4. pc' = [pc EXCEPT ![r] = "done"] /\ dirs' = dirs \cup {dir[r]}
      /\ UNCHANGED <<scene, dag, dir, num, ctx, results, cancel, content, meta, audit, posts,
                     purge, twins>>
  BY DEF WriteManifest
<1>5. manifest' \in [Names -> [by : Runs \cup {Nobody}, steps : Seq(Steps)]]
  <2>1. [by |-> r, steps |-> results[r]] \in [by : Runs \cup {Nobody}, steps : Seq(Steps)]
    <3> HIDE DEF Steps
    <3> QED BY DEF TypeInv, TypeOK
  <2>2. manifest' = [manifest EXCEPT ![dir[r]] = [by |-> r, steps |-> results[r]]]
    BY DEF WriteManifest
  <2>3. manifest \in [Names -> [by : Runs \cup {Nobody}, steps : Seq(Steps)]]
    BY DEF TypeInv, TypeOK
  <2> QED BY <2>1, <2>2, <2>3
<1>6. TypeOK'
  BY <1>1, <1>4, <1>5 DEF TypeInv, TypeOK, Bodies, Names, Ended
<1>7. /\ \A q \in Runs : q # r => pc'[q] = pc[q]
      /\ pc'[r] = "done"
  BY <1>4 DEF TypeInv, TypeOK
<1>8. PlaceInv'
  BY <1>1, <1>3, <1>4, <1>7 DEF TypeInv, PlaceInv, GivenInv, Begun, At
<1> QED BY <1>3, <1>4, <1>6, <1>8 DEF TypeInv, DagInv

LEMMA PurgeTypes ==
  ASSUME TypeInv, PlanPurge \/ AnswerPurge
  PROVE  TypeInv'
<1>1. NoBody \in Bodies /\ NoManifest \in [by : Runs \cup {Nobody}, steps : Seq(Steps)]
  BY EmptySeq DEF Bodies, NoManifest
<1>2. UNCHANGED <<scene, dag, pc, dir, num, ctx, results, cancel, posts, twins>>
      /\ purge' \in {"idle", "asked", "purged"}
  BY DEF PlanPurge, AnswerPurge
<1>3. CASE UNCHANGED disk
  <2>1. TypeOK'
    BY <1>2, <1>3 DEF TypeInv, TypeOK, Bodies, Names
  <2>2. PlaceInv'
    BY <1>2, <1>3 DEF TypeInv, PlaceInv, GivenInv, Begun, At
  <2> QED BY <1>2, <2>1, <2>2 DEF TypeInv, DagInv
<1>4. CASE /\ dirs' = {}
           /\ content' = [d \in Names |-> [s \in Steps |-> NoBody]]
           /\ meta' = [d \in Names |-> [s \in Steps |-> Nobody]]
           /\ manifest' = [d \in Names |-> NoManifest]
           /\ audit' = [d \in Names |-> Nobody]
  <2>1. content' \in [Names -> [Steps -> Bodies]]
    BY <1>1, <1>4
  <2>2. manifest' \in [Names -> [by : Runs \cup {Nobody}, steps : Seq(Steps)]]
    BY <1>1, <1>4
  <2>3. meta' \in [Names -> [Steps -> Runs \cup {Nobody}]]
        /\ audit' \in [Names -> Runs \cup {Nobody}]
    BY <1>4
  <2>4. TypeOK'
    BY <1>2, <1>4, <2>1, <2>2, <2>3 DEF TypeInv, TypeOK, Bodies, Names
  <2>5. PlaceInv'
    BY <1>2, <1>4 DEF TypeInv, PlaceInv, GivenInv, Begun, At
  <2> QED BY <1>2, <2>4, <2>5 DEF TypeInv, DagInv
<1> QED BY <1>3, <1>4 DEF PlanPurge, AnswerPurge

LEMMA StepTypes == TypeInv /\ [Next]_vars => TypeInv'
<1> SUFFICES ASSUME TypeInv, [Next]_vars PROVE TypeInv'
  OBVIOUS
<1>1. CASE UNCHANGED vars
  <2>1. TypeOK'
    BY <1>1 DEF vars, TypeInv, TypeOK, Bodies, Names
  <2>2. PlaceInv'
    BY <1>1 DEF vars, TypeInv, PlaceInv, GivenInv, Begun, At
  <2> QED BY <1>1, <2>1, <2>2 DEF vars, TypeInv, DagInv
<1>2. CASE PlanPurge \/ AnswerPurge
  BY <1>2, PurgeTypes
<1>3. ASSUME NEW r \in Runs, RunStep(r) \/ StepFails(r) \/ Crash(r) \/ Cancel(r)
      PROVE  TypeInv'
  <2>1. CASE Reject(r) \/ StepFails(r) \/ Crash(r)
    <3>1. /\ Go(r, "failed") /\ pc[r] # "absent"
          /\ UNCHANGED <<scene, dag, dir, num, ctx, results, cancel, disk, posts, purge, twins>>
      BY <2>1 DEF Reject, StepFails, Crash, Ended
    <3> QED BY <3>1, MovesTypes
  <2>2. CASE AgentAnswers(r) \/ ModelAnswers(r) \/ CommandExits(r) \/ ConversationEnds(r)
    <3>1. /\ Go(r, "body") /\ pc[r] = "working"
          /\ UNCHANGED <<scene, dag, dir, num, ctx, results, cancel, disk, posts, purge, twins>>
      BY <2>2 DEF AgentAnswers, ModelAnswers, CommandExits, ConversationEnds, Returns
    <3> QED BY <3>1, MovesTypes
  <2> QED
    BY <1>3, <2>1, <2>2, PickNameTypes, MakeLayoutTypes, LaunchTypes, BeginStepTypes,
       WriteContentTypes, WriteMetaTypes, PostCommentTypes, WriteManifestTypes, CancelTypes
       DEF RunStep
<1> QED BY <1>1, <1>2, <1>3 DEF Next

(***************************************************************************)
(* Every reachable state has its type: a run's directory is one of the      *)
(* names, results hold steps, files are written by runs.                    *)
(***************************************************************************)
THEOREM TypeCorrect ==
  Spec => []TypeOK
<1>1. Init => TypeInv
  BY InitTypes
<1>2. TypeInv /\ [Next]_vars => TypeInv'
  BY StepTypes
<1>3. TypeInv => TypeOK
  BY DEF TypeInv
<1> QED BY <1>1, <1>2, <1>3, PTL DEF Spec

(* OrderIsRight of the run but for the cycle that the message names. *)
AcceptedInOrder ==
    /\ AcceptedRight(flow, dag)
    /\ \A r \in Runs : dir[r] # 0 => ~Knotted(flow)

(***************************************************************************)
(* validate_dag answers right about the flow: it accepts it exactly if       *)
(* every reference names a step and no steps wait for one another, its      *)
(* order is one, and the cycle its refusal names is one; and a run gets past *)
(* setup only if it accepted.                                              *)
(***************************************************************************)
THEOREM OrderRight ==
  Spec => []OrderIsRight
<1>1. TypeInv => OrderIsRight
  <2> SUFFICES ASSUME TypeInv PROVE OrderIsRight
    OBVIOUS
  <2>1. RightAnswer(flow, dag)
    BY FlowsAssumption, AnswerIsRight DEF TypeInv, DagInv
  <2>2. ASSUME NEW r \in Runs, dir[r] # 0 PROVE ~Knotted(flow)
    <3>1. dag.ok
      BY <2>2 DEF TypeInv, PlaceInv
    <3> QED BY <3>1, OrderFacts DEF TypeInv
  <2> QED BY <2>1, <2>2 DEF OrderIsRight
<1> QED BY <1>1, InitTypes, StepTypes, PTL DEF Spec

(***************************************************************************)
(* What validate_dag accepts is ordered by its dependencies and what it     *)
(* refuses has no order; and no run has a directory under a flow whose      *)
(* steps wait for one another.                                             *)
(***************************************************************************)
THEOREM OrderKept ==
  Spec => []AcceptedInOrder
<1>1. Init => TypeInv
  BY InitTypes
<1>2. TypeInv /\ [Next]_vars => TypeInv'
  BY StepTypes
<1>3. TypeInv => AcceptedInOrder
  <2> SUFFICES ASSUME TypeInv PROVE AcceptedInOrder
    OBVIOUS
  <2>1. AcceptedRight(flow, dag)
    BY FlowsAssumption, AcceptsRightly DEF TypeInv, DagInv
  <2>2. \A r \in Runs : dir[r] # 0 => ~Knotted(flow)
    BY OrderFacts DEF TypeInv, PlaceInv
  <2> QED BY <2>1, <2>2 DEF AcceptedInOrder
<1> QED BY <1>1, <1>2, <1>3, PTL DEF Spec

----------------------------------------------------------------------------
(* Manifests.                                                              *)

\* Only the end of a run writes a manifest, and only the purge removes one.
LEMMA StepManifest ==
  ASSUME TypeInv, ManifestComplete, [Next]_vars
  PROVE  ManifestComplete'
<1>1. Order' = Order
  BY ZenonT(30), StepDag DEF TypeInv, Next, vars, RunStep, Reject, PickName, MakeLayout, Launch, BeginStep,
     AgentAnswers, ModelAnswers, CommandExits, ConversationEnds, Returns, WriteContent, WriteMeta,
     PostComment, WriteManifest, StepFails, Crash, Cancel, PlanPurge, AnswerPurge
<1>2. CASE UNCHANGED manifest
  BY <1>1, <1>2 DEF ManifestComplete
<1>3. CASE manifest' = [d \in Names |-> NoManifest]
  BY <1>3 DEF ManifestComplete, NoManifest
<1>4. ASSUME NEW r \in Runs, WriteManifest(r)
      PROVE  ManifestComplete'
  <2>1. dir[r] \in Names /\ dag.ok /\ pc[r] = "step"
    BY <1>4, OwnDir DEF WriteManifest
  <2>2. num[r] = Len(Order) + 1
    BY <1>4, WriteManifestTypes
  <2>3. /\ Order \in Seq(Steps) /\ Len(Order) \in Nat
        /\ results[r] \in Seq(Steps) /\ Len(results[r]) = Len(Order)
        /\ \A i \in 1 .. Len(Order) : results[r][i] = Order[i]
    BY <2>1, <2>2, OrderFacts DEF TypeInv, TypeOK, PlaceInv, Begun
  <2>4. results[r] = Order
    <3> HIDE DEF Steps, Order
    <3> QED BY <2>3, SeqEqual
  <2>5. manifest' = [manifest EXCEPT ![dir[r]] = [by |-> r, steps |-> results[r]]]
    BY <1>4 DEF WriteManifest
  <2>6. \A d \in Names : manifest'[d] = manifest[d]
                         \/ manifest'[d] = [by |-> r, steps |-> Order]
    BY <2>1, <2>4, <2>5 DEF TypeInv, TypeOK
  <2> QED BY <1>1, <2>6 DEF ManifestComplete
<1>5. \/ UNCHANGED manifest
      \/ manifest' = [d \in Names |-> NoManifest]
      \/ \E r \in Runs : WriteManifest(r)
  BY DEF Next, vars, RunStep, Reject, PickName, MakeLayout, Launch, BeginStep, AgentAnswers,
         ModelAnswers, CommandExits, ConversationEnds, Returns, WriteContent, WriteMeta,
         PostComment, StepFails, Crash, Cancel, PlanPurge, AnswerPurge
<1>6. (\E r \in Runs : WriteManifest(r)) => ManifestComplete'
  BY <1>4
<1> QED BY Zenon, <1>2, <1>3, <1>5, <1>6

(***************************************************************************)
(* A manifest that a run wrote lists every step of the flow, in the order   *)
(* in which they were run, whatever failed, died or was purged next to it.  *)
(***************************************************************************)
THEOREM ManifestsComplete ==
  Spec => []ManifestComplete
<1>1. Init => TypeInv /\ ManifestComplete
  BY InitTypes DEF Init, ManifestComplete, NoManifest
<1>2. TypeInv /\ ManifestComplete /\ [Next]_vars => TypeInv' /\ ManifestComplete'
  BY StepTypes, StepManifest
<1> QED BY <1>1, <1>2, PTL DEF Spec

----------------------------------------------------------------------------
(* Inputs.                                                                 *)

Written(d, s) == content[d][s] # NoBody /\ meta[d][s] # Nobody
Filed(d, s) == content'[d][s] # NoBody /\ meta'[d][s] # Nobody

(* Until the project is purged, what a run has done is in its directory,    *)
(* whoever else writes there; and so nothing it reads is missing.           *)
FilesInv ==
    purge # "purged" =>
        \A r \in Runs :
            /\ dir[r] # 0 => \A j \in 1 .. num[r] - 1 : Written(dir[r], Order[j])
            /\ pc[r] \in {"meta", "post"} => content[dir[r]][Order[num[r]]] # NoBody
            /\ pc[r] = "post" => meta[dir[r]][Order[num[r]]] # Nobody
            /\ pc[r] # "starved"

LEMMA BodyIsSome ==
  ASSUME NEW r \in Runs
  PROVE  Body(r) # NoBody /\ Torn(r) # NoBody
BY RunsAssumption DEF Body, Torn, NoBody

\* Files are overwritten, and only the purge takes them away.
LEMMA FilesStay ==
  ASSUME TypeInv, [Next]_vars, purge' # "purged"
  PROVE  /\ purge # "purged" /\ Order' = Order
         /\ \A d \in Names, s \in Steps :
               /\ content[d][s] # NoBody => content'[d][s] # NoBody
               /\ meta[d][s] # Nobody => meta'[d][s] # Nobody
<1>1. Order' = Order /\ purge # "purged"
  BY ZenonT(40) DEF Next, vars, RunStep, Reject, PickName, MakeLayout, Launch, BeginStep,
     AgentAnswers, ModelAnswers, CommandExits, ConversationEnds, Returns, WriteContent, WriteMeta,
     PostComment, WriteManifest, StepFails, Crash, Cancel, PlanPurge, AnswerPurge
<1>2. \/ UNCHANGED content
      \/ \E r \in Runs : \E b : /\ b # NoBody
                                /\ content' = [content EXCEPT ![dir[r]][Current(r).id] = b]
  BY ZenonT(60), BodyIsSome
     DEF Next, vars, RunStep, Reject, PickName, MakeLayout, Launch, BeginStep, AgentAnswers,
         ModelAnswers, CommandExits, ConversationEnds, Returns, WriteContent, WriteMeta,
         PostComment, WriteManifest, StepFails, Crash, Cancel, PlanPurge, AnswerPurge
<1>3. \/ UNCHANGED meta
      \/ \E r \in Runs : meta' = [meta EXCEPT ![dir[r]][Current(r).id] = r]
  BY ZenonT(40) DEF Next, vars, RunStep, Reject, PickName, MakeLayout, Launch, BeginStep, AgentAnswers,
         ModelAnswers, CommandExits, ConversationEnds, Returns, WriteContent, WriteMeta,
         PostComment, WriteManifest, StepFails, Crash, Cancel, PlanPurge, AnswerPurge
<1>4. content \in [Names -> [Steps -> Bodies]] /\ meta \in [Names -> [Steps -> Runs \cup {Nobody}]]
  BY DEF TypeInv, TypeOK
<1> HIDE DEF Steps
<1>5. \A d \in Names, s \in Steps : content[d][s] # NoBody => content'[d][s] # NoBody
  <2>1. ASSUME NEW e, NEW t, NEW b, b # NoBody, content' = [content EXCEPT ![e][t] = b]
        PROVE  \A d \in Names, s \in Steps : content[d][s] # NoBody => content'[d][s] # NoBody
    BY <1>4, <2>1
  <2>2. CASE UNCHANGED content
    BY <2>2
  <2> QED BY ZenonT(30), <1>2, <2>1, <2>2
<1>6. \A d \in Names, s \in Steps : meta[d][s] # Nobody => meta'[d][s] # Nobody
  <2>1. ASSUME NEW e, NEW t, NEW r \in Runs, meta' = [meta EXCEPT ![e][t] = r]
        PROVE  \A d \in Names, s \in Steps : meta[d][s] # Nobody => meta'[d][s] # Nobody
    BY <1>4, <2>1, RunsAssumption
  <2>2. CASE UNCHANGED meta
    BY <2>2
  <2> QED BY <1>3, <2>1, <2>2
<1> QED BY <1>1, <1>5, <1>6

\* What FilesInv says of one run survives a step that leaves the run its directory.
LEMMA FilesFrame ==
  ASSUME TypeInv, FilesInv, [Next]_vars, purge' # "purged", NEW r \in Runs,
         dir'[r] = dir[r]
  PROVE  /\ dir[r] # 0 => \A j \in 1 .. num[r] - 1 : Filed(dir[r], Order[j])
         /\ pc[r] \in {"meta", "post"} => content'[dir[r]][Order[num[r]]] # NoBody
         /\ pc[r] = "post" => meta'[dir[r]][Order[num[r]]] # Nobody
<1>1. /\ purge # "purged" /\ Order' = Order
      /\ \A d \in Names, s \in Steps :
               /\ content[d][s] # NoBody => content'[d][s] # NoBody
               /\ meta[d][s] # Nobody => meta'[d][s] # Nobody
  BY FilesStay
<1>2. ASSUME dir[r] # 0, NEW j \in 1 .. num[r] - 1
      PROVE  Filed(dir[r], Order[j])
  <2>1. Written(dir[r], Order[j])
    BY <1>1, <1>2 DEF FilesInv
  <2>2. dir[r] \in Names /\ dag.ok
    BY <1>2 DEF TypeInv, TypeOK, PlaceInv
  <2>3. num[r] \in Nat /\ num[r] - 1 <= Len(Order)
    BY <1>2, <2>2, OrderFacts DEF TypeInv, TypeOK, PlaceInv, Begun
  <2>4. Order[j] \in Steps
    BY <2>2, <2>3, OrderFacts DEF TypeInv
  <2> QED BY <1>1, <2>1, <2>2, <2>4 DEF Written, Filed
<1>3. ASSUME pc[r] \in {"meta", "post"}
      PROVE  dir[r] \in Names /\ Order[num[r]] \in Steps
  BY <1>3, OwnDir, CurrentFacts DEF TypeInv, PlaceInv, At
<1> QED BY <1>1, <1>2, <1>3 DEF FilesInv

LEMMA StepFiles ==
  ASSUME TypeInv, FilesInv, [Next]_vars
  PROVE  FilesInv'
<1> SUFFICES ASSUME purge' # "purged", NEW r \in Runs
             PROVE  /\ dir'[r] # 0 => \A j \in 1 .. num'[r] - 1 : Filed(dir'[r], Order'[j])
                    /\ pc'[r] \in {"meta", "post"} => content'[dir'[r]][Order'[num'[r]]] # NoBody
                    /\ pc'[r] = "post" => meta'[dir'[r]][Order'[num'[r]]] # Nobody
                    /\ pc'[r] # "starved"
  BY DEF FilesInv, Written, Filed
<1>1. Order' = Order /\ purge # "purged"
  BY FilesStay
<1>2. pc[r] # "starved"
  BY <1>1 DEF FilesInv
<1>3. ASSUME dir'[r] = dir[r], num'[r] = num[r],
             pc'[r] = pc[r] \/ pc'[r] \notin {"meta", "post", "starved"}
      PROVE  /\ dir'[r] # 0 => \A j \in 1 .. num'[r] - 1 : Filed(dir'[r], Order'[j])
             /\ pc'[r] \in {"meta", "post"} => content'[dir'[r]][Order'[num'[r]]] # NoBody
             /\ pc'[r] = "post" => meta'[dir'[r]][Order'[num'[r]]] # Nobody
             /\ pc'[r] # "starved"
  BY <1>1, <1>2, <1>3, FilesFrame
<1>4. CASE PickName(r)
  <2>1. num'[r] = 1 /\ pc'[r] = "named"
    BY <1>4 DEF PickName, TypeInv, TypeOK, PlaceInv
  <2> QED BY <2>1
<1>5. CASE BeginStep(r)
  <2>1. dir'[r] = dir[r] /\ num'[r] = num[r] /\ pc'[r] \in {"starved", "working"}
    BY <1>5 DEF BeginStep, TypeInv, TypeOK
  <2>2. pc'[r] # "starved"
    <3>1. dir[r] # 0 /\ \A j \in 1 .. num[r] - 1 : Written(dir[r], Order[j])
      BY <1>1, <1>5, OwnDir DEF BeginStep, FilesInv
    <3>2. ToSet(Current(r).input) \subseteq {Order[j] : j \in 1 .. num[r] - 1}
      BY <1>5, CurrentFacts DEF BeginStep
    <3>3. \A s \in ToSet(Current(r).input) : Written(dir[r], s)
      BY <3>1, <3>2
    <3> QED BY <1>5, <3>3 DEF BeginStep, Written, TypeInv, TypeOK
  <2> QED BY <1>3, <2>1, <2>2
<1>6. CASE WriteContent(r)
  <2>1. dir'[r] = dir[r] /\ num'[r] = num[r] /\ pc'[r] = "meta"
    BY <1>6 DEF WriteContent, TypeInv, TypeOK
  <2>2. content' = [content EXCEPT ![dir[r]][Current(r).id] = Body(r)]
    BY <1>6 DEF WriteContent
  <2>3. pc[r] = "body" /\ dir[r] \in Names /\ Current(r).id = Order[num[r]] /\ Current(r).id \in Steps
    BY <1>6, OwnDir, CurrentFacts DEF WriteContent, TypeInv, PlaceInv, At
  <2>4. content'[dir[r]][Order[num[r]]] = Body(r)
    <3>1. content \in [Names -> [Steps -> Bodies]]
      BY DEF TypeInv, TypeOK
    <3> HIDE DEF Steps
    <3> QED BY <2>2, <2>3, <3>1
  <2> QED BY <1>1, <2>1, <2>4, FilesFrame, BodyIsSome
<1>7. CASE WriteMeta(r) /\ dir[r] \in dirs
  <2>1. /\ dir'[r] = dir[r]
        /\ \/ num'[r] = num[r] /\ pc'[r] = "post"
           \/ num'[r] = num[r] + 1 /\ pc'[r] = "step"
    BY <1>7 DEF WriteMeta, TypeInv, TypeOK
  <2>2. meta' = [meta EXCEPT ![dir[r]][Current(r).id] = r]
    BY <1>7 DEF WriteMeta
  <2>3. /\ pc[r] = "meta" /\ dir[r] \in Names /\ dir[r] # 0
        /\ Current(r).id = Order[num[r]] /\ Current(r).id \in Steps
    BY <1>7, OwnDir, CurrentFacts DEF WriteMeta, TypeInv, PlaceInv, At
  <2>4. meta'[dir[r]][Order[num[r]]] = r
    <3>1. meta \in [Names -> [Steps -> Runs \cup {Nobody}]]
      BY DEF TypeInv, TypeOK
    <3> HIDE DEF Steps
    <3> QED BY <2>2, <2>3, <3>1
  <2>5. /\ \A j \in 1 .. num[r] - 1 : Filed(dir[r], Order[j])
        /\ content'[dir[r]][Order[num[r]]] # NoBody
    BY <2>1, <2>3, FilesFrame
  <2>6. Filed(dir[r], Order[num[r]])
    BY <1>1, <2>1, <2>4, <2>5, RunsAssumption DEF Written, Filed
  <2>7. num[r] \in Nat
    BY DEF TypeInv, TypeOK
  <2>8. \A j \in 1 .. num[r] : j \in 1 .. num[r] - 1 \/ j = num[r]
    BY <2>7
  <2>9. \A j \in 1 .. num[r] : Filed(dir[r], Order[j])
    BY <2>5, <2>6, <2>8
  <2>10. num'[r] - 1 = num[r] \/ num'[r] = num[r]
    BY <2>1, <2>7
  <2>11. \A j \in 1 .. num'[r] - 1 : Filed(dir'[r], Order'[j])
    BY <1>1, <2>1, <2>5, <2>9, <2>10
  <2>12. CASE pc'[r] = "post"
    BY <1>1, <2>1, <2>4, <2>5, <2>11, <2>12, RunsAssumption
  <2>13. CASE pc'[r] = "step"
    BY <2>11, <2>13
  <2> QED BY <2>1, <2>12, <2>13
<1>8. CASE PostComment(r)
  <2>1. dir'[r] = dir[r] /\ num'[r] = num[r] + 1 /\ pc'[r] = "step"
    BY <1>8 DEF PostComment, TypeInv, TypeOK
  <2>2. pc[r] = "post" /\ dir[r] # 0
    BY <1>8, OwnDir DEF PostComment
  <2>3. /\ \A j \in 1 .. num[r] - 1 : Filed(dir[r], Order[j])
        /\ content'[dir[r]][Order[num[r]]] # NoBody
        /\ meta'[dir[r]][Order[num[r]]] # Nobody
    BY <2>1, <2>2, FilesFrame
  <2>4. Filed(dir[r], Order[num[r]])
    BY <1>1, <2>1, <2>3 DEF Written, Filed
  <2>5. num[r] \in Nat
    BY DEF TypeInv, TypeOK
  <2>6. \A j \in 1 .. num'[r] - 1 : j \in 1 .. num[r] - 1 \/ j = num[r]
    BY <2>1, <2>5
  <2>7. \A j \in 1 .. num'[r] - 1 : Filed(dir'[r], Order'[j])
    BY <1>1, <2>1, <2>3, <2>4, <2>6
  <2> QED BY <2>1, <2>7
<1>9. \/ PickName(r) \/ BeginStep(r) \/ WriteContent(r) \/ (WriteMeta(r) /\ dir[r] \in dirs)
      \/ PostComment(r)
      \/ /\ dir'[r] = dir[r] /\ num'[r] = num[r]
         /\ pc'[r] = pc[r] \/ pc'[r] \notin {"meta", "post", "starved"}
  <2>1. CASE UNCHANGED vars \/ PlanPurge \/ AnswerPurge
    BY <2>1 DEF vars, PlanPurge, AnswerPurge
  <2>2. ASSUME NEW q \in Runs, RunStep(q) \/ StepFails(q) \/ Crash(q) \/ Cancel(q)
        PROVE  \/ PickName(r) \/ BeginStep(r) \/ WriteContent(r)
               \/ (WriteMeta(r) /\ dir[r] \in dirs) \/ PostComment(r)
               \/ /\ dir'[r] = dir[r] /\ num'[r] = num[r]
                  /\ pc'[r] = pc[r] \/ pc'[r] \notin {"meta", "post", "starved"}
    <3>1. CASE q # r
      BY <2>2, <3>1
         DEF RunStep, Reject, PickName, MakeLayout, Launch, BeginStep, AgentAnswers,
             ModelAnswers, CommandExits, ConversationEnds, Returns, WriteContent, WriteMeta,
             PostComment, WriteManifest, StepFails, Crash, Cancel, TypeInv, TypeOK
    <3>2. CASE q = r
      BY <2>2, <3>2
         DEF RunStep, Reject, MakeLayout, Launch, AgentAnswers,
             ModelAnswers, CommandExits, ConversationEnds, Returns, WriteMeta,
             WriteManifest, StepFails, Crash, Cancel, TypeInv, TypeOK
    <3> QED BY SMTT(30), <3>1, <3>2
  <2> QED BY <2>1, <2>2 DEF Next
<1> QED BY <1>3, <1>4, <1>5, <1>6, <1>7, <1>8, <1>9

(***************************************************************************)
(* A step never misses an input, in a directory of its own or in a shared   *)
(* one: its inputs are earlier steps of the order, and what those wrote is  *)
(* there until somebody purges the project.                                 *)
(***************************************************************************)
THEOREM InputsThere ==
  Spec => []NeverStarved
<1>1. Init => TypeInv /\ FilesInv
  <2>1. Init => FilesInv
    BY DEF Init, FilesInv
  <2> QED BY <2>1, InitTypes
<1>2. TypeInv /\ FilesInv /\ [Next]_vars => TypeInv' /\ FilesInv'
  BY StepTypes, StepFiles
<1>3. FilesInv => NeverStarved
  BY DEF FilesInv, NeverStarved
<1> QED BY <1>1, <1>2, <1>3, PTL DEF Spec

----------------------------------------------------------------------------
(* The schedule.                                                           *)

\* What a run has completed is the part of the order before the step it is at.
LEMMA CompletedIsPrefix ==
  ASSUME TypeInv, NEW r \in Runs, pc[r] \in Begun
  PROVE  ToSet(results[r]) = {Order[j] : j \in 1 .. num[r] - 1}
<1>1. /\ results[r] \in Seq(Steps) /\ Len(results[r]) = num[r] - 1
      /\ \A i \in 1 .. num[r] - 1 : results[r][i] = Order[i]
  BY DEF TypeInv, TypeOK, PlaceInv
<1>2. DOMAIN results[r] = 1 .. Len(results[r])
  <2> HIDE DEF Steps
  <2> QED BY <1>1, LenProperties
<1> QED BY <1>1, <1>2 DEF ToSet

LEMMA PhaseIs ==
  ASSUME TypeInv, NEW r \in Runs
  PROVE  /\ pc[r] \in {"idle", "named", "spawned", "absent"} => Phase[r] = "waiting"
         /\ pc[r] = "done" => Phase[r] = "finished"
         /\ pc[r] \in {"failed", "starved"} => Phase[r] = "stopped"
         /\ pc[r] \in At \cup {"step"} => Phase[r] = "running"
BY DEF Phase, At

\* A step that changes neither flow nor results nor the phase of any run.
LEMMA SameSchedule ==
  ASSUME TypeInv, UNCHANGED <<scene, results>>, Phase' = Phase
  PROVE  UNCHANGED Sched!sched
BY DEF Sched!sched, Plan, Completed

\* A step that takes one run into another phase.
LEMMA NextPhase ==
  ASSUME TypeInv, NEW r \in Runs, NEW l, pc' = [pc EXCEPT ![r] = l],
         UNCHANGED <<scene, results>>
  PROVE  /\ l \in {"idle", "named", "spawned", "absent"} => Phase' = [Phase EXCEPT ![r] = "waiting"]
         /\ l = "done" => Phase' = [Phase EXCEPT ![r] = "finished"]
         /\ l \in {"failed", "starved"} => Phase' = [Phase EXCEPT ![r] = "stopped"]
         /\ l \in At \cup {"step"} => Phase' = [Phase EXCEPT ![r] = "running"]
         /\ Plan' = Plan /\ Completed' = Completed
<1>1. \A q \in Runs : pc'[q] = IF q = r THEN l ELSE pc[q]
  BY DEF TypeInv, TypeOK
<1>2. \A q \in Runs : q # r => Phase'[q] = Phase[q]
  BY <1>1 DEF Phase
<1>3. Phase' = [q \in Runs |-> IF q = r THEN Phase'[r] ELSE Phase[q]]
  BY <1>2 DEF Phase
<1>4. \A v : [Phase EXCEPT ![r] = v] = [q \in Runs |-> IF q = r THEN v ELSE Phase[q]]
  BY DEF Phase
<1>5. /\ l \in {"idle", "named", "spawned", "absent"} => Phase'[r] = "waiting"
      /\ l = "done" => Phase'[r] = "finished"
      /\ l \in {"failed", "starved"} => Phase'[r] = "stopped"
      /\ l \in At \cup {"step"} => Phase'[r] = "running"
  BY <1>1 DEF Phase, At
<1>6. Plan' = Plan /\ Completed' = Completed
  BY DEF Plan, Completed
<1> QED BY <1>3, <1>4, <1>5, <1>6

LEMMA SamePhase ==
  ASSUME NEW r \in Runs, NEW v, Phase[r] = v, Phase' = [Phase EXCEPT ![r] = v]
  PROVE  Phase' = Phase
BY ZenonT(40) DEF Phase

LEMMA InitSchedule == Init => Sched!Init
<1> SUFFICES ASSUME Init PROVE Sched!Init
  OBVIOUS
<1>1. \A r \in Runs : results[r] = <<>> /\ pc[r] \in {"idle", "absent"}
  BY DEF Init
<1>2. ToSet(<< >>) = {}
  BY DEF ToSet
<1>3. Completed = [r \in Runs |-> {}]
  BY <1>1, <1>2 DEF Completed
<1>4. Phase = [r \in Runs |-> "waiting"]
  BY <1>1 DEF Phase
<1> QED BY <1>3, <1>4 DEF Sched!Init

\* A run gives up, from wherever it is.
LEMMA GivesUp ==
  ASSUME TypeInv, NEW r \in Runs, NEW l \in {"failed", "starved"}, pc[r] \notin Ended,
         pc' = [pc EXCEPT ![r] = l], UNCHANGED <<scene, results>>
  PROVE  Sched!GiveUp(r)
<1>1. Phase[r] \in {"waiting", "running"}
  BY PhaseIs DEF TypeInv, TypeOK, Ended, At
<1>2. Phase' = [Phase EXCEPT ![r] = "stopped"] /\ Plan' = Plan /\ Completed' = Completed
  BY NextPhase
<1> QED BY <1>1, <1>2 DEF Sched!GiveUp

LEMMA CompletesOne ==
  ASSUME TypeInv, NEW r \in Runs, pc[r] \in {"meta", "post"},
         pc' = [pc EXCEPT ![r] = "step"],
         results' = [results EXCEPT ![r] = Append(@, Current(r).id)],
         UNCHANGED scene
  PROVE  \E s \in DOMAIN Plan : Sched!Complete(r, s)
<1> DEFINE s == Current(r).id
<1>1. num[r] <= Len(Order) /\ dag.ok
  BY OwnDir DEF TypeInv, PlaceInv, At
<1>2. s \in Steps /\ s = Order[num[r]] /\ num[r] \in 1 .. Len(Order)
      /\ Deps(flow, s) \subseteq {Order[j] : j \in 1 .. num[r] - 1}
  BY <1>1, CurrentFacts
<1>3. ToSet(results[r]) = {Order[j] : j \in 1 .. num[r] - 1}
  BY CompletedIsPrefix DEF Begun
<1>4. s \notin ToSet(results[r])
  BY <1>1, <1>2, <1>3, OrderFacts DEF TypeInv
<1>5. ToSet(results'[r]) = ToSet(results[r]) \cup {s}
  <2>1. results[r] \in Seq(Steps)
    BY DEF TypeInv, TypeOK
  <2> HIDE DEF Steps, s
  <2>2. results'[r] = Append(results[r], s)
    BY DEF TypeInv, TypeOK, s
  <2>3. /\ Len(results[r]) \in Nat /\ DOMAIN results[r] = 1 .. Len(results[r])
        /\ DOMAIN Append(results[r], s) = 1 .. Len(results[r]) + 1
        /\ \A i \in 1 .. Len(results[r]) : Append(results[r], s)[i] = results[r][i]
        /\ Append(results[r], s)[Len(results[r]) + 1] = s
    BY <1>2, <2>1, AppendProperties, LenProperties
  <2> QED BY <2>2, <2>3 DEF ToSet
<1>6. \A q \in Runs : q # r => results'[q] = results[q]
  BY DEF TypeInv, TypeOK
<1>7. Completed' = [Completed EXCEPT ![r] = @ \cup {s}]
  <2> HIDE DEF s
  <2>1. Completed' = [q \in Runs |-> ToSet(results'[q])]
    BY DEF Completed
  <2>2. [Completed EXCEPT ![r] = @ \cup {s}]
          = [q \in Runs |-> IF q = r THEN ToSet(results[r]) \cup {s} ELSE ToSet(results[q])]
    BY DEF Completed
  <2> QED BY <1>5, <1>6, <2>1, <2>2
<1>8. Plan' = Plan /\ DOMAIN Plan = Steps /\ Plan[s] \subseteq Completed[r] /\ s \notin Completed[r]
  BY <1>2, <1>3, <1>4 DEF Plan, Completed
<1>9. Phase' = Phase /\ Phase[r] = "running"
  BY PhaseIs DEF Phase, At, TypeInv, TypeOK
<1> QED BY <1>2, <1>7, <1>8, <1>9 DEF Sched!Complete

LEMMA StepSchedule ==
  ASSUME TypeInv, [Next]_vars
  PROVE  [Sched!Next]_(Sched!sched)
<1>1. CASE UNCHANGED <<scene, results, pc>>
  BY <1>1, SameSchedule DEF Phase
<1>2. ASSUME NEW r \in Runs, RunStep(r) \/ StepFails(r) \/ Crash(r)
      PROVE  [Sched!Next]_(Sched!sched)
  <2>1. CASE Reject(r) \/ StepFails(r) \/ Crash(r)
    <3>1. pc' = [pc EXCEPT ![r] = "failed"] /\ pc[r] \notin Ended /\ UNCHANGED <<scene, results>>
      BY <2>1 DEF Reject, StepFails, Crash, Ended
    <3> QED BY <3>1, GivesUp DEF Sched!Next
  <2>2. CASE PickName(r) \/ MakeLayout(r)
    <3>1. PICK l \in {"named", "spawned"} : pc' = [pc EXCEPT ![r] = l]
      BY <2>2 DEF PickName, MakeLayout
    <3>2. pc[r] \in {"idle", "named"} /\ UNCHANGED <<scene, results>>
      BY <2>2 DEF PickName, MakeLayout
    <3>3. Phase[r] = "waiting"
      BY <3>2, PhaseIs
    <3>4. Phase' = [Phase EXCEPT ![r] = "waiting"]
      BY <3>1, <3>2, NextPhase
    <3> QED BY <3>2, <3>3, <3>4, SamePhase, SameSchedule
  <2>3. CASE Launch(r) /\ cancel[r]
    <3>1. pc' = [pc EXCEPT ![r] = "failed"] /\ pc[r] = "spawned" /\ UNCHANGED <<scene, results>>
      BY <2>3 DEF Launch
    <3> QED BY <3>1, GivesUp DEF Sched!Next, Ended
  <2>4. CASE Launch(r) /\ ~cancel[r]
    <3>1. pc' = [pc EXCEPT ![r] = "step"] /\ pc[r] = "spawned" /\ UNCHANGED <<scene, results>>
      BY <2>4 DEF Launch
    <3>2. Phase[r] = "waiting" /\ Phase' = [Phase EXCEPT ![r] = "running"]
          /\ Plan' = Plan /\ Completed' = Completed
      BY <3>1, PhaseIs, NextPhase
    <3>3. dag.ok /\ ~Knotted(flow)
      BY <3>1, OwnDir, OrderFacts DEF TypeInv
    <3>4. Sched!Doable
      BY <3>3 DEF Sched!Doable, Plan, Knotted
    <3> QED BY <3>2, <3>4 DEF Sched!Begin, Sched!Next
  <2>5. CASE BeginStep(r)
    <3>1. PICK l \in {"starved", "working"} : pc' = [pc EXCEPT ![r] = l]
      BY <2>5 DEF BeginStep
    <3>2. pc[r] = "step" /\ UNCHANGED <<scene, results>>
      BY <2>5 DEF BeginStep
    <3>3. CASE l = "starved"
      BY <3>1, <3>2, <3>3, GivesUp DEF Sched!Next, Ended
    <3>4. CASE l = "working"
      <4>1. Phase[r] = "running" /\ Phase' = [Phase EXCEPT ![r] = "running"]
        BY <3>1, <3>2, <3>4, PhaseIs, NextPhase DEF At
      <4> QED BY <3>2, <4>1, SamePhase, SameSchedule
    <3> QED BY <3>3, <3>4
  <2>6. CASE \/ AgentAnswers(r) \/ ModelAnswers(r) \/ CommandExits(r) \/ ConversationEnds(r)
             \/ WriteContent(r)
    <3>1. PICK l \in {"body", "meta"} : pc' = [pc EXCEPT ![r] = l]
      BY <2>6 DEF AgentAnswers, ModelAnswers, CommandExits, ConversationEnds, Returns, WriteContent
    <3>2. pc[r] \in {"working", "body"} /\ UNCHANGED <<scene, results>>
      BY <2>6 DEF AgentAnswers, ModelAnswers, CommandExits, ConversationEnds, Returns, WriteContent
    <3>3. Phase[r] = "running" /\ Phase' = [Phase EXCEPT ![r] = "running"]
      BY <3>1, <3>2, PhaseIs, NextPhase DEF At
    <3> QED BY <3>2, <3>3, SamePhase, SameSchedule
  <2>7. CASE WriteMeta(r)
    <3>1. pc[r] = "meta" /\ UNCHANGED scene
      BY <2>7 DEF WriteMeta
    <3>2. CASE pc' = [pc EXCEPT ![r] = "failed"] /\ UNCHANGED results
      BY <3>1, <3>2, GivesUp DEF Sched!Next, Ended
    <3>3. CASE pc' = [pc EXCEPT ![r] = "post"] /\ UNCHANGED results
      <4>1. Phase[r] = "running" /\ Phase' = [Phase EXCEPT ![r] = "running"]
        BY <3>1, <3>3, PhaseIs, NextPhase DEF At
      <4> QED BY <3>1, <3>3, <4>1, SamePhase, SameSchedule
    <3>4. CASE /\ pc' = [pc EXCEPT ![r] = "step"]
               /\ results' = [results EXCEPT ![r] = Append(@, Current(r).id)]
      BY <3>1, <3>4, CompletesOne DEF Sched!Next
    <3> QED BY <2>7, <3>2, <3>3, <3>4 DEF WriteMeta
  <2>8. CASE PostComment(r)
    BY <2>8, CompletesOne DEF PostComment, Sched!Next
  <2>9. CASE WriteManifest(r)
    <3>1. pc' = [pc EXCEPT ![r] = "done"] /\ pc[r] = "step" /\ UNCHANGED <<scene, results>>
      BY <2>9 DEF WriteManifest
    <3>2. Phase[r] = "running" /\ Phase' = [Phase EXCEPT ![r] = "finished"]
          /\ Plan' = Plan /\ Completed' = Completed
      BY <3>1, PhaseIs, NextPhase
    <3>3. num[r] = Len(Order) + 1 /\ dag.ok
      BY <2>9, <3>1, OwnDir, WriteManifestTypes
    <3>4. Len(Order) \in Nat /\ DOMAIN Order = 1 .. Len(Order) /\ ToSet(Order) = Steps
      BY <3>3, OrderFacts DEF TypeInv
    <3>5. ToSet(results[r]) = {Order[j] : j \in 1 .. Len(Order)}
      <4>1. ToSet(results[r]) = {Order[j] : j \in 1 .. num[r] - 1}
        BY <3>1, CompletedIsPrefix DEF Begun
      <4>2. num[r] - 1 = Len(Order)
        BY <3>3, <3>4
      <4> QED BY <4>1, <4>2
    <3>6. Completed[r] = DOMAIN Plan
      <4>1. Completed[r] = ToSet(results[r]) /\ DOMAIN Plan = Steps
        BY DEF Completed, Plan
      <4>2. ToSet(Order) = {Order[j] : j \in 1 .. Len(Order)}
        BY <3>4 DEF ToSet
      <4> QED BY <3>4, <3>5, <4>1, <4>2
    <3>7. Sched!Finish(r)
      BY <3>2, <3>6 DEF Sched!Finish
    <3> QED BY <3>7 DEF Sched!Next
  <2> QED BY <1>2, <2>1, <2>2, <2>3, <2>4, <2>5, <2>6, <2>7, <2>8, <2>9 DEF RunStep
<1>3. \/ UNCHANGED <<scene, results, pc>>
      \/ \E r \in Runs : RunStep(r) \/ StepFails(r) \/ Crash(r)
  BY DEF Next, vars, Cancel, PlanPurge, AnswerPurge
<1> QED BY <1>1, <1>2, <1>3

(***************************************************************************)
(* Every run keeps the schedule: it completes steps one at a time and after *)
(* what they need, begins no plan that cannot be done, and finishes with    *)
(* all of them.                                                             *)
(***************************************************************************)
THEOREM KeepsSchedule ==
  Spec => ScheduleRefined
<1>1. Init => TypeInv /\ Sched!Init
  BY InitTypes, InitSchedule
<1>2. TypeInv /\ [Next]_vars => TypeInv' /\ [Sched!Next]_(Sched!sched)
  BY StepTypes, StepSchedule
<1> QED BY <1>1, <1>2, PTL DEF Spec, ScheduleRefined, Sched!Spec

----------------------------------------------------------------------------
(* Runs next to one another.                                               *)

(* Everything a run has written is there and is its own.                    *)
Mine(r) ==
    /\ \A j \in 1 .. num[r] - 1 :
          content[dir[r]][Order[j]] = Body(r) /\ meta[dir[r]][Order[j]] = r
    /\ pc[r] \in {"meta", "post"} => content[dir[r]][Order[num[r]]] = Body(r)
    /\ pc[r] = "post" => meta[dir[r]][Order[num[r]]] = r
    /\ audit[dir[r]] \in {r, Nobody}
    /\ pc[r] = "done" => manifest[dir[r]].by = r

Alive(r) == dir[r] # 0 /\ pc[r] # "failed"

(* A name is free for as long as nobody has created it; so the run that     *)
(* picks it shares it with failed runs, which write no more, and with       *)
(* runs that picked it and have not created it: those are the twins.        *)
ApartInv ==
    purge # "purged" =>
        /\ \A d \in Names \ dirs : audit[d] = Nobody
        /\ \A r \in Runs : Alive(r) /\ pc[r] # "named" => dir[r] \in dirs
        /\ \A q, r \in Runs :
              q # r /\ Alive(q) /\ Alive(r) /\ dir[q] = dir[r] => q \in twins /\ r \in twins
        /\ \A r \in Runs \ twins : Alive(r) => Mine(r)
        /\ \A r \in Runs \ twins : ToSet(ctx[r]) \subseteq {Body(r)}

\* The files of a directory stay as they are while nobody writes in it.
LEMMA OthersKeep ==
  ASSUME TypeInv, NEW q \in Runs, RunStep(q) \/ StepFails(q) \/ Crash(q) \/ Cancel(q),
         NEW d \in Names, d # dir[q] \/ ~Alive(q)
  PROVE  /\ content'[d] = content[d] /\ meta'[d] = meta[d]
         /\ manifest'[d] = manifest[d] /\ audit'[d] = audit[d]
<1>1. CASE /\ pc[q] \notin {"idle", "absent", "failed"} /\ ~Alive(q)
  BY <1>1, OwnDir DEF Alive
<1>2. CASE UNCHANGED <<content, meta, manifest, audit>>
  BY <1>2
<1>3. CASE d # dir[q] /\ (MakeLayout(q) \/ BeginStep(q) \/ WriteContent(q) \/ WriteMeta(q) \/ WriteManifest(q))
  <2>1. content' = content \/ \E s, b : content' = [content EXCEPT ![dir[q]][s] = b]
    BY <1>3 DEF MakeLayout, BeginStep, WriteContent, WriteMeta, WriteManifest
  <2>2. meta' = meta \/ \E s, b : meta' = [meta EXCEPT ![dir[q]][s] = b]
    BY <1>3 DEF MakeLayout, BeginStep, WriteContent, WriteMeta, WriteManifest
  <2>3. manifest' = manifest \/ \E b : manifest' = [manifest EXCEPT ![dir[q]] = b]
    BY <1>3 DEF MakeLayout, BeginStep, WriteContent, WriteMeta, WriteManifest
  <2>4. audit' = audit \/ \E b : audit' = [audit EXCEPT ![dir[q]] = b]
    BY <1>3 DEF MakeLayout, BeginStep, WriteContent, WriteMeta, WriteManifest
  <2>5. content'[d] = content[d]
    BY <1>3, <2>1 DEF TypeInv, TypeOK
  <2>6. meta'[d] = meta[d]
    BY <1>3, <2>2 DEF TypeInv, TypeOK
  <2>7. manifest'[d] = manifest[d] /\ audit'[d] = audit[d]
    BY SMTT(30), <1>3, <2>3, <2>4 DEF TypeInv, TypeOK
  <2> QED BY <2>5, <2>6, <2>7
<1>4. \/ UNCHANGED <<content, meta, manifest, audit>>
      \/ /\ pc[q] \notin {"idle", "absent", "failed"}
         /\ MakeLayout(q) \/ BeginStep(q) \/ WriteContent(q) \/ WriteMeta(q) \/ WriteManifest(q)
  BY DEF RunStep, Reject, PickName, MakeLayout, Launch, BeginStep, AgentAnswers,
         ModelAnswers, CommandExits, ConversationEnds, Returns, WriteContent, WriteMeta,
         PostComment, WriteManifest, StepFails, Crash, Cancel
<1> QED BY <1>1, <1>2, <1>3, <1>4

\* A run's own steps.
LEMMA MineOnSetup ==
  ASSUME TypeInv, NEW r \in Runs, \A d \in Names \ dirs : audit[d] = Nobody,
         PickName(r) \/ (MakeLayout(r) /\ Mine(r))
  PROVE  Mine(r)'
<1>1. num'[r] = 1 /\ pc'[r] \in {"named", "spawned"}
  BY DEF PickName, MakeLayout, TypeInv, TypeOK, PlaceInv
<1>2. CASE PickName(r)
  <2>1. pc'[r] = "named"
    BY <1>2 DEF PickName, TypeInv, TypeOK
  <2>2. FreeName \in Names \ dirs
    BY <1>2, NameLeft DEF PickName, TypeInv, PlaceInv
  <2>3. PICK n \in Names \ dirs : n = FreeName
    BY <2>2
  <2>4. dir'[r] = n /\ audit' = audit
    BY <1>2, <2>3 DEF PickName, TypeInv, TypeOK
  <2>5. audit'[dir'[r]] = Nobody
    BY <2>4
  <2> QED BY <1>1, <2>1, <2>5 DEF Mine
<1>3. CASE MakeLayout(r) /\ Mine(r)
  <2>1. dir'[r] = dir[r] /\ dir[r] \in Names
    BY <1>3, OwnDir DEF MakeLayout
  <2>2. audit'[dir'[r]] \in {r, Nobody}
    BY <1>3, <2>1 DEF MakeLayout, Mine, TypeInv, TypeOK
  <2>3. pc'[r] = "spawned"
    BY <1>3 DEF MakeLayout, TypeInv, TypeOK
  <2> QED BY <1>1, <2>2, <2>3 DEF Mine
<1> QED BY <1>2, <1>3

LEMMA MineOnWait ==
  ASSUME TypeInv, NEW r \in Runs, Mine(r), pc[r] # "named",
         \/ Cancel(r)
         \/ Launch(r) /\ ~cancel[r]
         \/ AgentAnswers(r) \/ ModelAnswers(r) \/ CommandExits(r) \/ ConversationEnds(r)
  PROVE  Mine(r)'
<1>1. pc'[r] = pc[r] \/ pc'[r] \in {"step", "body"}
  BY DEF Cancel, Launch, AgentAnswers, ModelAnswers, CommandExits, ConversationEnds, Returns,
         TypeInv, TypeOK
<1>2. UNCHANGED <<dag, dir, num, content, meta, manifest, audit>>
  BY DEF Cancel, Launch, AgentAnswers, ModelAnswers, CommandExits, ConversationEnds, Returns
<1> QED BY <1>1, <1>2 DEF Mine

\* The step a run is at is not one of the earlier ones.
LEMMA EarlierDiffer ==
  ASSUME TypeInv, NEW r \in Runs, pc[r] \notin {"absent", "idle", "failed"},
         num[r] <= Len(Order)
  PROVE  /\ dir[r] \in Names /\ Current(r).id = Order[num[r]] /\ Order[num[r]] \in Steps
         /\ \A j \in 1 .. num[r] - 1 : Order[j] \in Steps /\ Order[j] # Order[num[r]]
<1>1. dir[r] \in Names /\ dag.ok
  BY OwnDir
<1>2. Current(r).id = Order[num[r]] /\ Order[num[r]] \in Steps /\ num[r] \in 1 .. Len(Order)
  BY CurrentFacts
<1> QED BY <1>1, <1>2, OrderFacts DEF TypeInv

LEMMA MineOnBegin ==
  ASSUME TypeInv, NEW r \in Runs, Mine(r), BeginStep(r)
  PROVE  Mine(r)'
<1>1. pc[r] = "step" /\ num[r] <= Len(Order) /\ pc'[r] \in {"working", "starved"}
  BY DEF BeginStep, TypeInv, TypeOK
<1>2. UNCHANGED <<dag, dir, num, meta, manifest, audit>>
  BY DEF BeginStep
<1>3. content' = content \/ content' = [content EXCEPT ![dir[r]][Current(r).id] = Torn(r)]
  BY DEF BeginStep
<1>4. content \in [Names -> [Steps -> Bodies]]
  BY DEF TypeInv, TypeOK
<1>5. \A j \in 1 .. num[r] - 1 : content'[dir[r]][Order[j]] = content[dir[r]][Order[j]]
  <2>1. /\ dir[r] \in Names /\ Current(r).id = Order[num[r]] /\ Order[num[r]] \in Steps
        /\ \A j \in 1 .. num[r] - 1 : Order[j] \in Steps /\ Order[j] # Order[num[r]]
    BY <1>1, EarlierDiffer
  <2> HIDE DEF Steps, Order
  <2> QED BY <1>3, <1>4, <2>1
<1> QED BY <1>1, <1>2, <1>5 DEF Mine

LEMMA MineOnContent ==
  ASSUME TypeInv, NEW r \in Runs, Mine(r), WriteContent(r)
  PROVE  Mine(r)'
<1>1. pc[r] = "body" /\ num[r] <= Len(Order) /\ pc'[r] = "meta"
  BY DEF WriteContent, TypeInv, TypeOK, PlaceInv, At
<1>2. UNCHANGED <<dag, dir, num, meta, manifest, audit>>
  BY DEF WriteContent
<1>3. content' = [content EXCEPT ![dir[r]][Current(r).id] = Body(r)]
  BY DEF WriteContent
<1>4. content \in [Names -> [Steps -> Bodies]]
  BY DEF TypeInv, TypeOK
<1>5. /\ content'[dir[r]][Order[num[r]]] = Body(r)
      /\ \A j \in 1 .. num[r] - 1 : content'[dir[r]][Order[j]] = content[dir[r]][Order[j]]
  <2>1. /\ dir[r] \in Names /\ Current(r).id = Order[num[r]] /\ Order[num[r]] \in Steps
        /\ \A j \in 1 .. num[r] - 1 : Order[j] \in Steps /\ Order[j] # Order[num[r]]
    BY <1>1, EarlierDiffer
  <2> HIDE DEF Steps, Order
  <2> QED BY <1>3, <1>4, <2>1
<1> QED BY <1>1, <1>2, <1>5 DEF Mine

LEMMA MineOnMeta ==
  ASSUME TypeInv, NEW r \in Runs, Mine(r), WriteMeta(r), dir[r] \in dirs
  PROVE  Mine(r)'
<1>1. /\ pc[r] = "meta" /\ num[r] <= Len(Order) /\ num[r] \in Nat
      /\ \/ pc'[r] = "post" /\ num'[r] = num[r]
         \/ pc'[r] = "step" /\ num'[r] = num[r] + 1
  BY DEF WriteMeta, TypeInv, TypeOK, PlaceInv, At
<1>2. UNCHANGED <<dag, dir, content, manifest, audit>>
  BY DEF WriteMeta
<1>3. meta' = [meta EXCEPT ![dir[r]][Current(r).id] = r]
  BY DEF WriteMeta
<1>4. meta \in [Names -> [Steps -> Runs \cup {Nobody}]]
  BY DEF TypeInv, TypeOK
<1>5. /\ meta'[dir[r]][Order[num[r]]] = r
      /\ \A j \in 1 .. num[r] - 1 : meta'[dir[r]][Order[j]] = meta[dir[r]][Order[j]]
  <2>1. /\ dir[r] \in Names /\ Current(r).id = Order[num[r]] /\ Order[num[r]] \in Steps
        /\ \A j \in 1 .. num[r] - 1 : Order[j] \in Steps /\ Order[j] # Order[num[r]]
    BY <1>1, EarlierDiffer
  <2> HIDE DEF Steps, Order
  <2> QED BY <1>3, <1>4, <2>1
<1>6. \A j \in 1 .. num[r] : j = num[r] \/ j \in 1 .. num[r] - 1
  BY <1>1
<1>7. \A j \in 1 .. num[r] : content[dir[r]][Order[j]] = Body(r) /\ meta'[dir[r]][Order[j]] = r
  BY <1>1, <1>5, <1>6 DEF Mine
<1>8. num'[r] - 1 = num[r] \/ num'[r] = num[r]
  BY <1>1
<1>9. \A j \in 1 .. num'[r] - 1 : j \in 1 .. num[r]
  BY <1>1
<1>10. audit[dir[r]] \in {r, Nobody}
  BY <1>1 DEF Mine
<1>11. pc'[r] = "post" => num[r] \in 1 .. num[r]
  <2>1. num[r] # 0
    BY DEF TypeInv, TypeOK
  <2> QED BY <1>1, <2>1
<1> QED BY <1>1, <1>2, <1>7, <1>9, <1>10, <1>11 DEF Mine

LEMMA MineOnPost ==
  ASSUME TypeInv, NEW r \in Runs, Mine(r), PostComment(r)
  PROVE  Mine(r)'
<1>1. pc[r] = "post" /\ pc'[r] = "step" /\ num'[r] = num[r] + 1 /\ num[r] \in Nat
  BY DEF PostComment, TypeInv, TypeOK
<1>2. UNCHANGED <<dag, dir, content, meta, manifest, audit>>
  BY DEF PostComment
<1>3. \A j \in 1 .. num'[r] - 1 : j = num[r] \/ j \in 1 .. num[r] - 1
  BY <1>1
<1>4. \A j \in 1 .. num'[r] - 1 : content[dir[r]][Order[j]] = Body(r) /\ meta[dir[r]][Order[j]] = r
  BY <1>1, <1>3 DEF Mine
<1> QED BY <1>1, <1>2, <1>4 DEF Mine

LEMMA MineOnManifest ==
  ASSUME TypeInv, NEW r \in Runs, Mine(r), WriteManifest(r)
  PROVE  Mine(r)'
<1>1. pc[r] = "step" /\ pc'[r] = "done" /\ dir[r] \in Names
  BY OwnDir DEF WriteManifest, TypeInv, TypeOK
<1>2. UNCHANGED <<dag, dir, num, content, meta, audit>>
  BY DEF WriteManifest
<1>3. manifest'[dir[r]].by = r
  BY <1>1 DEF WriteManifest, TypeInv, TypeOK
<1> QED BY <1>1, <1>2, <1>3 DEF Mine

\* Somebody else's step leaves what a run of its own directory wrote.
LEMMA MineBesideOthers ==
  ASSUME TypeInv, NEW r \in Runs, NEW q \in Runs, q # r, Mine(r), Alive(r),
         ~Alive(q) \/ dir[q] # dir[r],
         RunStep(q) \/ StepFails(q) \/ Crash(q) \/ Cancel(q)
  PROVE  Mine(r)'
<1>1. /\ pc'[r] = pc[r] /\ num'[r] = num[r] /\ dir'[r] = dir[r] /\ dag' = dag
  BY DEF RunStep, Reject, PickName, MakeLayout, Launch, BeginStep, AgentAnswers,
         ModelAnswers, CommandExits, ConversationEnds, Returns, WriteContent, WriteMeta,
         PostComment, WriteManifest, StepFails, Crash, Cancel, TypeInv, TypeOK
<1>2. dir[r] \in Names
  BY DEF Alive, TypeInv, TypeOK
<1>3. PICK d \in Names : d = dir[r]
  BY <1>2
<1>4. d # dir[q] \/ ~Alive(q)
  BY <1>3
<1>5. /\ content'[d] = content[d] /\ meta'[d] = meta[d]
      /\ manifest'[d] = manifest[d] /\ audit'[d] = audit[d]
  BY <1>4, OthersKeep
<1> QED BY <1>1, <1>3, <1>5 DEF Mine

\* What a step does to names, directories and places.
LEMMA NamesKept ==
  ASSUME TypeInv, NEW q \in Runs, RunStep(q) \/ StepFails(q) \/ Crash(q) \/ Cancel(q)
  PROVE  /\ purge' = purge /\ dirs \subseteq dirs' /\ twins \subseteq twins'
         /\ \A r \in Runs : q # r => pc'[r] = pc[r] /\ dir'[r] = dir[r] /\ ctx'[r] = ctx[r]
         /\ pc'[q] # "failed" => pc[q] # "failed"
         /\ PickName(q) \/ (dir' = dir /\ twins' = twins)
         /\ BeginStep(q) \/ ctx' = ctx
<1>1. /\ purge' = purge /\ dirs \subseteq dirs' /\ twins \subseteq twins'
      /\ pc'[q] # "failed" => pc[q] # "failed"
      /\ PickName(q) \/ (dir' = dir /\ twins' = twins)
      /\ BeginStep(q) \/ ctx' = ctx
  BY DEF RunStep, Reject, PickName, MakeLayout, Launch, BeginStep, AgentAnswers,
         ModelAnswers, CommandExits, ConversationEnds, Returns, WriteContent, WriteMeta,
         PostComment, WriteManifest, StepFails, Crash, Cancel, Ended, TypeInv, TypeOK
<1>2. \A r \in Runs : q # r => pc'[r] = pc[r] /\ dir'[r] = dir[r]
  BY DEF RunStep, Reject, PickName, MakeLayout, Launch, BeginStep, AgentAnswers,
         ModelAnswers, CommandExits, ConversationEnds, Returns, WriteContent, WriteMeta,
         PostComment, WriteManifest, StepFails, Crash, Cancel, TypeInv, TypeOK
<1>3. \A r \in Runs : q # r => ctx'[r] = ctx[r]
  <2>1. ctx' = ctx \/ \E given : ctx' = [ctx EXCEPT ![q] = given]
    BY <1>1 DEF BeginStep
  <2> QED BY <2>1 DEF TypeInv, PlaceInv, GivenInv
<1> QED BY SMTT(30), <1>1, <1>2, <1>3

LEMMA ApartSteps ==
  ASSUME TypeInv, ApartInv, purge # "purged", NEW q \in Runs,
         RunStep(q) \/ StepFails(q) \/ Crash(q) \/ Cancel(q)
  PROVE  ApartInv'
<1>0. /\ \A d \in Names \ dirs : audit[d] = Nobody
      /\ \A r \in Runs : Alive(r) /\ pc[r] # "named" => dir[r] \in dirs
      /\ \A p, r \in Runs :
            p # r /\ Alive(p) /\ Alive(r) /\ dir[p] = dir[r] => p \in twins /\ r \in twins
      /\ \A r \in Runs \ twins : Alive(r) => Mine(r)
      /\ \A r \in Runs \ twins : ToSet(ctx[r]) \subseteq {Body(r)}
  BY DEF ApartInv
<1>1. /\ purge' = purge /\ dirs \subseteq dirs' /\ twins \subseteq twins'
      /\ \A r \in Runs : q # r => pc'[r] = pc[r] /\ dir'[r] = dir[r] /\ ctx'[r] = ctx[r]
      /\ pc'[q] # "failed" => pc[q] # "failed"
      /\ PickName(q) \/ (dir' = dir /\ twins' = twins)
      /\ BeginStep(q) \/ ctx' = ctx
  BY NamesKept
<1>2. \A r \in Runs : Alive(r)' => Alive(r) \/ (r = q /\ PickName(q))
  BY <1>1 DEF Alive
<1>3. \A r \in Runs : Alive(r)' /\ pc'[r] # "named" => dir'[r] \in dirs'
  <2> SUFFICES ASSUME NEW r \in Runs, Alive(r)', pc'[r] # "named" PROVE dir'[r] \in dirs'
    OBVIOUS
  <2>1. CASE r # q
    BY <1>0, <1>1, <1>2, <2>1
  <2>2. CASE r = q /\ (PickName(q) \/ MakeLayout(q))
    BY <2>2 DEF PickName, MakeLayout, TypeInv, TypeOK
  <2>3. CASE r = q /\ ~PickName(q) /\ ~MakeLayout(q)
    <3>1. Alive(q) /\ dir' = dir
      BY <1>1, <1>2, <2>3
    <3>2. pc[q] # "named"
      BY <2>3
         DEF RunStep, Reject, Launch, BeginStep, AgentAnswers,
         ModelAnswers, CommandExits, ConversationEnds, Returns, WriteContent, WriteMeta,
         PostComment, WriteManifest, StepFails, Crash, Cancel, Alive, TypeInv, TypeOK
    <3> QED BY <1>0, <1>1, <2>3, <3>1, <3>2
  <2> QED BY <2>1, <2>2, <2>3
<1>4. \A p, r \in Runs :
         p # r /\ Alive(p)' /\ Alive(r)' /\ dir'[p] = dir'[r] => p \in twins' /\ r \in twins'
  <2>1. CASE dir' = dir /\ twins' = twins /\ ~PickName(q)
    BY <1>0, <1>2, <2>1
  <2>2. CASE PickName(q)
    <3>1. dir[q] = 0 /\ FreeName \in Names \ dirs
      BY <2>2, NameLeft DEF PickName, TypeInv, PlaceInv
    <3>2. PICK n \in Names \ dirs : n = FreeName
      BY <3>1
    <3>3. /\ dir' = [dir EXCEPT ![q] = n] /\ dir'[q] = n
          /\ \A p \in Runs : dir[p] = n /\ pc[p] = "named" => p \in twins' /\ q \in twins'
      BY <2>2, <3>2 DEF PickName, TypeInv, TypeOK
    <3>4. ASSUME NEW p \in Runs, p # q, Alive(p)', dir'[p] = n
          PROVE  p \in twins' /\ q \in twins'
      <4>1. Alive(p) /\ dir[p] = n
        BY <1>1, <1>2, <3>4
      <4>2. pc[p] = "named"
        BY <1>0, <4>1
      <4> QED BY <3>3, <4>1, <4>2
    <3>5. ASSUME NEW p \in Runs, NEW r \in Runs, p # r, p # q, r # q, Alive(p)', Alive(r)',
                 dir'[p] = dir'[r]
          PROVE  p \in twins' /\ r \in twins'
      BY <1>0, <1>1, <1>2, <3>5
    <3> QED BY <3>3, <3>4, <3>5
  <2> QED BY <1>1, <2>1, <2>2
<1>5. ASSUME NEW r \in Runs \ twins', Alive(r)'
      PROVE  Mine(r)'
  <2>1. r \in Runs \ twins
    BY <1>1
  <2>2. CASE r # q
    <3>1. Alive(r) /\ Mine(r)
      BY <1>0, <1>2, <1>5, <2>1, <2>2
    <3>2. ~Alive(q) \/ dir[q] # dir[r]
      BY <1>0, <2>1, <2>2, <3>1
    <3> QED BY <2>2, <3>1, <3>2, MineBesideOthers
  <2>3. CASE r = q /\ PickName(q)
    <3>0. \A d \in Names \ dirs : audit[d] = Nobody
      BY <1>0
    <3>1. Mine(q)'
      <4> HIDE DEF TypeInv, Mine, PickName, MakeLayout, Names
      <4> QED BY <2>3, <3>0, MineOnSetup
    <3> QED BY <2>3, <3>1
  <2>5. CASE r = q /\ MakeLayout(q)
    <3>1. pc[q] = "named"
      BY <2>5 DEF MakeLayout
    <3>2. Mine(q)
      BY <1>0, <2>1, <2>5, <3>1, OwnDir DEF Alive
    <3>3. Mine(q)'
      BY <1>0, <2>5, <3>2, MineOnSetup
    <3> QED BY <2>5, <3>3
  <2>4. CASE r = q /\ ~PickName(q) /\ ~MakeLayout(q)
    <3>1. Alive(q) /\ Mine(q) /\ pc'[q] # "failed"
      BY <1>0, <1>2, <1>5, <2>1, <2>4 DEF Alive
    <3>2. ~Reject(q) /\ ~StepFails(q) /\ ~Crash(q)
      BY <3>1 DEF Reject, StepFails, Crash, TypeInv, TypeOK
    <3>3. Launch(q) => ~cancel[q]
      BY <3>1 DEF Launch, TypeInv, TypeOK
    <3>4. WriteMeta(q) => dir[q] \in dirs
      BY <3>1 DEF WriteMeta, TypeInv, TypeOK
    <3>5. Cancel(q) \/ Launch(q) => pc[q] # "named"
      BY DEF Cancel, Launch
    <3>6. AgentAnswers(q) \/ ModelAnswers(q) \/ CommandExits(q) \/ ConversationEnds(q)
             => pc[q] # "named"
      BY DEF AgentAnswers, ModelAnswers, CommandExits, ConversationEnds, Returns
    <3> QED
      BY <2>4, <3>1, <3>2, <3>3, <3>4, <3>5, <3>6, MineOnWait, MineOnBegin, MineOnContent,
         MineOnMeta, MineOnPost, MineOnManifest DEF RunStep
  <2> QED BY <2>2, <2>3, <2>4, <2>5
<1>6. ASSUME NEW r \in Runs \ twins'
      PROVE  ToSet(ctx'[r]) \subseteq {Body(r)}
  <2>1. r \in Runs \ twins
    BY <1>1
  <2>2. CASE r # q \/ ctx' = ctx
    BY <1>0, <1>1, <2>1, <2>2
  <2>3. CASE r = q /\ BeginStep(q)
    <3>1. Alive(q) /\ pc[q] = "step" /\ num[q] <= Len(Order)
      BY <2>3, OwnDir DEF BeginStep, Alive
    <3>2. \A j \in 1 .. num[q] - 1 : content[dir[q]][Order[j]] = Body(q)
      BY <1>0, <2>1, <2>3, <3>1 DEF Mine
    <3>3. ToSet(Current(q).input) \subseteq {Order[j] : j \in 1 .. num[q] - 1}
      BY <3>1, CurrentFacts
    <3>4. \A k \in DOMAIN Current(q).input : content[dir[q]][Current(q).input[k]] = Body(q)
      BY <3>2, <3>3 DEF ToSet
    <3>5. ctx' = ctx \/ \E given :
             /\ ctx' = [ctx EXCEPT ![q] = given]
             /\ given \in {<<>>, [k \in DOMAIN Current(q).input |->
                                     content[dir[q]][Current(q).input[k]]]}
      BY <2>3 DEF BeginStep
    <3>6. \/ ctx'[q] = ctx[q] \/ ctx'[q] = <<>>
          \/ ctx'[q] = [k \in DOMAIN Current(q).input |-> content[dir[q]][Current(q).input[k]]]
      BY <3>5 DEF TypeInv, PlaceInv, GivenInv
    <3>7. ToSet(<< >>) \subseteq {Body(q)}
      BY DEF ToSet
    <3>8. ToSet([k \in DOMAIN Current(q).input |-> content[dir[q]][Current(q).input[k]]])
             \subseteq {Body(q)}
      BY <3>4 DEF ToSet
    <3> QED BY <1>0, <2>1, <2>3, <3>6, <3>7, <3>8
  <2> QED BY <1>1, <2>2, <2>3
<1>7. ASSUME NEW d \in Names \ dirs' PROVE audit'[d] = Nobody
  <2>1. d \in Names \ dirs
    BY <1>1
  <2>2. CASE audit' = audit
    BY <1>0, <2>1, <2>2
  <2>3. CASE MakeLayout(q)
    <3>1. d # dir[q]
      BY <1>7, <2>3 DEF MakeLayout
    <3> QED BY <1>0, <2>1, <3>1, OthersKeep DEF RunStep
  <2>4. audit' = audit \/ MakeLayout(q)
    BY DEF RunStep, Reject, PickName, Launch, BeginStep, AgentAnswers, ModelAnswers,
           CommandExits, ConversationEnds, Returns, WriteContent, WriteMeta, PostComment,
           WriteManifest, StepFails, Crash, Cancel
  <2> QED BY <2>2, <2>3, <2>4
<1> QED BY <1>3, <1>4, <1>5, <1>6, <1>7 DEF ApartInv

LEMMA StepApart ==
  ASSUME TypeInv, ApartInv, [Next]_vars
  PROVE  ApartInv'
<1>1. CASE purge' = "purged"
  BY <1>1 DEF ApartInv
<1>2. CASE purge' # "purged" /\ (UNCHANGED vars \/ PlanPurge \/ AnswerPurge)
  <2>1. purge # "purged"
    BY <1>2 DEF vars, PlanPurge, AnswerPurge
  <2>2. UNCHANGED <<scene, dag, pc, dir, num, ctx, dirs, content, meta, manifest, audit, twins>>
    BY <1>2 DEF vars, PlanPurge, AnswerPurge
  <2>3. \A r \in Runs : (Mine(r)' <=> Mine(r)) /\ (Alive(r)' <=> Alive(r))
    BY <2>2 DEF Mine, Alive
  <2> QED BY <2>1, <2>2, <2>3 DEF ApartInv
<1>3. ASSUME purge' # "purged", NEW q \in Runs, RunStep(q) \/ StepFails(q) \/ Crash(q) \/ Cancel(q)
      PROVE  ApartInv'
  <2>1. purge # "purged"
    BY <1>3, NamesKept
  <2> QED BY <1>3, <2>1, ApartSteps
<1> QED BY <1>1, <1>2, <1>3 DEF Next

LEMMA ApartEnough ==
  ASSUME TypeInv, ApartInv
  PROVE  RunsApart
<1> SUFFICES ASSUME purge # "purged", NEW r \in Runs \ twins
             PROVE  /\ ToSet(ctx[r]) \subseteq {Body(r)}
                    /\ pc[r] = "done" =>
                         /\ manifest[dir[r]].by = r /\ audit[dir[r]] \in {r, Nobody}
                         /\ \A s \in Steps : content[dir[r]][s] = Body(r) /\ meta[dir[r]][s] = r
  BY DEF RunsApart
<1>1. ToSet(ctx[r]) \subseteq {Body(r)}
  BY DEF ApartInv
<1>2. ASSUME pc[r] = "done"
      PROVE  /\ manifest[dir[r]].by = r /\ audit[dir[r]] \in {r, Nobody}
             /\ \A s \in Steps : content[dir[r]][s] = Body(r) /\ meta[dir[r]][s] = r
  <2>1. Alive(r) /\ dag.ok
    BY <1>2, OwnDir DEF Alive
  <2>2. Mine(r)
    BY <2>1 DEF ApartInv
  <2>3. num[r] = Len(Order) + 1 /\ Len(Order) \in Nat
    BY <1>2, <2>1, OrderFacts DEF TypeInv, PlaceInv
  <2>4. ToSet(Order) = Steps /\ DOMAIN Order = 1 .. Len(Order)
    BY <2>1, OrderFacts DEF TypeInv
  <2>5. \A s \in Steps : \E j \in 1 .. num[r] - 1 : s = Order[j]
    <3> HIDE DEF Steps, Order
    <3> QED BY <2>3, <2>4 DEF ToSet
  <2> QED BY <1>2, <2>2, <2>5 DEF Mine
<1> QED BY <1>1, <1>2

(***************************************************************************)
(* Runs that do not share a name by the window of unique_run_path do not    *)
(* meet at all: what a step is given and what a finished run leaves behind  *)
(* are its own, however many runs start, fail or die within the second.     *)
(***************************************************************************)
THEOREM RunsDoNotMeet ==
  Spec => []RunsApart
<1>1. Init => TypeInv /\ ApartInv
  <2>1. Init => ApartInv
    <3> SUFFICES ASSUME Init PROVE ApartInv
      OBVIOUS
    <3>1. \A r \in Runs : ~Alive(r) /\ ctx[r] = <<>>
      BY DEF Init, Alive
    <3>2. ToSet(<< >>) = {}
      BY DEF ToSet
    <3>3. \A d \in Names : audit[d] = Nobody
      BY DEF Init
    <3> QED BY <3>1, <3>2, <3>3 DEF ApartInv
  <2> QED BY <2>1, InitTypes
<1>2. TypeInv /\ ApartInv /\ [Next]_vars => TypeInv' /\ ApartInv'
  BY StepTypes, StepApart
<1>3. TypeInv /\ ApartInv => RunsApart
  BY ApartEnough
<1> QED BY <1>1, <1>2, <1>3, PTL DEF Spec
=============================================================================
