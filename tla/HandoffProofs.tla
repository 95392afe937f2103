--------------------------- MODULE HandoffProofs ---------------------------
(***************************************************************************)
(* What people say to a run is heard once and completely, for any number   *)
(* of comments, lines, pauses and resumed runs and any clock, and what the *)
(* message log of a conversation tells, for any number of entries and      *)
(* whichever of its writes fail, wherever in the line they do.             *)
(***************************************************************************)
EXTENDS Handoff, AuditLog, SequenceLemmas, FiniteSetTheorems, TLAPS

---------------------------------------------------------------------------
(* The invariant of the runs that wait for people. *)

Comments == [n : Nat, at : Nat, created : Nat]

AnAnswer ==
    [by : {"github"}, says : Seq(Comments), paused : Nat, asked : Nat]
        \cup [by : {"prompt"}, says : Seq(Nat \ {0}), paused : Nat, asked : Nat]
        \cup [by : {"message", "file", "stdin"}, says : {<<>>}, paused : Nat, asked : Nat]

HandoffTypes ==
    /\ clock \in 1 .. MaxTime /\ typed \in Nat
    /\ issue \in Seq(Comments) /\ keyboard \in Seq(Nat)
    /\ phase \in {"driving", "pausing", "asking", "idle"} /\ since \in 0 .. clock
    /\ answers \in Seq(AnAnswer)
    /\ saved \in [status : {"none", "paused", "done"}, at : Nat, answers : Seq(AnAnswer)]

(* The comments of the issue and the lines at the terminal, as the world    *)
(* makes them.                                                              *)
IssueIs(is, t) ==
    \A i \in 1 .. Len(is) :
        is[i].n = i /\ is[i].created = Second(is[i].at) /\ is[i].at <= t

KeyboardIs(kb, n) ==
    /\ \A i \in 1 .. Len(kb) : kb[i] <= n
    /\ \A i, j \in 1 .. Len(kb) : i < j /\ kb[i] # 0 /\ kb[j] # 0 => kb[i] < kb[j]

Apart  == {p \in Comments \X Comments : p[1] # p[2]}
Sorted == {p \in Apart : p[1].created <= p[2].created}
Rising == {p \in Nat \X Nat : p[1] < p[2]}

(* What the comments of an answer are, of an issue and a time. *)
FromIssue(a, is, t) ==
    a.by = "github" =>
        /\ Paired(a.says, Sorted) /\ a.asked <= t
        /\ \A c \in ToSet(a.says) : c \in ToSet(is) /\ c.at >= a.paused
        /\ \A c \in ToSet(is) : c.created > a.paused /\ c.at < a.asked => c \in ToSet(a.says)

(* What the lines of an answer are, of what is left and how many there were. *)
FromTerminal(a, kb, n) ==
    a.by = "prompt" =>
        /\ Paired(a.says, Rising)
        /\ \A l \in ToSet(a.says) :
              l <= n /\ \A k \in 1 .. Len(kb) : kb[k] # 0 => l < kb[k]

Distinct(a, b) ==
    a.by = b.by /\ a.by \in {"github", "prompt"} =>
        \A x \in ToSet(a.says), y \in ToSet(b.says) : x # y

(* What a sequence of answers says. *)
Sound(said, is, t, kb, n) ==
    /\ \A i \in 1 .. Len(said) : FromIssue(said[i], is, t) /\ FromTerminal(said[i], kb, n)
    /\ \A i, j \in 1 .. Len(said) : i < j => Distinct(said[i], said[j])

(* Its comments are all from before t. *)
Until(said, t) ==
    \A i \in 1 .. Len(said) : said[i].by = "github" => \A c \in ToSet(said[i].says) : c.at < t

HandoffInv ==
    /\ HandoffTypes
    /\ IssueIs(issue, clock) /\ KeyboardIs(keyboard, typed)
    /\ Sound(answers, issue, clock, keyboard, typed)
    /\ Sound(saved.answers, issue, clock, keyboard, typed)
    /\ phase = "driving" => Until(answers, since + 1)
    /\ phase \in {"pausing", "asking"} => Until(answers, since)
    /\ saved.status = "paused" => Until(saved.answers, saved.at)

LEMMA SecondBelow ==
    ASSUME NEW t \in Nat
    PROVE  Second(t) \in Nat /\ Second(t) <= t
  <1>1. Fraction \in Nat /\ Fraction > 0
    BY HandoffAssumption
  <1>2. t % Fraction \in Nat /\ t % Fraction <= t
    BY <1>1
  <1> QED BY <1>2 DEF Second

LEMMA OneOrNone ==
    ASSUME NEW S, NEW x \in S, NEW K, NEW R
    PROVE  LET t == IF x \in K THEN <<x>> ELSE <<>>
           IN  /\ t \in Seq(S) /\ Paired(t, R)
               /\ \A y : y \in ToSet(t) <=> y = x /\ x \in K
  <1>1. CASE x \in K
    <2>1. <<x>> \in Seq(S) /\ Len(<<x>>) = 1 /\ <<x>>[1] = x
      BY Singleton
    <2> DEFINE t == <<x>>
    <2>2. t \in Seq(S) /\ Len(t) = 1 /\ t[1] = x
      BY <2>1
    <2> HIDE DEF t
    <2>3. ToSet(t) = {x} /\ Paired(t, R)
      <3>1. ToSet(t) = {t[i] : i \in 1 .. 1}
        BY <2>2, ElementsOf
      <3> QED BY <2>2, <3>1 DEF Paired
    <2>4. t \in Seq(S) /\ Paired(t, R) /\ \A y : y \in ToSet(t) <=> y = x
      BY <2>2, <2>3
    <2> QED BY <1>1, <2>4 DEF t
  <1>2. CASE x \notin K
    <2> DEFINE t == <<>>
    <2>1. t \in Seq(S) /\ Len(t) = 0
      BY EmptySeq
    <2> HIDE DEF t
    <2>2. ToSet(t) = {} /\ Paired(t, R)
      <3>1. ToSet(t) = {t[i] : i \in 1 .. 0}
        BY <2>1, ElementsOf
      <3> QED BY <2>1, <3>1 DEF Paired
    <2>3. t \in Seq(S) /\ Paired(t, R) /\ \A y : y \notin ToSet(t)
      BY <2>1, <2>2
    <2> QED BY <1>2, <2>3 DEF t
  <1> QED BY <1>1, <1>2

(* What is kept of a sequence is in its order. *)
LEMMA AmongIs ==
    ASSUME NEW S, NEW R, NEW s \in Seq(S), Paired(s, R), NEW K
    PROVE  /\ Among(s, K) \in Seq(S) /\ Paired(Among(s, K), R)
           /\ \A x : x \in ToSet(Among(s, K)) <=> x \in ToSet(s) /\ x \in K
  <1> DEFINE n == Len(s)
             g == [k \in 1 .. n |-> IF s[k] \in K THEN <<s[k]>> ELSE <<>>]
  <1>1. n \in Nat /\ DOMAIN s = 1 .. n /\ ToSet(s) = {s[i] : i \in 1 .. n}
        /\ \A k \in 1 .. n : s[k] \in S
    BY LenProperties, ElementsOf
  <1> HIDE DEF n
  <1>2. ASSUME NEW k \in 1 .. n
        PROVE  /\ g[k] \in Seq(S) /\ Paired(g[k], R)
               /\ \A y : y \in ToSet(g[k]) <=> y = s[k] /\ s[k] \in K
    <2>1. g[k] = IF s[k] \in K THEN <<s[k]>> ELSE <<>>
      OBVIOUS
    <2>2. s[k] \in S
      BY <1>1
    <2> DEFINE x == s[k]
               t == IF x \in K THEN <<x>> ELSE <<>>
    <2>3. g[k] = t /\ x \in S
      BY <2>1, <2>2
    <2> HIDE DEF g, x
    <2>4. t \in Seq(S) /\ Paired(t, R) /\ \A y : y \in ToSet(t) <=> y = x /\ x \in K
      BY <2>3, OneOrNone
    <2> QED BY <2>3, <2>4 DEF x
  <1>3. Among(s, K) = FlattenSeq([k \in 1 .. n |-> g[k]])
    <2>1. [k \in 1 .. n |-> g[k]] = [i \in DOMAIN s |-> IF s[i] \in K THEN <<s[i]>> ELSE <<>>]
      BY <1>1
    <2> HIDE DEF g
    <2> QED BY <2>1 DEF Among
  <1> HIDE DEF g
  <1>4. \A j, k \in 1 .. n : j < k =>
            \A x \in ToSet(g[j]), y \in ToSet(g[k]) : <<x, y>> \in R
    <2>1. \A j, k \in 1 .. n : j < k => <<s[j], s[k]>> \in R
      BY DEF Paired, n
    <2> QED BY <1>2, <2>1
  <1>5. /\ Among(s, K) \in Seq(S) /\ Paired(Among(s, K), R)
        /\ \A x : x \in ToSet(Among(s, K)) <=> \E k \in 1 .. n : x \in ToSet(g[k])
    <2>1. \A k \in 1 .. n : g[k] \in Seq(S) /\ Paired(g[k], R)
      BY <1>2
    <2>2. /\ FlattenSeq([k \in 1 .. n |-> g[k]]) \in Seq(S)
          /\ Paired(FlattenSeq([k \in 1 .. n |-> g[k]]), R)
          /\ \A x : x \in ToSet(FlattenSeq([k \in 1 .. n |-> g[k]])) <=>
                \E k \in 1 .. n : x \in ToSet(g[k])
      <3>1. n \in Nat
        BY <1>1
      <3>2. \A j, k \in 1 .. n : j < k =>
                \A x \in ToSet(g[j]), y \in ToSet(g[k]) : <<x, y>> \in R
        BY <1>4
      <3> QED BY <2>1, <3>1, <3>2, FlatPairs
    <2> QED BY <1>3, <2>2
  <1>6. ASSUME NEW x
        PROVE  x \in ToSet(Among(s, K)) <=> x \in ToSet(s) /\ x \in K
    <2>1. x \in ToSet(s) <=> \E k \in 1 .. n : x = s[k]
      BY <1>1
    <2> QED BY <1>2, <1>5, <2>1
  <1> QED BY <1>5, <1>6

LEMMA ChronologicalIs ==
    ASSUME NEW s \in Seq(Comments), Paired(s, Apart),
           \A c \in ToSet(s) : c.created <= MaxTime
    PROVE  /\ Chronological(s) \in Seq(Comments)
           /\ Paired(Chronological(s), Sorted)
           /\ \A x : x \in ToSet(Chronological(s)) <=> x \in ToSet(s)
  <1> DEFINE n == MaxTime + 1
             At(k) == {c \in ToSet(s) : c.created = k - 1}
             g == [k \in 1 .. n |-> Among(s, At(k))]
  <1>1. n \in Nat /\ MaxTime \in Nat
    BY HandoffAssumption
  <1>2. ToSet(s) \subseteq Comments
    BY ElementsOf
  <1>3. ASSUME NEW k \in 1 .. n
        PROVE  /\ g[k] \in Seq(Comments) /\ Paired(g[k], Apart)
               /\ \A x : x \in ToSet(g[k]) <=> x \in ToSet(s) /\ x.created = k - 1
    <2>1. g[k] = Among(s, At(k))
      OBVIOUS
    <2> HIDE DEF g
    <2> DEFINE K == At(k)
    <2>2. \A x : x \in K <=> x \in ToSet(s) /\ x.created = k - 1
      OBVIOUS
    <2>3. g[k] = Among(s, K)
      BY <2>1
    <2> HIDE DEF K
    <2>4. /\ Among(s, K) \in Seq(Comments) /\ Paired(Among(s, K), Apart)
          /\ \A x : x \in ToSet(Among(s, K)) <=> x \in ToSet(s) /\ x \in K
      BY AmongIs
    <2> QED BY <2>2, <2>3, <2>4
  <1>4. Chronological(s) = FlattenSeq([k \in 1 .. n |-> g[k]])
    <2>1. [k \in 1 .. n |-> g[k]] = [t \in 1 .. MaxTime + 1 |-> Among(s, {c \in ToSet(s) : c.created = t - 1})]
      OBVIOUS
    <2> HIDE DEF g, n
    <2> QED BY <2>1 DEF Chronological
  <1> HIDE DEF g, n
  <1>5. ASSUME NEW k \in 1 .. n PROVE Paired(g[k], Sorted)
    <2>1. g[k] \in Seq(Comments) /\ Paired(g[k], Apart)
      BY <1>3
    <2>2. Len(g[k]) \in Nat /\ ToSet(g[k]) = {g[k][i] : i \in 1 .. Len(g[k])}
      BY <2>1, ElementsOf
    <2>3. \A i \in 1 .. Len(g[k]) : g[k][i].created = k - 1
      BY <1>3, <2>2
    <2>4. k - 1 \in Int
      BY <1>1
    <2> QED BY <2>1, <2>3, <2>4 DEF Paired, Sorted
  <1>6. ASSUME NEW j \in 1 .. n, NEW k \in 1 .. n, j < k,
               NEW x \in ToSet(g[j]), NEW y \in ToSet(g[k])
        PROVE  <<x, y>> \in Sorted
    <2>1. x \in Comments /\ y \in Comments /\ x.created = j - 1 /\ y.created = k - 1
      BY <1>2, <1>3
    <2>2. j - 1 < k - 1 /\ j - 1 \in Int /\ k - 1 \in Int
      BY <1>1, <1>6
    <2> QED BY <2>1, <2>2 DEF Sorted, Apart
  <1>7. /\ Chronological(s) \in Seq(Comments) /\ Paired(Chronological(s), Sorted)
        /\ \A x : x \in ToSet(Chronological(s)) <=> \E k \in 1 .. n : x \in ToSet(g[k])
    <2>1. \A k \in 1 .. n : g[k] \in Seq(Comments) /\ Paired(g[k], Sorted)
      BY <1>3, <1>5
    <2>2. \A j, k \in 1 .. n : j < k =>
              \A x \in ToSet(g[j]), y \in ToSet(g[k]) : <<x, y>> \in Sorted
      BY <1>6
    <2>3. /\ FlattenSeq([k \in 1 .. n |-> g[k]]) \in Seq(Comments)
          /\ Paired(FlattenSeq([k \in 1 .. n |-> g[k]]), Sorted)
          /\ \A x : x \in ToSet(FlattenSeq([k \in 1 .. n |-> g[k]])) <=>
                \E k \in 1 .. n : x \in ToSet(g[k])
      BY <1>1, <2>1, <2>2, FlatPairs
    <2> QED BY <1>4, <2>3
  <1>8. ASSUME NEW x \in ToSet(s) PROVE x \in ToSet(Chronological(s))
    <2>1. x.created \in Nat /\ x.created <= MaxTime
      BY <1>2 DEF Comments
    <2>2. x.created + 1 \in 1 .. n /\ x.created = (x.created + 1) - 1
      BY <1>1, <2>1 DEF n
    <2> QED BY <1>3, <1>7, <2>2
  <1> QED BY <1>3, <1>7, <1>8

(* The comments since the pause: those of the listing, in the order of      *)
(* their seconds.                                                           *)
LEMMA FetchedAre ==
    ASSUME NEW s \in Seq(Comments), Paired(s, Apart),
           \A c \in ToSet(s) : c.created <= MaxTime, NEW cutoff
    PROVE  /\ FetchNewCommentsSince(s, cutoff) \in Seq(Comments)
           /\ Paired(FetchNewCommentsSince(s, cutoff), Sorted)
           /\ \A x : x \in ToSet(FetchNewCommentsSince(s, cutoff))
                        <=> x \in ToSet(s) /\ x.created >= cutoff
  <1> DEFINE K == {c \in ToSet(s) : c.created >= cutoff}
             u == Among(s, K)
  <1>1. \A x : x \in K <=> x \in ToSet(s) /\ x.created >= cutoff
    OBVIOUS
  <1>2. FetchNewCommentsSince(s, cutoff) = Chronological(u)
    BY DEF FetchNewCommentsSince
  <1> HIDE DEF K
  <1>3. /\ u \in Seq(Comments) /\ Paired(u, Apart)
        /\ \A x : x \in ToSet(u) <=> x \in ToSet(s) /\ x \in K
    BY AmongIs
  <1> HIDE DEF u
  <1>4. \A c \in ToSet(u) : c.created <= MaxTime
    BY <1>3
  <1>5. /\ Chronological(u) \in Seq(Comments) /\ Paired(Chronological(u), Sorted)
        /\ \A x : x \in ToSet(Chronological(u)) <=> x \in ToSet(u)
    BY <1>3, <1>4, ChronologicalIs
  <1> QED BY <1>1, <1>2, <1>3, <1>5

LEMMA IssueApart ==
    ASSUME NEW is \in Seq(Comments), NEW t \in Nat, t <= MaxTime, IssueIs(is, t)
    PROVE  /\ Paired(is, Apart) /\ ToSet(is) = {is[i] : i \in 1 .. Len(is)}
           /\ \A c \in ToSet(is) :
                 c \in Comments /\ c.at <= t /\ c.created <= c.at /\ c.created <= MaxTime
  <1> DEFINE n == Len(is)
  <1>1. n \in Nat /\ (\A i \in 1 .. n : is[i] \in Comments) /\ ToSet(is) = {is[i] : i \in 1 .. n}
        /\ MaxTime \in Nat
    BY ElementsOf, ElementOfSeq, HandoffAssumption
  <1>2. \A i \in 1 .. n : is[i].n = i /\ is[i].created = Second(is[i].at) /\ is[i].at <= t
    BY DEF IssueIs
  <1> HIDE DEF n
  <1>3. ASSUME NEW j \in 1 .. n, NEW k \in 1 .. n, j < k PROVE <<is[j], is[k]>> \in Apart
    <2>1. is[j].n # is[k].n
      BY <1>1, <1>2, <1>3
    <2> QED BY <1>1, <2>1 DEF Apart
  <1>4. ASSUME NEW i \in 1 .. n
        PROVE  is[i].at <= t /\ is[i].created <= is[i].at /\ is[i].created <= MaxTime
    <2>1. is[i].at \in Nat /\ is[i].at <= t /\ is[i].created = Second(is[i].at)
      BY <1>1, <1>2 DEF Comments
    <2>2. is[i].created \in Nat /\ is[i].created <= is[i].at
      BY <2>1, SecondBelow
    <2> QED BY <1>1, <2>1, <2>2
  <1> QED BY <1>1, <1>3, <1>4 DEF Paired, n

(* gh names every comment of the issue once, or none. *)
LEMMA ListingIs ==
    ASSUME NEW is \in Seq(Comments), Paired(is, Apart),
           NEW s \in {is, Reverse(is), <<>>}
    PROVE  /\ s \in Seq(Comments) /\ Paired(s, Apart)
           /\ s = <<>> \/ ToSet(s) = ToSet(is)
  <1> DEFINE n == Len(is)
  <1>1. n \in Nat /\ (\A i \in 1 .. n : is[i] \in Comments) /\ ToSet(is) = {is[i] : i \in 1 .. n}
    BY ElementsOf, ElementOfSeq
  <1>2. CASE s = is
    BY <1>2
  <1>3. CASE s = <<>>
    <2>1. s \in Seq(Comments) /\ Len(s) = 0
      BY <1>3, EmptySeq
    <2> QED BY <1>3, <2>1 DEF Paired
  <1>4. CASE s = Reverse(is)
    <2>1. s = [i \in 1 .. n |-> is[(n - i) + 1]]
      BY <1>4 DEF Reverse
    <2>2. \A i, j \in 1 .. n : i < j => <<is[i], is[j]>> \in Apart
      BY DEF Paired
    <2> HIDE DEF n
    <2>3. \A i \in 1 .. n : n - i + 1 \in 1 .. n /\ n - (n - i + 1) + 1 = i
      BY <1>1
    <2>4. \A i \in 1 .. n : s[i] = is[n - i + 1] /\ s[i] \in Comments
      BY <1>1, <2>1, <2>3
    <2>5. s \in Seq(Comments)
      <3> DEFINE e(i) == is[(n - i) + 1]
      <3>1. \A i \in 1 .. n : e(i) \in Comments
        BY <1>1, <2>3
      <3>2. s = [i \in 1 .. n |-> e(i)]
        BY <2>1
      <3> HIDE DEF e
      <3> QED BY <1>1, <3>1, <3>2, IsASeq
    <2>6. Len(s) = n
      <3>1. DOMAIN s = 1 .. n /\ Len(s) \in Nat /\ DOMAIN s = 1 .. Len(s)
        BY <2>1, <2>5, LenProperties
      <3> QED BY <1>1, <3>1
    <2>7. Paired(s, Apart)
      <3>1. ASSUME NEW i \in 1 .. n, NEW j \in 1 .. n, i < j PROVE <<s[i], s[j]>> \in Apart
        <4>1. n - j + 1 < n - i + 1
          BY <1>1, <3>1
        <4>2. <<is[n - j + 1], is[n - i + 1]>> \in Apart
          BY <2>2, <2>3, <4>1
        <4> QED BY <2>4, <4>2 DEF Apart
      <3> QED BY <2>6, <3>1 DEF Paired
    <2>8. ToSet(s) = ToSet(is)
      <3>1. ToSet(s) = {s[i] : i \in 1 .. n}
        BY <2>5, <2>6, ElementsOf
      <3>2. \A i \in 1 .. n : s[n - i + 1] = is[i]
        BY <2>3, <2>4
      <3>3. \A i \in 1 .. n : s[i] \in ToSet(is) /\ is[i] \in ToSet(s)
        BY <1>1, <2>3, <2>4, <3>1, <3>2
      <3> QED BY <1>1, <3>1, <3>3
    <2> QED BY <2>5, <2>7, <2>8
  <1> QED BY <1>2, <1>3, <1>4

(* The first element a test holds of. *)
LEMMA LeadingIs ==
    ASSUME NEW kb \in Seq(Nat)
    PROVE  /\ Leading(kb) \in 0 .. Len(kb)
           /\ Leading(kb) = 0 => \A i \in 1 .. Len(kb) : kb[i] = 0
           /\ Leading(kb) # 0 => kb[Leading(kb)] # 0
  <1> DEFINE I == {i \in 1 .. Len(kb) : kb[i] # 0}
  <1>1. Leading(kb) = IF I # {} THEN Min(I) ELSE 0
    BY DEF Leading, SelectInSeq
  <1>2. Len(kb) \in Nat
    BY LenProperties
  <1>3. CASE I = {}
    BY <1>1, <1>2, <1>3
  <1>4. CASE I # {}
    <2>1. I \subseteq Nat
      BY <1>2
    <2>2. \E x \in I : \A y \in I : x <= y
      <3> HIDE DEF I
      <3> QED BY <1>4, <2>1, Least
    <2>3. Min(I) \in I
      <3> HIDE DEF I
      <3> QED BY <2>2 DEF Min
    <2> QED BY <1>1, <1>2, <1>4, <2>3
  <1> QED BY <1>3, <1>4

LEMMA BlankIs ==
    ASSUME NEW s \in Seq(Nat), \E i \in 1 .. Len(s) : s[i] = 0
    PROVE  LET e == SelectInSeq(s, LAMBDA l : l = 0)
           IN  /\ e \in 1 .. Len(s) /\ \A i \in 1 .. e - 1 : s[i] # 0
  <1> DEFINE I == {i \in 1 .. Len(s) : s[i] = 0}
             e == SelectInSeq(s, LAMBDA l : l = 0)
  <1>1. e = IF I # {} THEN Min(I) ELSE 0
    BY DEF SelectInSeq
  <1>2. Len(s) \in Nat
    BY LenProperties
  <1>3. I # {} /\ I \subseteq Nat
    BY <1>2
  <1>4. \E x \in I : \A y \in I : x <= y
    <2> HIDE DEF I
    <2> QED BY <1>3, Least
  <1>5. Min(I) \in I /\ \A y \in I : Min(I) <= y
    <2> HIDE DEF I
    <2> QED BY <1>4 DEF Min
  <1>6. e = Min(I)
    BY <1>1, <1>3
  <1> HIDE DEF e
  <1>7. e \in I /\ \A y \in I : e <= y
    <2> HIDE DEF I
    <2> QED BY <1>5, <1>6
  <1>8. ASSUME NEW i \in 1 .. e - 1, s[i] = 0 PROVE FALSE
    <2>1. e \in 1 .. Len(s)
      BY <1>7
    <2>2. i \in I
      BY <1>2, <1>8, <2>1
    <2> QED BY <1>2, <1>7, <2>1, <2>2
  <1> QED BY <1>7, <1>8 DEF e

(* What is read of the terminal without the blank lines before it. *)
LEMMA TextIs ==
    ASSUME NEW kb \in Seq(Nat)
    PROVE  /\ FromText(kb) \in Seq(Nat)
           /\ \E d \in Nat : /\ d + Len(FromText(kb)) <= Len(kb)
                             /\ \A i \in 1 .. Len(FromText(kb)) : FromText(kb)[i] = kb[d + i]
           /\ Leading(kb) # 0 => Len(FromText(kb)) = Len(kb) + 1 - Leading(kb)
                    /\ \A i \in 1 .. Len(FromText(kb)) : FromText(kb)[i] = kb[Leading(kb) + i - 1]
           /\ Leading(kb) = 0 => Len(FromText(kb)) = 0
  <1> DEFINE f == Leading(kb)
             n == Len(kb)
             r == FromText(kb)
  <1>1. n \in Nat /\ f \in 0 .. n /\ \A i \in 1 .. n : kb[i] \in Nat
    BY LeadingIs, LenProperties, ElementOfSeq
  <1>2. r = IF f = 0 THEN <<>> ELSE SubSeq(kb, f, n)
    BY DEF FromText
  <1> HIDE DEF f, n, r
  <1>3. CASE f = 0
    <2>1. r \in Seq(Nat) /\ Len(r) = 0
      BY <1>2, <1>3, EmptySeq
    <2>2. 0 + Len(r) <= n /\ \A i \in 1 .. Len(r) : r[i] = kb[0 + i]
      BY <1>1, <2>1
    <2> QED BY <1>3, <2>1, <2>2 DEF f, n, r
  <1>4. CASE f # 0
    <2>1. f \in Int /\ n \in Int /\ (\A i \in f .. n : kb[i] \in Nat) /\ f <= n
      BY <1>1, <1>4
    <2>2. /\ r \in Seq(Nat) /\ Len(r) = n - f + 1
          /\ \A i \in 1 .. n - f + 1 : r[i] = kb[f + i - 1]
      BY <1>2, <1>4, <2>1, SubSeqProperties
    <2>3. f - 1 \in Nat /\ f - 1 + Len(r) <= n
      BY <1>1, <1>4, <2>2
    <2>4. \A i \in 1 .. Len(r) : r[i] = kb[(f - 1) + i]
      <3>1. \A i \in 1 .. Len(r) : f + i - 1 = (f - 1) + i /\ i \in 1 .. n - f + 1
        BY <2>1, <2>2
      <3> QED BY <2>2, <3>1
    <2>5. \A i \in 1 .. Len(r) : r[i] = kb[f + i - 1]
      BY <2>2
    <2>6. Len(r) = n + 1 - f
      BY <2>1, <2>2
    <2> QED BY <1>4, <2>2, <2>3, <2>4, <2>5, <2>6 DEF f, n, r
  <1> QED BY <1>3, <1>4

(* Lines that were read, some of those typed and none of them blank. *)
ReadFrom(b, kb) ==
    /\ b \in Seq(Nat \ {0}) /\ Paired(b, Rising)
    /\ \A l \in ToSet(b) : l # 0 /\ \E i \in 1 .. Len(kb) : l = kb[i]

LEMMA ReadIs ==
    ASSUME NEW kb \in Seq(Nat), NEW n, KeyboardIs(kb, n), NEW b \in Seq(Nat), NEW d \in Nat,
           d + Len(b) <= Len(kb), \A i \in 1 .. Len(b) : b[i] = kb[d + i] /\ b[i] # 0
    PROVE  ReadFrom(b, kb)
  <1> DEFINE M == Len(b)
             N == Len(kb)
  <1>1. /\ M \in Nat /\ N \in Nat /\ d + M <= N /\ (\A i \in 1 .. M : b[i] \in Nat \ {0})
        /\ ToSet(b) = {b[i] : i \in 1 .. M} /\ b \in [1 .. M -> Nat]
    BY LenProperties, ElementOfSeq, ElementsOf
  <1>2. \A i, j \in 1 .. N : i < j /\ kb[i] # 0 /\ kb[j] # 0 => kb[i] < kb[j]
    BY DEF KeyboardIs
  <1>3. \A i \in 1 .. M : b[i] = kb[d + i]
    OBVIOUS
  <1> HIDE DEF M, N
  <1>4. \A i \in 1 .. M : d + i \in 1 .. N
    BY <1>1
  <1>5. b \in Seq(Nat \ {0})
    <2>1. b \in [1 .. M -> Nat \ {0}]
      BY <1>1
    <2> DEFINE e(i) == b[i]
    <2>2. b = [i \in 1 .. M |-> e(i)] /\ \A i \in 1 .. M : e(i) \in Nat \ {0}
      BY <2>1
    <2> HIDE DEF e
    <2> QED BY <1>1, <2>2, IsASeq
  <1>6. ASSUME NEW i \in 1 .. M, NEW j \in 1 .. M, i < j PROVE <<b[i], b[j]>> \in Rising
    <2>1. d + i < d + j /\ d + i \in 1 .. N /\ d + j \in 1 .. N
      BY <1>1, <1>4, <1>6
    <2>2. kb[d + i] < kb[d + j]
      BY <1>1, <1>2, <1>3, <2>1
    <2> QED BY <1>1, <1>3, <2>2 DEF Rising
  <1>7. \A l \in ToSet(b) : l # 0 /\ \E i \in 1 .. N : l = kb[i]
    BY <1>1, <1>3, <1>4
  <1> QED BY <1>5, <1>6, <1>7 DEF ReadFrom, Paired, M, N

LEMMA ParagraphIs ==
    ASSUME NEW kb \in Seq(Nat), NEW n \in Nat, KeyboardIs(kb, n), Ended(kb)
    PROVE  /\ ReadFrom(Paragraph(kb).body, kb)
           /\ Paragraph(kb).left \in Seq(Nat) /\ KeyboardIs(Paragraph(kb).left, n)
           /\ \A k \in 1 .. Len(Paragraph(kb).left) :
                 /\ \E i \in 1 .. Len(kb) : Paragraph(kb).left[k] = kb[i]
                 /\ Paragraph(kb).left[k] # 0 =>
                       \A l \in ToSet(Paragraph(kb).body) : l < Paragraph(kb).left[k]
  <1> DEFINE r == FromText(kb)
             e == SelectInSeq(r, LAMBDA l : l = 0)
             body == SubSeq(r, 1, e - 1)
             left == SubSeq(r, e + 1, Len(r))
  <1>1. Paragraph(kb).body = body /\ Paragraph(kb).left = left
    BY DEF Paragraph
  <1>2. r \in Seq(Nat) /\ Len(r) \in Nat /\ Len(kb) \in Nat
    BY TextIs, LenProperties
  <1>3. PICK d \in Nat : /\ d + Len(r) <= Len(kb)
                         /\ \A i \in 1 .. Len(r) : r[i] = kb[d + i]
    BY TextIs
  <1>4. \E i \in 1 .. Len(r) : r[i] = 0
    <2>1. PICK i \in Leading(kb) .. Len(kb) : kb[i] = 0
      BY DEF Ended
    <2>2. Leading(kb) > 0 /\ Leading(kb) \in 0 .. Len(kb)
      BY LeadingIs DEF Ended
    <2>3. /\ Len(r) = Len(kb) + 1 - Leading(kb)
          /\ \A j \in 1 .. Len(r) : r[j] = kb[Leading(kb) + j - 1]
      <3>1. Leading(kb) # 0
        BY <2>2
      <3> QED BY <3>1, TextIs
    <2> DEFINE f == Leading(kb)
               N == Len(kb)
    <2>4. f \in 1 .. N /\ N \in Nat /\ i \in f .. N /\ Len(r) = N + 1 - f
      BY <1>2, <2>2, <2>3
    <2> HIDE DEF f, N, r
    <2>5. i - f + 1 \in 1 .. Len(r) /\ f + (i - f + 1) - 1 = i
      BY <2>4
    <2>6. r[i - f + 1] = kb[f + (i - f + 1) - 1]
      BY <2>3, <2>5 DEF f
    <2> QED BY <2>1, <2>5, <2>6
  <1> HIDE DEF r
  <1>5. e \in 1 .. Len(r) /\ \A i \in 1 .. e - 1 : r[i] # 0
    BY <1>2, <1>4, BlankIs
  <1> HIDE DEF e
  <1>6. \A i \in 1 .. Len(r) : r[i] \in Nat
    BY <1>2, ElementOfSeq
  <1>7. body \in Seq(Nat) /\ Len(body) = e - 1 /\ \A i \in 1 .. e - 1 : body[i] = r[i]
    <2>1. 1 \in Int /\ e - 1 \in Int /\ \A i \in 1 .. e - 1 : r[i] \in Nat
      BY <1>2, <1>5, <1>6
    <2>2. /\ body \in Seq(Nat) /\ Len(body) = IF 1 <= e - 1 THEN e - 1 - 1 + 1 ELSE 0
          /\ \A i \in 1 .. e - 1 - 1 + 1 : body[i] = r[1 + i - 1]
      BY <2>1, SubSeqProperties
    <2> HIDE DEF body
    <2>3. Len(body) = e - 1
      BY <1>2, <1>5, <2>2
    <2>4. \A i \in 1 .. e - 1 : 1 + i - 1 = i /\ i \in 1 .. e - 1 - 1 + 1
      BY <1>2, <1>5
    <2> QED BY <2>2, <2>3, <2>4
  <1>8. /\ left \in Seq(Nat) /\ Len(left) = Len(r) - e
        /\ \A k \in 1 .. Len(r) - e : left[k] = r[e + k]
    <2>1. e + 1 \in Int /\ Len(r) \in Int /\ \A i \in e + 1 .. Len(r) : r[i] \in Nat
      BY <1>2, <1>5, <1>6
    <2>2. /\ left \in Seq(Nat)
          /\ Len(left) = IF e + 1 <= Len(r) THEN Len(r) - (e + 1) + 1 ELSE 0
          /\ \A i \in 1 .. Len(r) - (e + 1) + 1 : left[i] = r[e + 1 + i - 1]
      BY <2>1, SubSeqProperties
    <2> HIDE DEF left
    <2>3. Len(left) = Len(r) - e
      BY <1>2, <1>5, <2>2
    <2>4. \A k \in 1 .. Len(r) - e : e + 1 + k - 1 = e + k /\ k \in 1 .. Len(r) - (e + 1) + 1
      BY <1>2, <1>5
    <2> QED BY <2>2, <2>3, <2>4
  <1> HIDE DEF body, left
  <1>9. ReadFrom(body, kb)
    <2>1. \A i \in 1 .. Len(body) : i \in 1 .. Len(r) /\ i \in 1 .. e - 1
      BY <1>2, <1>5, <1>7
    <2>2. d + Len(body) <= Len(kb)
      BY <1>2, <1>3, <1>5, <1>7
    <2>3. \A i \in 1 .. Len(body) : body[i] = kb[d + i] /\ body[i] # 0
      BY <1>3, <1>5, <1>7, <2>1
    <2> QED BY <1>7, <2>2, <2>3, ReadIs
  <1> DEFINE N == Len(kb)
             L == Len(left)
             c == d + e
  <1>10. N \in Nat /\ L \in Nat /\ c \in Nat /\ c + L <= N /\ c > d
    BY <1>2, <1>3, <1>5, <1>8
  <1>11. \A k \in 1 .. L : left[k] = kb[c + k] /\ c + k \in 1 .. N
    <2>1. \A k \in 1 .. L : e + k \in 1 .. Len(r) /\ d + (e + k) = c + k /\ k \in 1 .. Len(r) - e
      BY <1>2, <1>5, <1>8
    <2>2. \A k \in 1 .. L : left[k] = kb[c + k]
      BY <1>3, <1>8, <2>1
    <2>3. \A k \in 1 .. L : c + k \in 1 .. N
      BY <1>10
    <2> QED BY <2>2, <2>3
  <1>12. ASSUME NEW m \in 1 .. Len(body)
         PROVE  body[m] = kb[d + m] /\ d + m \in 1 .. N /\ d + m < c /\ body[m] # 0
    <2>1. m \in 1 .. e - 1 /\ m \in 1 .. Len(r)
      BY <1>2, <1>5, <1>7
    <2>2. d + m \in 1 .. N /\ d + m < c
      BY <1>2, <1>3, <1>5, <2>1
    <2> QED BY <1>3, <1>5, <1>7, <2>1, <2>2
  <1>13. /\ \A i \in 1 .. N : kb[i] <= n
         /\ \A i, j \in 1 .. N : i < j /\ kb[i] # 0 /\ kb[j] # 0 => kb[i] < kb[j]
    BY DEF KeyboardIs
  <1> HIDE DEF N, L, c
  <1>14. KeyboardIs(left, n)
    <2>1. \A i \in 1 .. L : left[i] <= n
      BY <1>11, <1>13
    <2>2. ASSUME NEW i \in 1 .. L, NEW j \in 1 .. L, i < j, left[i] # 0, left[j] # 0
          PROVE  left[i] < left[j]
      <3>1. c + i < c + j
        BY <1>10, <2>2
      <3> QED BY <1>11, <1>13, <2>2, <3>1
    <2> QED BY <2>1, <2>2 DEF KeyboardIs, L
  <1>15. ASSUME NEW k \in 1 .. L, left[k] # 0, NEW l \in ToSet(body)
         PROVE  l < left[k]
    <2>1. PICK m \in 1 .. Len(body) : l = body[m]
      <3>1. ToSet(body) = {body[i] : i \in 1 .. Len(body)}
        BY <1>7, ElementsOf
      <3> QED BY <3>1
    <2>2. d + m < c + k
      BY <1>10, <1>12
    <2>3. kb[d + m] < kb[c + k]
      BY <1>11, <1>12, <1>13, <1>15, <2>2
    <2> QED BY <1>11, <1>12, <2>1, <2>3
  <1>16. \A k \in 1 .. L : \E i \in 1 .. N : left[k] = kb[i]
    BY <1>11
  <1> QED BY <1>1, <1>8, <1>9, <1>14, <1>15, <1>16 DEF L, N

(* What is read at the end of the input. *)
LEMMA LastTextIs ==
    ASSUME NEW kb \in Seq(Nat), NEW n, KeyboardIs(kb, n), ~ Ended(kb)
    PROVE  ReadFrom(FromText(kb), kb)
  <1> DEFINE r == FromText(kb)
  <1>1. r \in Seq(Nat) /\ Len(r) \in Nat /\ Len(kb) \in Nat
    BY TextIs, LenProperties
  <1>2. PICK d \in Nat : d + Len(r) <= Len(kb) /\ \A i \in 1 .. Len(r) : r[i] = kb[d + i]
    BY TextIs
  <1>3. ASSUME NEW i \in 1 .. Len(r) PROVE r[i] # 0
    <2> DEFINE f == Leading(kb)
               N == Len(kb)
    <2>1. f \in 0 .. N /\ f # 0
      BY <1>1, LeadingIs, TextIs
    <2>2. Len(r) = N + 1 - f /\ r[i] = kb[f + i - 1]
      BY <2>1, TextIs
    <2> HIDE DEF r
    <2>3. \A j \in f .. N : kb[j] # 0
      BY <2>1 DEF Ended
    <2> HIDE DEF f, N
    <2>4. N \in Nat
      BY <1>1 DEF N
    <2>5. f + i - 1 \in f .. N
      BY <2>1, <2>2, <2>4
    <2> QED BY <2>2, <2>3, <2>5
  <1> HIDE DEF r
  <1>4. ReadFrom(r, kb)
    BY <1>1, <1>2, <1>3, ReadIs
  <1> QED BY <1>4 DEF r

(* One answer more. *)
LEMMA SoundAppend ==
    ASSUME NEW said \in Seq(AnAnswer), NEW a \in AnAnswer,
           NEW is, NEW t, NEW kb, NEW n, Sound(said, is, t, kb, n),
           FromIssue(a, is, t), FromTerminal(a, kb, n),
           \A i \in 1 .. Len(said) : Distinct(said[i], a)
    PROVE  Append(said, a) \in Seq(AnAnswer) /\ Sound(Append(said, a), is, t, kb, n)
  <1> DEFINE N == Len(said)
             u == Append(said, a)
  <1>1. /\ N \in Nat /\ u \in Seq(AnAnswer) /\ Len(u) = N + 1 /\ u[N + 1] = a
        /\ \A i \in 1 .. N : u[i] = said[i]
    BY AppendIs
  <1>2. /\ \A i \in 1 .. N : FromIssue(said[i], is, t) /\ FromTerminal(said[i], kb, n)
        /\ \A i, j \in 1 .. N : i < j => Distinct(said[i], said[j])
        /\ \A i \in 1 .. N : Distinct(said[i], a)
    BY DEF Sound
  <1> HIDE DEF N, u
  <1>3. \A i \in 1 .. N + 1 : i \in 1 .. N \/ i = N + 1
    BY <1>1
  <1>4. \A i \in 1 .. N + 1 : FromIssue(u[i], is, t) /\ FromTerminal(u[i], kb, n)
    BY <1>1, <1>2, <1>3
  <1>5. ASSUME NEW i \in 1 .. N + 1, NEW j \in 1 .. N + 1, i < j
        PROVE  Distinct(u[i], u[j])
    <2>1. i \in 1 .. N
      BY <1>1, <1>5
    <2> QED BY <1>1, <1>2, <1>3, <1>5, <2>1
  <1>6. Sound(u, is, t, kb, n)
    BY <1>1, <1>4, <1>5 DEF Sound
  <1> QED BY <1>1, <1>6 DEF u

LEMMA UntilAppend ==
    ASSUME NEW said \in Seq(AnAnswer), NEW a \in AnAnswer, NEW t, Until(said, t),
           a.by = "github" => \A c \in ToSet(a.says) : c.at < t
    PROVE  Until(Append(said, a), t)
  <1> DEFINE N == Len(said)
             u == Append(said, a)
  <1>1. N \in Nat /\ Len(u) = N + 1 /\ u[N + 1] = a /\ \A i \in 1 .. N : u[i] = said[i]
    BY AppendIs
  <1>2. \A i \in 1 .. N : said[i].by = "github" => \A c \in ToSet(said[i].says) : c.at < t
    BY DEF Until
  <1> HIDE DEF N, u
  <1>3. \A i \in 1 .. N + 1 : i \in 1 .. N \/ i = N + 1
    BY <1>1
  <1>4. \A i \in 1 .. Len(u) : u[i].by = "github" => \A c \in ToSet(u[i].says) : c.at < t
    BY <1>1, <1>2, <1>3
  <1> QED BY <1>4 DEF Until, u

(* Later the comments of a sequence of answers are from before it still.    *)
LEMMA UntilLater ==
    ASSUME NEW said \in Seq(AnAnswer), NEW t \in Nat, Until(said, t), NEW u \in Nat, t <= u
    PROVE  Until(said, u)
  <1>1. ASSUME NEW i \in 1 .. Len(said), said[i].by = "github", NEW c \in ToSet(said[i].says)
        PROVE  c.at < u
    <2>1. said[i] \in AnAnswer
      BY ElementOfSeq
    <2>2. said[i].says \in Seq(Comments)
      BY <1>1, <2>1 DEF AnAnswer
    <2>3. c \in Comments
      BY <1>1, <2>2, ElementsOf
    <2>4. c.at \in Nat /\ c.at < t
      BY <1>1, <2>3 DEF Comments, Until
    <2> QED BY <2>4
  <1> QED BY <1>1 DEF Until

(* What an answer says stays true of an issue that grows, and of a terminal *)
(* at which more is typed or of whose lines some were read.                 *)
LEMMA FromIssueStays ==
    ASSUME NEW a \in AnAnswer, NEW is, NEW t \in Nat, FromIssue(a, is, t),
           NEW js \in Seq(Comments), NEW u \in Nat, t <= u, \A c \in ToSet(is) : c \in ToSet(js),
           \A c \in ToSet(js) : c \in ToSet(is) \/ c.at >= t
    PROVE  FromIssue(a, js, u)
  <1> SUFFICES ASSUME a.by = "github"
               PROVE  /\ Paired(a.says, Sorted) /\ a.asked <= u
                      /\ \A c \in ToSet(a.says) : c \in ToSet(js) /\ c.at >= a.paused
                      /\ \A c \in ToSet(js) :
                            c.created > a.paused /\ c.at < a.asked => c \in ToSet(a.says)
    BY DEF FromIssue
  <1>1. /\ Paired(a.says, Sorted) /\ a.asked <= t
        /\ \A c \in ToSet(a.says) : c \in ToSet(is) /\ c.at >= a.paused
        /\ \A c \in ToSet(is) : c.created > a.paused /\ c.at < a.asked => c \in ToSet(a.says)
    BY DEF FromIssue
  <1>2. a.asked \in Nat
    BY DEF AnAnswer
  <1>3. ASSUME NEW c \in ToSet(js), c.created > a.paused, c.at < a.asked
        PROVE  c \in ToSet(a.says)
    <2>1. c \in Comments
      BY ElementsOf
    <2>2. c.at \in Nat
      BY <2>1 DEF Comments
    <2>3. ~ (c.at >= t)
      BY <1>1, <1>2, <1>3, <2>2
    <2> QED BY <1>1, <1>3, <2>3
  <1>4. a.asked <= u
    BY <1>1, <1>2
  <1> QED BY <1>1, <1>3, <1>4

LEMMA FromTerminalStays ==
    ASSUME NEW a \in AnAnswer, NEW kb, NEW n \in Nat, FromTerminal(a, kb, n),
           NEW lb \in Seq(Nat), NEW m \in Nat, n <= m,
           \A k \in 1 .. Len(lb) : lb[k] = 0 \/ lb[k] > n \/ \E i \in 1 .. Len(kb) : lb[k] = kb[i]
    PROVE  FromTerminal(a, lb, m)
  <1> SUFFICES ASSUME a.by = "prompt"
               PROVE  /\ Paired(a.says, Rising)
                      /\ \A l \in ToSet(a.says) :
                            l <= m /\ \A k \in 1 .. Len(lb) : lb[k] # 0 => l < lb[k]
    BY DEF FromTerminal
  <1>1. /\ Paired(a.says, Rising)
        /\ \A l \in ToSet(a.says) :
              l <= n /\ \A k \in 1 .. Len(kb) : kb[k] # 0 => l < kb[k]
    BY DEF FromTerminal
  <1>2. a.says \in Seq(Nat \ {0}) /\ \A l \in ToSet(a.says) : l \in Nat
    <2>1. a.says \in Seq(Nat \ {0})
      BY DEF AnAnswer
    <2> QED BY <2>1, ElementsOf
  <1>3. \A k \in 1 .. Len(lb) : lb[k] \in Nat
    BY ElementOfSeq
  <1>4. ASSUME NEW l \in ToSet(a.says), NEW k \in 1 .. Len(lb), lb[k] # 0
        PROVE  l < lb[k]
    BY SMTT(30), <1>1, <1>2, <1>3, <1>4
  <1>5. \A l \in ToSet(a.says) : l <= m
    BY <1>1, <1>2
  <1> QED BY <1>1, <1>4, <1>5

LEMMA SoundStays ==
    ASSUME NEW said \in Seq(AnAnswer), NEW is, NEW t \in Nat, NEW kb, NEW n \in Nat,
           Sound(said, is, t, kb, n),
           NEW js \in Seq(Comments), NEW u \in Nat, NEW lb \in Seq(Nat), NEW m \in Nat,
           t <= u, \A c \in ToSet(is) : c \in ToSet(js),
           \A c \in ToSet(js) : c \in ToSet(is) \/ c.at >= t,
           n <= m,
           \A k \in 1 .. Len(lb) : lb[k] = 0 \/ lb[k] > n \/ \E i \in 1 .. Len(kb) : lb[k] = kb[i]
    PROVE  Sound(said, js, u, lb, m)
  <1>1. ASSUME NEW i \in 1 .. Len(said)
        PROVE  FromIssue(said[i], js, u) /\ FromTerminal(said[i], lb, m)
    <2>1. said[i] \in AnAnswer
      BY ElementOfSeq
    <2>2. FromIssue(said[i], is, t) /\ FromTerminal(said[i], kb, n)
      BY DEF Sound
    <2>3. FromIssue(said[i], js, u)
      BY <2>1, <2>2, FromIssueStays
    <2>4. FromTerminal(said[i], lb, m)
      BY <2>1, <2>2, FromTerminalStays
    <2> QED BY <2>3, <2>4
  <1>2. \A i, j \in 1 .. Len(said) : i < j => Distinct(said[i], said[j])
    BY DEF Sound
  <1> QED BY <1>1, <1>2 DEF Sound

(* The types, one variable at a time. *)
LEMMA TypesAre ==
    ASSUME HandoffTypes
    PROVE  /\ clock \in Nat /\ clock <= MaxTime /\ MaxTime \in Nat /\ typed \in Nat
           /\ issue \in Seq(Comments) /\ keyboard \in Seq(Nat)
           /\ since \in Nat /\ since <= clock
           /\ answers \in Seq(AnAnswer) /\ saved.answers \in Seq(AnAnswer)
           /\ saved.at \in Nat
  <1>1. clock \in 1 .. MaxTime /\ since \in 0 .. clock /\ MaxTime \in Nat
    BY HandoffAssumption DEF HandoffTypes
  <1>2. saved.answers \in Seq(AnAnswer) /\ saved.at \in Nat
    BY DEF HandoffTypes
  <1> QED BY <1>1, <1>2 DEF HandoffTypes

LEMMA InitHandoff == HandoffInit => HandoffInv
  <1> SUFFICES ASSUME HandoffInit PROVE HandoffInv
    OBVIOUS
  <1>1. \A S : <<>> \in Seq(S)
    BY EmptySeq
  <1>2. Len(<<>>) = 0
    BY EmptySeq
  <1>3. /\ clock = 1 /\ since = 0 /\ typed = 0 /\ phase = "driving"
        /\ issue = <<>> /\ keyboard = <<>> /\ answers = <<>>
        /\ saved = [status |-> "none", at |-> 0, answers |-> <<>>]
    BY DEF HandoffInit, NoManifestYet
  <1>4. HandoffTypes
    <2>1. 1 \in 1 .. MaxTime /\ 0 \in 0 .. 1
      BY HandoffAssumption
    <2>2. issue \in Seq(Comments) /\ keyboard \in Seq(Nat) /\ answers \in Seq(AnAnswer)
      BY <1>1, <1>3
    <2>3. saved \in [status : {"none", "paused", "done"}, at : Nat, answers : Seq(AnAnswer)]
      BY <1>1, <1>3
    <2> QED BY <1>3, <2>1, <2>2, <2>3 DEF HandoffTypes
  <1>5. saved.answers = <<>> /\ saved.status = "none"
    BY <1>3
  <1>6. \A s : Len(s) = 0 => \A i \in 1 .. Len(s) : FALSE
    OBVIOUS
  <1>7. IssueIs(issue, clock) /\ KeyboardIs(keyboard, typed)
    BY <1>2, <1>3, <1>6 DEF IssueIs, KeyboardIs
  <1>8. /\ Sound(answers, issue, clock, keyboard, typed)
        /\ Sound(saved.answers, issue, clock, keyboard, typed)
        /\ Until(answers, since + 1)
    BY <1>2, <1>3, <1>5, <1>6 DEF Sound, Until
  <1> QED BY <1>3, <1>4, <1>5, <1>7, <1>8 DEF HandoffInv

LEMMA TickKeeps ==
    ASSUME HandoffInv, Tick
    PROVE  HandoffInv'
  <1> DEFINE t == clock + 1
  <1>1. /\ HandoffTypes /\ clock' = t /\ clock < MaxTime
        /\ UNCHANGED <<issue, keyboard, typed, phase, since, answers, saved>>
    BY DEF HandoffInv, Tick
  <1>2. /\ clock \in Nat /\ t \in Nat /\ clock <= t /\ typed \in Nat /\ typed <= typed
        /\ issue \in Seq(Comments) /\ keyboard \in Seq(Nat)
        /\ answers \in Seq(AnAnswer) /\ saved.answers \in Seq(AnAnswer)
    BY <1>1, TypesAre
  <1>3. HandoffTypes'
    <2>1. clock' \in 1 .. MaxTime /\ since' \in 0 .. clock'
      BY <1>1, TypesAre
    <2> QED BY <1>1, <2>1 DEF HandoffTypes
  <1>4. IssueIs(issue, t)
    <2>1. \A i \in 1 .. Len(issue) : issue[i].at \in Nat
      <3>1. \A i \in 1 .. Len(issue) : issue[i] \in Comments
        BY <1>2, ElementOfSeq
      <3> QED BY <3>1 DEF Comments
    <2> QED BY <1>2, <2>1 DEF HandoffInv, IssueIs
  <1> HIDE DEF t
  <1>5. /\ Sound(answers, issue, t, keyboard, typed)
        /\ Sound(saved.answers, issue, t, keyboard, typed)
    BY <1>2, SoundStays DEF HandoffInv
  <1> QED BY <1>1, <1>3, <1>4, <1>5 DEF HandoffInv

LEMMA CommentKeeps ==
    ASSUME HandoffInv, Comment
    PROVE  HandoffInv'
  <1> DEFINE c == [n |-> Len(issue) + 1, at |-> clock, created |-> Second(clock)]
             js == Append(issue, c)
  <1>1. /\ HandoffTypes /\ issue' = js
        /\ UNCHANGED <<clock, keyboard, typed, phase, since, answers, saved>>
    BY DEF HandoffInv, Comment
  <1>2. /\ clock \in Nat /\ typed \in Nat
        /\ issue \in Seq(Comments) /\ keyboard \in Seq(Nat)
        /\ answers \in Seq(AnAnswer) /\ saved.answers \in Seq(AnAnswer)
    BY <1>1, TypesAre
  <1>3. c \in Comments /\ c.at = clock /\ c.n = Len(issue) + 1 /\ c.created = Second(c.at)
    <2>1. Len(issue) \in Nat /\ Second(clock) \in Nat
      BY <1>2, LenProperties, SecondBelow
    <2> QED BY <1>2, <2>1 DEF Comments
  <1> HIDE DEF c
  <1>4. /\ js \in Seq(Comments) /\ Len(issue) \in Nat /\ Len(js) = Len(issue) + 1
        /\ js[Len(issue) + 1] = c /\ \A i \in 1 .. Len(issue) : js[i] = issue[i]
    BY <1>2, <1>3, AppendIs
  <1>5. \A i \in 1 .. Len(issue) + 1 : i \in 1 .. Len(issue) \/ i = Len(issue) + 1
    BY <1>4
  <1> HIDE DEF js
  <1>6. IssueIs(js, clock)
    <2>1. \A i \in 1 .. Len(issue) :
            issue[i].n = i /\ issue[i].created = Second(issue[i].at) /\ issue[i].at <= clock
      BY DEF HandoffInv, IssueIs
    <2>2. c.n = Len(issue) + 1 /\ c.created = Second(c.at) /\ c.at <= clock
      BY <1>2, <1>3
    <2> QED BY <1>4, <1>5, <2>1, <2>2 DEF IssueIs
  <1>7. /\ \A x \in ToSet(issue) : x \in ToSet(js)
        /\ \A x \in ToSet(js) : x \in ToSet(issue) \/ x.at >= clock
    <2>1. /\ ToSet(issue) = {issue[i] : i \in 1 .. Len(issue)}
          /\ ToSet(js) = {js[i] : i \in 1 .. Len(issue) + 1}
      BY <1>2, <1>4, ElementsOf
    <2>2. \A i \in 1 .. Len(issue) : i \in 1 .. Len(issue) + 1
      BY <1>4
    <2>3. c.at >= clock
      BY <1>2, <1>3
    <2> QED BY <1>4, <1>5, <2>1, <2>2, <2>3
  <1>8. /\ Sound(answers, js, clock, keyboard, typed)
        /\ Sound(saved.answers, js, clock, keyboard, typed)
    <2>1. clock <= clock /\ typed <= typed
      BY <1>2
    <2> QED BY <1>2, <1>4, <1>7, <2>1, SoundStays DEF HandoffInv
  <1>9. HandoffTypes'
    BY <1>1, <1>4 DEF HandoffTypes
  <1> QED BY <1>1, <1>6, <1>8, <1>9 DEF HandoffInv

LEMMA TypeLineKeeps ==
    ASSUME HandoffInv, TypeLine
    PROVE  HandoffInv'
  <1>0. PICK line \in {0, typed + 1} : keyboard' = Append(keyboard, line)
    BY DEF TypeLine
  <1> DEFINE lb == Append(keyboard, line)
             n == Len(keyboard)
  <1>1. /\ HandoffTypes /\ keyboard' = lb /\ typed' = typed + 1
        /\ UNCHANGED <<clock, issue, phase, since, answers, saved>>
    BY <1>0 DEF HandoffInv, TypeLine
  <1>2. /\ clock \in Nat /\ typed \in Nat /\ line \in Nat
        /\ issue \in Seq(Comments) /\ keyboard \in Seq(Nat)
        /\ answers \in Seq(AnAnswer) /\ saved.answers \in Seq(AnAnswer)
    BY <1>1, TypesAre
  <1>3. /\ lb \in Seq(Nat) /\ n \in Nat /\ Len(lb) = n + 1
        /\ lb[n + 1] = line /\ \A i \in 1 .. n : lb[i] = keyboard[i]
    BY <1>2, AppendIs
  <1>4. \A i \in 1 .. n : keyboard[i] \in Nat
    BY <1>2, ElementOfSeq
  <1>5. /\ \A i \in 1 .. n : keyboard[i] <= typed
        /\ \A i, j \in 1 .. n :
              i < j /\ keyboard[i] # 0 /\ keyboard[j] # 0 => keyboard[i] < keyboard[j]
    BY DEF HandoffInv, KeyboardIs
  <1> HIDE DEF lb, n
  <1>6. \A i \in 1 .. n + 1 : i \in 1 .. n \/ i = n + 1
    BY <1>3
  <1>7. KeyboardIs(lb, typed + 1)
    <2>1. ASSUME NEW i \in 1 .. n + 1 PROVE lb[i] <= typed + 1
      <3>1. CASE i \in 1 .. n
        <4>1. keyboard[i] \in Nat /\ keyboard[i] <= typed /\ lb[i] = keyboard[i]
          BY <1>3, <1>4, <1>5, <3>1
        <4> QED BY <1>2, <4>1
      <3>2. CASE i = n + 1
        BY <1>2, <1>3, <3>2
      <3> QED BY <1>6, <3>1, <3>2
    <2>2. ASSUME NEW i \in 1 .. n + 1, NEW j \in 1 .. n + 1, i < j, lb[i] # 0, lb[j] # 0
          PROVE  lb[i] < lb[j]
      <3>1. i \in 1 .. n
        BY <1>3, <2>2
      <3>2. CASE j = n + 1
        <4>1. lb[i] = keyboard[i] /\ keyboard[i] \in Nat /\ keyboard[i] <= typed
          BY <1>3, <1>4, <1>5, <3>1
        <4>2. lb[j] = line /\ line = typed + 1
          BY <1>3, <2>2, <3>2
        <4> QED BY <1>2, <4>1, <4>2
      <3>3. CASE j \in 1 .. n
        BY <1>3, <1>5, <2>2, <3>1, <3>3
      <3> QED BY <1>6, <3>2, <3>3
    <2> QED BY <1>3, <2>1, <2>2 DEF KeyboardIs
  <1>8. \A k \in 1 .. Len(lb) :
            lb[k] = 0 \/ lb[k] > typed \/ \E i \in 1 .. Len(keyboard) : lb[k] = keyboard[i]
    <2>1. line = 0 \/ line > typed
      BY <1>2
    <2> QED BY <1>3, <1>6, <2>1 DEF n
  <1>9. /\ Sound(answers, issue, clock, lb, typed + 1)
        /\ Sound(saved.answers, issue, clock, lb, typed + 1)
    <2>1. clock <= clock /\ typed <= typed + 1 /\ typed + 1 \in Nat
      BY <1>2
    <2>2. /\ Sound(answers, issue, clock, keyboard, typed)
          /\ Sound(saved.answers, issue, clock, keyboard, typed)
      BY DEF HandoffInv
    <2> DEFINE m == typed + 1
    <2>3. m \in Nat /\ typed <= m
      BY <2>1
    <2> HIDE DEF m
    <2>4. /\ Sound(answers, issue, clock, lb, m)
          /\ Sound(saved.answers, issue, clock, lb, m)
      BY <1>2, <1>3, <1>8, <2>1, <2>2, <2>3, SoundStays
    <2> QED BY <2>4 DEF m
  <1>10. HandoffTypes'
    BY <1>1, <1>2, <1>3 DEF HandoffTypes
  <1> QED BY <1>1, <1>7, <1>9, <1>10 DEF HandoffInv

LEMMA ReachKeeps ==
    ASSUME HandoffInv, ReachHuman
    PROVE  HandoffInv'
  <1>1. /\ HandoffTypes /\ phase = "driving" /\ clock > since /\ since' = clock
        /\ phase' \in {"asking", "pausing"}
        /\ UNCHANGED <<clock, issue, keyboard, typed, answers, saved>>
    BY DEF HandoffInv, ReachHuman
  <1>2. clock \in Nat /\ since \in Nat /\ since + 1 \in Nat /\ since + 1 <= clock
        /\ answers \in Seq(AnAnswer)
    BY <1>1, TypesAre
  <1>3. HandoffTypes'
    <2>1. clock \in 0 .. clock
      BY <1>2
    <2> QED BY <1>1, <2>1 DEF HandoffTypes
  <1>4. Until(answers, clock)
    <2>1. Until(answers, since + 1)
      BY <1>1 DEF HandoffInv
    <2> DEFINE s == since + 1
    <2>2. s \in Nat /\ s <= clock /\ Until(answers, s)
      BY <1>2, <2>1
    <2> HIDE DEF s
    <2> QED BY <1>2, <2>2, UntilLater
  <1> QED BY <1>1, <1>3, <1>4 DEF HandoffInv

LEMMA PauseKeeps ==
    ASSUME HandoffInv, SavePause
    PROVE  HandoffInv'
  <1>1. /\ HandoffTypes /\ phase = "pausing" /\ phase' = "idle"
        /\ saved' = [status |-> "paused", at |-> since, answers |-> answers]
        /\ UNCHANGED <<clock, issue, keyboard, typed, since, answers>>
    BY DEF HandoffInv, SavePause
  <1>2. since \in Nat /\ answers \in Seq(AnAnswer)
    BY <1>1, TypesAre
  <1>3. HandoffTypes' /\ saved'.answers = answers /\ saved'.at = since
    BY <1>1, <1>2 DEF HandoffTypes
  <1> QED BY <1>1, <1>3 DEF HandoffInv

LEMMA EndKeeps ==
    ASSUME HandoffInv, Finish \/ FailRun
    PROVE  HandoffInv'
  <1>1. /\ HandoffTypes /\ phase' = "idle"
        /\ UNCHANGED <<clock, issue, keyboard, typed, since, answers>>
    BY DEF HandoffInv, Finish, FailRun
  <1>2. CASE Finish
    <2>1. saved' = [status |-> "done", at |-> 0, answers |-> answers]
      BY <1>2 DEF Finish
    <2>2. saved'.answers = answers /\ saved'.status = "done"
      BY <2>1
    <2>3. HandoffTypes'
      <3>1. answers \in Seq(AnAnswer)
        BY <1>1, TypesAre
      <3> QED BY <1>1, <2>1, <3>1 DEF HandoffTypes
    <2> QED BY <1>1, <2>2, <2>3 DEF HandoffInv
  <1>3. CASE FailRun
    <2>1. saved' = saved
      BY <1>3 DEF FailRun
    <2>2. HandoffTypes'
      BY <1>1, <2>1 DEF HandoffTypes
    <2> QED BY <1>1, <2>1, <2>2 DEF HandoffInv
  <1> QED BY <1>2, <1>3

(* What a prompt read is an answer more, of lines nobody read before.       *)
LEMMA PromptAdds ==
    ASSUME HandoffInv, phase = "asking", NEW b, ReadFrom(b, keyboard),
           NEW lb \in Seq(Nat),
           \A k \in 1 .. Len(lb) :
              /\ \E i \in 1 .. Len(keyboard) : lb[k] = keyboard[i]
              /\ lb[k] # 0 => \A l \in ToSet(b) : l < lb[k]
    PROVE  LET u == Append(answers, AnswerOf("prompt", b, since))
           IN  /\ u \in Seq(AnAnswer) /\ Sound(u, issue, clock, lb, typed)
               /\ Until(u, clock + 1)
  <1> DEFINE a == AnswerOf("prompt", b, since)
  <1>1. HandoffTypes
    BY DEF HandoffInv
  <1>2. /\ clock \in Nat /\ typed \in Nat /\ since \in Nat /\ since <= clock + 1
        /\ clock + 1 \in Nat /\ clock <= clock /\ typed <= typed
        /\ issue \in Seq(Comments) /\ keyboard \in Seq(Nat) /\ answers \in Seq(AnAnswer)
    BY <1>1, TypesAre
  <1>3. b \in Seq(Nat \ {0}) /\ Paired(b, Rising)
        /\ \A l \in ToSet(b) : l # 0 /\ \E i \in 1 .. Len(keyboard) : l = keyboard[i]
    BY DEF ReadFrom
  <1>4. a.by = "prompt" /\ a.says = b /\ a \in AnAnswer
    BY <1>2, <1>3 DEF AnswerOf, AnAnswer
  <1>5. Sound(answers, issue, clock, keyboard, typed)
    BY DEF HandoffInv
  <1>6. Sound(answers, issue, clock, lb, typed)
    BY <1>2, <1>5, SoundStays
  <1> HIDE DEF a
  <1>7. FromIssue(a, issue, clock) /\ FromTerminal(a, lb, typed)
    <2>1. \A i \in 1 .. Len(keyboard) : keyboard[i] <= typed
      BY DEF HandoffInv, KeyboardIs
    <2> QED BY <1>3, <1>4, <2>1 DEF FromIssue, FromTerminal
  <1>8. ASSUME NEW i \in 1 .. Len(answers) PROVE Distinct(answers[i], a)
    <2>1. answers[i] \in AnAnswer
      BY <1>2, ElementOfSeq
    <2>2. FromTerminal(answers[i], keyboard, typed)
      BY <1>5 DEF Sound
    <2>3. ASSUME answers[i].by = "prompt", NEW x \in ToSet(answers[i].says), NEW y \in ToSet(b)
          PROVE  x # y
      <3>1. PICK k \in 1 .. Len(keyboard) : y = keyboard[k] /\ keyboard[k] # 0
        BY <1>3
      <3>2. x < y
        BY <2>2, <2>3, <3>1 DEF FromTerminal
      <3>3. y \in Nat
        BY <1>2, <3>1, ElementOfSeq
      <3> QED BY <3>2, <3>3
    <2> QED BY <1>4, <2>3 DEF Distinct
  <1>9. /\ Append(answers, a) \in Seq(AnAnswer)
        /\ Sound(Append(answers, a), issue, clock, lb, typed)
    BY <1>2, <1>4, <1>6, <1>7, <1>8, SoundAppend
  <1>10. Until(Append(answers, a), clock + 1)
    <2> DEFINE t == clock + 1
    <2>1. Until(answers, since)
      BY DEF HandoffInv
    <2>2. t \in Nat /\ since <= t
      BY <1>2
    <2> HIDE DEF t
    <2>3. Until(answers, t)
      BY <1>2, <2>1, <2>2, UntilLater
    <2>4. Until(Append(answers, a), t)
      <3>1. a.by # "github"
        BY <1>4
      <3> QED BY <1>2, <1>4, <2>2, <2>3, <3>1, UntilAppend
    <2> QED BY <2>4 DEF t
  <1> QED BY <1>9, <1>10 DEF a

LEMMA PromptKeeps ==
    ASSUME HandoffInv, AnswerPrompt
    PROVE  HandoffInv'
  <1> DEFINE b  == Paragraph(keyboard).body
             lb == Paragraph(keyboard).left
             u  == Append(answers, AnswerOf("prompt", b, since))
  <1>1. /\ HandoffTypes /\ phase = "asking" /\ Ended(keyboard)
        /\ keyboard' = lb /\ answers' = u /\ phase' = "driving" /\ since' = clock
        /\ UNCHANGED <<clock, issue, typed, saved>>
    BY DEF HandoffInv, AnswerPrompt
  <1>2. /\ clock \in Nat /\ typed \in Nat /\ clock <= clock /\ typed <= typed
        /\ issue \in Seq(Comments) /\ keyboard \in Seq(Nat)
        /\ saved.answers \in Seq(AnAnswer)
    BY <1>1, TypesAre
  <1>3. KeyboardIs(keyboard, typed)
    BY DEF HandoffInv
  <1>4. /\ ReadFrom(b, keyboard) /\ lb \in Seq(Nat) /\ KeyboardIs(lb, typed)
        /\ \A k \in 1 .. Len(lb) :
              /\ \E i \in 1 .. Len(keyboard) : lb[k] = keyboard[i]
              /\ lb[k] # 0 => \A l \in ToSet(b) : l < lb[k]
    BY <1>1, <1>2, <1>3, ParagraphIs
  <1> HIDE DEF b, lb
  <1>5. u \in Seq(AnAnswer) /\ Sound(u, issue, clock, lb, typed) /\ Until(u, clock + 1)
    BY <1>1, <1>4, PromptAdds
  <1> HIDE DEF u
  <1>6. Sound(saved.answers, issue, clock, lb, typed)
    <2>1. Sound(saved.answers, issue, clock, keyboard, typed)
      BY DEF HandoffInv
    <2> QED BY <1>2, <1>4, <2>1, SoundStays
  <1>7. HandoffTypes'
    <2>1. clock \in 0 .. clock
      BY <1>2
    <2> QED BY <1>1, <1>4, <1>5, <2>1 DEF HandoffTypes
  <1> QED BY <1>1, <1>4, <1>5, <1>6, <1>7 DEF HandoffInv

LEMMA EndOfInputKeeps ==
    ASSUME HandoffInv, EndOfInput
    PROVE  HandoffInv'
  <1> DEFINE b  == FromText(keyboard)
             u  == Append(answers, AnswerOf("prompt", b, since))
  <1>1. /\ HandoffTypes /\ phase = "asking" /\ ~ Ended(keyboard)
        /\ keyboard' = <<>> /\ answers' \in {answers, u} /\ phase' = "driving" /\ since' = clock
        /\ UNCHANGED <<clock, issue, typed, saved>>
    BY DEF HandoffInv, EndOfInput
  <1>2. /\ clock \in Nat /\ typed \in Nat /\ clock <= clock /\ typed <= typed
        /\ issue \in Seq(Comments) /\ keyboard \in Seq(Nat)
        /\ answers \in Seq(AnAnswer) /\ saved.answers \in Seq(AnAnswer)
        /\ since \in Nat /\ since <= clock + 1 /\ clock + 1 \in Nat
    BY <1>1, TypesAre
  <1>3. ReadFrom(b, keyboard)
    <2>1. KeyboardIs(keyboard, typed)
      BY DEF HandoffInv
    <2> QED BY <1>1, <1>2, <2>1, LastTextIs
  <1> DEFINE lb == <<>>
  <1>4. lb \in Seq(Nat) /\ Len(lb) = 0 /\ keyboard' = lb
    BY <1>1, EmptySeq
  <1> HIDE DEF b, lb
  <1>5. \A k \in 1 .. Len(lb) : FALSE
    BY <1>4
  <1>6. u \in Seq(AnAnswer) /\ Sound(u, issue, clock, lb, typed) /\ Until(u, clock + 1)
    BY <1>1, <1>3, <1>4, <1>5, PromptAdds
  <1> HIDE DEF u
  <1>7. /\ Sound(saved.answers, issue, clock, lb, typed)
        /\ Sound(answers, issue, clock, lb, typed)
    <2>1. /\ Sound(saved.answers, issue, clock, keyboard, typed)
          /\ Sound(answers, issue, clock, keyboard, typed)
      BY DEF HandoffInv
    <2> QED BY <1>2, <1>4, <1>5, <2>1, SoundStays
  <1>8. Until(answers, clock + 1)
    <2> DEFINE t == clock + 1
    <2>1. t \in Nat /\ since <= t /\ Until(answers, since)
      BY <1>1, <1>2 DEF HandoffInv
    <2> HIDE DEF t
    <2>2. Until(answers, t)
      BY <1>2, <2>1, UntilLater
    <2> QED BY <2>2 DEF t
  <1>9. answers' \in Seq(AnAnswer) /\ Sound(answers', issue, clock, lb, typed)
        /\ Until(answers', clock + 1)
    BY <1>1, <1>2, <1>6, <1>7, <1>8
  <1>10. HandoffTypes'
    <2>1. clock \in 0 .. clock
      BY <1>2
    <2> QED BY <1>1, <1>4, <1>9, <2>1 DEF HandoffTypes
  <1>11. KeyboardIs(lb, typed)
    BY <1>5 DEF KeyboardIs
  <1> QED BY <1>1, <1>4, <1>7, <1>9, <1>10, <1>11 DEF HandoffInv

(* The comments anybody heard are in the issue, so they were made by now.   *)
LEMMA SoundUntil ==
    ASSUME HandoffInv, NEW said \in Seq(AnAnswer), Sound(said, issue, clock, keyboard, typed)
    PROVE  Until(said, clock + 1)
  <1>1. /\ clock \in Nat /\ clock <= MaxTime /\ issue \in Seq(Comments)
        /\ IssueIs(issue, clock)
    BY TypesAre DEF HandoffInv
  <1>2. \A c \in ToSet(issue) : c \in Comments /\ c.at <= clock
    BY <1>1, IssueApart
  <1>3. ASSUME NEW i \in 1 .. Len(said), said[i].by = "github", NEW c \in ToSet(said[i].says)
        PROVE  c.at < clock + 1
    <2>1. c \in ToSet(issue)
      BY <1>3 DEF Sound, FromIssue
    <2>2. c.at \in Nat /\ c.at <= clock
      BY <1>2, <2>1 DEF Comments
    <2> QED BY <1>1, <2>2
  <1> QED BY <1>3 DEF Until

LEMMA CollectIs ==
    ASSUME NEW c \in CommandLines
    PROVE  CollectLocal(c).by \in {"message", "file", "stdin"}
  <1> DEFINE P(s) == \/ s = "message" /\ c.message # "none"
                     \/ s = "file" /\ c.message = "none" /\ c.file # "none"
                     \/ s = "stdin" /\ c.message = "none" /\ c.file = "none"
  <1>1. \E s \in {"message", "file", "stdin"} : P(s)
    OBVIOUS
  <1>2. (CHOOSE s \in {"message", "file", "stdin"} : P(s)) \in {"message", "file", "stdin"}
    <2> HIDE DEF P
    <2> QED BY <1>1
  <1> QED BY <1>2 DEF CollectLocal

(* The comments that answer a pause. *)
LEMMA CommentsAnswer ==
    ASSUME HandoffInv, saved.status = "paused", NEW listing \in Listings,
           FetchNewCommentsSince(listing, saved.at) # <<>>
    PROVE  LET a == AnswerOf("github", FetchNewCommentsSince(listing, saved.at), saved.at)
           IN  /\ a \in AnAnswer /\ a.by = "github"
               /\ FromIssue(a, issue, clock) /\ FromTerminal(a, keyboard, typed)
               /\ \A i \in 1 .. Len(saved.answers) : Distinct(saved.answers[i], a)
  <1> DEFINE p == saved.at
             f == FetchNewCommentsSince(listing, p)
             a == AnswerOf("github", f, p)
  <1>1. /\ clock \in Nat /\ clock <= MaxTime /\ issue \in Seq(Comments) /\ p \in Nat
        /\ saved.answers \in Seq(AnAnswer) /\ IssueIs(issue, clock)
    BY TypesAre DEF HandoffInv
  <1>2. /\ Paired(issue, Apart)
        /\ \A c \in ToSet(issue) :
              c \in Comments /\ c.at <= clock /\ c.created <= c.at /\ c.created <= MaxTime
    BY <1>1, IssueApart
  <1>3. /\ listing \in Seq(Comments) /\ Paired(listing, Apart)
        /\ listing = <<>> \/ ToSet(listing) = ToSet(issue)
    BY <1>1, <1>2, ListingIs DEF Listings
  <1>4. ToSet(<<>>) = {}
    <2>1. <<>> \in Seq(Comments) /\ Len(<<>>) = 0
      BY EmptySeq
    <2> DEFINE e == <<>>
    <2>2. e \in Seq(Comments) /\ Len(e) = 0
      BY <2>1
    <2> HIDE DEF e
    <2>3. ToSet(e) = {e[i] : i \in 1 .. 0}
      BY <2>2, ElementsOf
    <2>4. ToSet(e) = {}
      BY <2>3
    <2> QED BY <2>4 DEF e
  <1>5. \A c \in ToSet(listing) : c \in ToSet(issue)
    BY <1>3, <1>4
  <1>6. \A c \in ToSet(listing) : c.created <= MaxTime
    BY <1>2, <1>5
  <1> HIDE DEF p
  <1>7. /\ f \in Seq(Comments) /\ Paired(f, Sorted)
        /\ \A x : x \in ToSet(f) <=> x \in ToSet(listing) /\ x.created >= p
    BY <1>3, <1>6, FetchedAre
  <1>8. ToSet(listing) = ToSet(issue)
    <2>1. f # <<>>
      BY DEF p
    <2> HIDE DEF f
    <2>2. Len(f) \in Nat \ {0} /\ ToSet(f) = {f[i] : i \in 1 .. Len(f)}
      BY <1>7, <2>1, EmptySeq, ElementsOf
    <2>3. f[1] \in ToSet(f)
      BY <2>2
    <2>4. f[1] \in ToSet(listing)
      BY <1>7, <2>3
    <2> QED BY <1>3, <1>4, <2>4
  <1> HIDE DEF f
  <1>9. /\ a.by = "github" /\ a.says = f /\ a.paused = p /\ a.asked = clock /\ a \in AnAnswer
    BY <1>1, <1>7 DEF AnswerOf, AnAnswer
  <1> HIDE DEF a
  <1>10. \A c \in ToSet(f) : c \in ToSet(issue) /\ c.at \in Nat /\ c.at >= p
    <2>1. TAKE c \in ToSet(f)
    <2>2. c \in ToSet(issue) /\ c.created >= p
      BY <1>7, <1>8
    <2>3. c \in Comments /\ c.created <= c.at
      BY <1>2, <2>2
    <2>4. c.at \in Nat /\ c.created \in Nat
      BY <2>3 DEF Comments
    <2> QED BY <1>1, <2>2, <2>3, <2>4
  <1>11. \A c \in ToSet(issue) : c.created > p => c \in ToSet(f)
    <2>1. TAKE c \in ToSet(issue)
    <2>2. HAVE c.created > p
    <2>3. c.created \in Nat
      BY <1>2 DEF Comments
    <2>4. c.created >= p
      BY <1>1, <2>2, <2>3
    <2> QED BY <1>7, <1>8, <2>4
  <1>12. FromIssue(a, issue, clock) /\ FromTerminal(a, keyboard, typed)
    BY <1>1, <1>7, <1>9, <1>10, <1>11 DEF FromIssue, FromTerminal
  <1>13. ASSUME NEW i \in 1 .. Len(saved.answers) PROVE Distinct(saved.answers[i], a)
    <2>1. Until(saved.answers, p)
      BY DEF HandoffInv, p
    <2>2. ASSUME saved.answers[i].by = "github",
                 NEW x \in ToSet(saved.answers[i].says), NEW y \in ToSet(f)
          PROVE  x # y
      <3>1. x.at < p
        BY <2>1, <2>2 DEF Until
      <3>2. y.at \in Nat /\ y.at >= p
        BY <1>10
      <3> QED BY <1>1, <3>1, <3>2
    <2> QED BY <1>9, <2>2 DEF Distinct
  <1> QED BY <1>9, <1>12, <1>13 DEF a, f, p

LEMMA ResumeKeeps ==
    ASSUME HandoffInv, NEW c \in CommandLines, NEW listing \in Listings,
           ResumeWith(c, listing)
    PROVE  HandoffInv'
  <1> DEFINE local == CollectLocal(c)
             comments == IF how.numeric THEN FetchNewCommentsSince(listing, saved.at)
                         ELSE <<>>
             mine == AnswerOf(local.by, <<>>, saved.at)
             theirs == AnswerOf("github", comments, saved.at)
             before == saved.answers
  <1>1. /\ HandoffTypes /\ saved.status = "paused"
        /\ answers' = before \o (IF local.is = "text" THEN <<mine>>
                                 ELSE IF comments = <<>> THEN <<>> ELSE <<theirs>>)
        /\ phase' = "driving" /\ since' = clock
        /\ UNCHANGED <<clock, issue, keyboard, typed, saved>>
    BY DEF HandoffInv, ResumeWith
  <1>2. /\ clock \in Nat /\ typed \in Nat /\ saved.at \in Nat
        /\ before \in Seq(AnAnswer)
        /\ Sound(before, issue, clock, keyboard, typed)
    BY <1>1, TypesAre DEF HandoffInv
  <1>3. ASSUME answers' = before \o <<mine>>
        PROVE  answers' \in Seq(AnAnswer) /\ Sound(answers', issue, clock, keyboard, typed)
    <2>1. local.by \in {"message", "file", "stdin"}
      BY CollectIs
    <2> HIDE DEF local
    <2>2. mine \in AnAnswer /\ mine.by \notin {"github", "prompt"}
      BY <1>2, <2>1 DEF AnswerOf, AnAnswer
    <2> HIDE DEF mine, before
    <2>3. FromIssue(mine, issue, clock) /\ FromTerminal(mine, keyboard, typed)
      BY <2>2 DEF FromIssue, FromTerminal
    <2>4. \A i \in 1 .. Len(before) : Distinct(before[i], mine)
      BY <2>2 DEF Distinct
    <2>5. answers' = Append(before, mine)
      BY <1>2, <1>3, <2>2, AppendIsConcat
    <2>6. answers' \in Seq(AnAnswer) /\ Sound(answers', issue, clock, keyboard, typed)
      BY <1>2, <2>2, <2>3, <2>4, <2>5, SoundAppend
    <2> QED BY <2>6
  <1>4. ASSUME answers' = before \o <<>>
        PROVE  answers' \in Seq(AnAnswer) /\ Sound(answers', issue, clock, keyboard, typed)
    <2>1. answers' = before
      BY <1>2, <1>4, ConcatEmptySeq
    <2> QED BY <1>2, <2>1
  <1>5. ASSUME answers' = before \o <<theirs>>, comments # <<>>
        PROVE  answers' \in Seq(AnAnswer) /\ Sound(answers', issue, clock, keyboard, typed)
    <2>1. comments = FetchNewCommentsSince(listing, saved.at)
      BY <1>5
    <2>2. FetchNewCommentsSince(listing, saved.at) # <<>>
      BY <1>5, <2>1
    <2>3. theirs = AnswerOf("github", FetchNewCommentsSince(listing, saved.at), saved.at)
      BY <2>1
    <2> HIDE DEF comments, theirs
    <2>4. /\ theirs \in AnAnswer /\ FromIssue(theirs, issue, clock)
          /\ FromTerminal(theirs, keyboard, typed)
          /\ \A i \in 1 .. Len(before) : Distinct(before[i], theirs)
      BY <1>1, <2>2, <2>3, CommentsAnswer
    <2> HIDE DEF before
    <2>5. answers' = Append(before, theirs)
      BY <1>2, <1>5, <2>4, AppendIsConcat
    <2>6. answers' \in Seq(AnAnswer) /\ Sound(answers', issue, clock, keyboard, typed)
      BY <1>2, <2>4, <2>5, SoundAppend
    <2> QED BY <2>6
  <1>6. answers' \in Seq(AnAnswer) /\ Sound(answers', issue, clock, keyboard, typed)
    <2> HIDE DEF local, comments, mine, theirs, before
    <2> QED BY <1>1, <1>3, <1>4, <1>5
  <1>7. Until(answers', clock + 1)
    BY <1>6, SoundUntil
  <1>8. HandoffTypes'
    <2>1. clock \in 0 .. clock
      BY <1>2
    <2> QED BY <1>1, <1>6, <2>1 DEF HandoffTypes
  <1> QED BY <1>1, <1>6, <1>7, <1>8 DEF HandoffInv

---------------------------------------------------------------------------
LEMMA HandoffStep == HandoffInv /\ [HandoffNext]_hvars => HandoffInv'
  <1> SUFFICES ASSUME HandoffInv, [HandoffNext]_hvars PROVE HandoffInv'
    OBVIOUS
  <1>1. CASE HandoffNext
    BY <1>1, TickKeeps, CommentKeeps, TypeLineKeeps, ReachKeeps, PauseKeeps, PromptKeeps,
       EndOfInputKeeps, EndKeeps, ResumeKeeps DEF HandoffNext
  <1>2. CASE UNCHANGED hvars
    <2>1. UNCHANGED <<clock, issue, keyboard, typed, phase, since, answers, saved>>
      BY <1>2 DEF hvars
    <2>2. HandoffTypes'
      BY <2>1 DEF HandoffInv, HandoffTypes
    <2> QED BY <2>1, <2>2 DEF HandoffInv
  <1> QED BY <1>1, <1>2

LEMMA HandoffInvariant == HandoffSpec => []HandoffInv
  BY InitHandoff, HandoffStep, PTL DEF HandoffSpec

(* No comment of an issue answers two pauses of a run, however often it was *)
(* resumed (fetch_new_comments_since), and no line typed at the terminal    *)
(* two prompts (prompt_human_interactive).                                  *)
THEOREM NothingHeardTwice == HandoffSpec => []HeardOnce
  <1>1. HandoffInv => HeardOnce
    <2> SUFFICES ASSUME HandoffInv, NEW by \in {"github", "prompt"},
                        NEW i \in Sources(by), NEW j \in Sources(by),
                        NEW m \in DOMAIN answers[i].says, NEW n \in DOMAIN answers[j].says,
                        answers[i].says[m] = answers[j].says[n]
                 PROVE  i = j /\ m = n
      BY DEF HeardOnce
    <2>1. /\ answers \in Seq(AnAnswer) /\ DOMAIN answers = 1 .. Len(answers)
          /\ Len(answers) \in Nat /\ Sound(answers, issue, clock, keyboard, typed)
      BY TypesAre, LenProperties DEF HandoffInv
    <2>2. /\ i \in 1 .. Len(answers) /\ j \in 1 .. Len(answers)
          /\ answers[i].by = by /\ answers[j].by = by
      BY <2>1 DEF Sources
    <2>3. answers[i].says[m] \in ToSet(answers[i].says)
          /\ answers[j].says[n] \in ToSet(answers[j].says)
      BY DEF ToSet
    <2>4. i = j
      <3>1. ~ (i < j)
        BY <2>1, <2>2, <2>3 DEF Sound, Distinct
      <3>2. ~ (j < i)
        BY <2>1, <2>2, <2>3 DEF Sound, Distinct
      <3> QED BY <2>2, <3>1, <3>2
    <2> DEFINE s == answers[i].says
    <2>5. answers[i] \in AnAnswer /\ FromIssue(answers[i], issue, clock)
          /\ FromTerminal(answers[i], keyboard, typed)
      BY <2>1, <2>2, ElementOfSeq DEF Sound
    <2>6. \/ s \in Seq(Comments) /\ Paired(s, Sorted)
          \/ s \in Seq(Nat \ {0}) /\ Paired(s, Rising)
      BY <2>2, <2>5 DEF AnAnswer, FromIssue, FromTerminal
    <2>7. m \in DOMAIN s /\ n \in DOMAIN s /\ s[m] = s[n]
      BY <2>4
    <2> HIDE DEF s
    <2>8. Len(s) \in Nat /\ DOMAIN s = 1 .. Len(s)
      BY <2>6, LenProperties
    <2>9. \A x : <<x, x>> \notin Sorted /\ <<x, x>> \notin Rising
      BY DEF Sorted, Apart, Rising
    <2>10. ~ (m < n) /\ ~ (n < m)
      BY <2>6, <2>7, <2>8, <2>9 DEF Paired
    <2> QED BY <2>4, <2>7, <2>8, <2>10
  <1> QED BY <1>1, HandoffInvariant, PTL

(* The comments that answer a pause are those of the issue since then       *)
(* (fetch_new_comments_since): none from before, all of a later second that *)
(* were there when the run was resumed, in the order of their seconds.      *)
THEOREM CommentsComplete == HandoffSpec => []AnswersComplete
  <1>1. HandoffInv => AnswersComplete
    <2> SUFFICES ASSUME HandoffInv, NEW i \in Sources("github")
                 PROVE  LET a == answers[i]
                        IN  /\ \A c \in ToSet(a.says) : c.at >= a.paused
                            /\ \A m, n \in DOMAIN a.says :
                                  m < n => a.says[m].created <= a.says[n].created
                            /\ \A c \in ToSet(issue) :
                                  c.created > a.paused /\ c.at < a.asked => c \in ToSet(a.says)
      BY DEF AnswersComplete
    <2> DEFINE a == answers[i]
    <2>1. answers \in Seq(AnAnswer) /\ DOMAIN answers = 1 .. Len(answers)
      BY TypesAre, LenProperties DEF HandoffInv
    <2>2. a \in AnAnswer /\ a.by = "github" /\ FromIssue(a, issue, clock)
      BY <2>1, ElementOfSeq DEF Sources, HandoffInv, Sound
    <2> HIDE DEF a
    <2>3. /\ Paired(a.says, Sorted)
          /\ \A c \in ToSet(a.says) : c.at >= a.paused
          /\ \A c \in ToSet(issue) :
                c.created > a.paused /\ c.at < a.asked => c \in ToSet(a.says)
      BY <2>2 DEF FromIssue
    <2>4. DOMAIN a.says = 1 .. Len(a.says)
      <3>1. a.says \in Seq(Comments)
        BY <2>2 DEF AnAnswer
      <3> QED BY <3>1, LenProperties
    <2>5. \A m, n \in DOMAIN a.says : m < n => a.says[m].created <= a.says[n].created
      BY <2>3, <2>4 DEF Paired, Sorted
    <2> QED BY <2>3, <2>5 DEF a
  <1> QED BY <1>1, HandoffInvariant, PTL

---------------------------------------------------------------------------
(* The message log. *)

Pieces == [entry : Nat, turn : Nat, whole : BOOLEAN]

AuditTypes ==
    /\ entries \in Seq(Kinds)
    /\ disk \in Seq(Seq(Pieces)) /\ open \in Seq(Pieces)
    /\ turn \in Nat /\ count \in Nat /\ faults \in Nat

(* The round in which each entry is said. *)
Rounds == [n \in 0 .. Len(entries) |-> 1 + Cardinality(HeardUpTo(n))]

(* A piece tells an entry that was logged, with its round. *)
Tells(x) == x.entry \in 1 .. Len(entries) /\ x.turn = Rounds[x.entry]

LineTells(l) == \A a \in 1 .. Len(l) : Tells(l[a])

Before(l, m) == \A a \in 1 .. Len(l), b \in 1 .. Len(m) : l[a].entry < m[b].entry

(* The order of the lines, of the one that is open too, and the count.      *)
InFile ==
    /\ \A i \in 1 .. Len(disk) : LineTells(disk[i]) /\ Before(disk[i], open)
    /\ \A i, j \in 1 .. Len(disk) : i < j => Before(disk[i], disk[j])
    /\ LineTells(open)

Counted == turn = Rounds[Len(entries)] /\ count = Len(disk)

AuditInv == AuditTypes /\ InFile /\ Counted

---------------------------------------------------------------------------
(* Rounds. *)

LEMMA HeardFinite ==
    ASSUME NEW n \in Nat
    PROVE  IsFiniteSet(HeardUpTo(n)) /\ Cardinality(HeardUpTo(n)) \in Nat
  <1>1. IsFiniteSet(1 .. n)
    BY FS_Interval
  <1>2. HeardUpTo(n) \in SUBSET (1 .. n)
    BY DEF HeardUpTo
  <1>3. IsFiniteSet(HeardUpTo(n))
    BY <1>1, <1>2, FS_Subset
  <1> QED BY <1>3, FS_CardinalityType

(* What is logged later does not change the round of what was logged, and   *)
(* the turn the log counts is the round of its last entry.                  *)
LEMMA RoundNext ==
    ASSUME AuditTypes, Counted, NEW kind \in Kinds, entries' = Append(entries, kind)
    PROVE  /\ Len(entries) \in Nat /\ Len(entries') = Len(entries) + 1
           /\ \A n \in 0 .. Len(entries) : Rounds'[n] = Rounds[n]
           /\ Rounds'[Len(entries) + 1] = IF kind = "heard" THEN turn + 1 ELSE turn
  <1> DEFINE N == Len(entries)
             later == {k \in 1 .. N + 1 : entries'[k] = "heard"}
  <1>1. N \in Nat /\ Len(entries') = N + 1 /\ entries'[N + 1] = kind
    BY LenProperties, AppendProperties DEF AuditTypes
  <1>2. \A k \in 1 .. N : entries'[k] = entries[k]
    BY AppendProperties DEF AuditTypes
  <1>3. IsFiniteSet(HeardUpTo(N)) /\ Cardinality(HeardUpTo(N)) \in Nat
    BY <1>1, HeardFinite
  <1>4. turn = 1 + Cardinality(HeardUpTo(N))
    BY <1>1 DEF Counted, Rounds
  <1>5. \A n \in 0 .. N + 1 : Rounds'[n] = 1 + Cardinality({k \in 1 .. n : entries'[k] = "heard"})
    BY <1>1 DEF Rounds, HeardUpTo
  <1>6. ASSUME NEW n \in 0 .. N PROVE Rounds'[n] = Rounds[n]
    <2>1. {k \in 1 .. n : entries'[k] = "heard"} = HeardUpTo(n)
      BY <1>1, <1>2 DEF HeardUpTo
    <2>2. Rounds'[n] = 1 + Cardinality(HeardUpTo(n))
      BY <1>1, <1>5, <2>1
    <2> QED BY <2>2 DEF Rounds
  <1>7. Rounds'[N + 1] = 1 + Cardinality(later)
    BY <1>1, <1>5
  <1>8. CASE kind = "heard"
    <2>1. later = HeardUpTo(N) \cup {N + 1} /\ N + 1 \notin HeardUpTo(N)
      BY <1>1, <1>2, <1>8 DEF HeardUpTo
    <2>2. Cardinality(later) = Cardinality(HeardUpTo(N)) + 1
      BY <1>3, <2>1, FS_AddElement
    <2> HIDE DEF later
    <2> QED BY <1>1, <1>3, <1>4, <1>6, <1>7, <1>8, <2>2
  <1>9. CASE kind # "heard"
    <2>1. later = HeardUpTo(N)
      BY <1>1, <1>2, <1>9 DEF HeardUpTo
    <2> HIDE DEF later
    <2> QED BY <1>1, <1>4, <1>6, <1>7, <1>9, <2>1
  <1> QED BY <1>8, <1>9

---------------------------------------------------------------------------
(* One entry.                                                              *)

LEMMA InitAudit == AuditInit => AuditInv
  <1> SUFFICES ASSUME AuditInit PROVE AuditInv
    OBVIOUS
  <1>1. AuditTypes
    BY EmptySeq DEF AuditInit, AuditTypes
  <1>2. Len(entries) = 0 /\ Len(disk) = 0 /\ Len(open) = 0
    BY EmptySeq DEF AuditInit
  <1>3. HeardUpTo(0) = {}
    BY DEF HeardUpTo
  <1>4. Rounds[Len(entries)] = 1
    BY <1>2, <1>3, FS_EmptySet DEF Rounds
  <1>5. Counted
    BY <1>2, <1>4 DEF Counted, AuditInit
  <1>6. InFile
    BY <1>2 DEF InFile, LineTells
  <1> QED BY <1>1, <1>5, <1>6 DEF AuditInv

(* The same of the log as it is after the step. *)
ThenTells(x) == x.entry \in 1 .. Len(entries') /\ x.turn = Rounds'[x.entry]

ThenLine(l) == \A a \in 1 .. Len(l) : ThenTells(l[a])

(* A line that tells something still tells it when more has been logged.    *)
LEMMA TellsStays ==
    ASSUME AuditTypes, Counted, NEW kind \in Kinds, entries' = Append(entries, kind),
           NEW x, Tells(x)
    PROVE  ThenTells(x)
  BY RoundNext DEF Tells, ThenTells

LEMMA LinesStay ==
    ASSUME AuditInv, NEW kind \in Kinds, entries' = Append(entries, kind)
    PROVE  /\ \A i \in 1 .. Len(disk) : ThenLine(disk[i])
           /\ ThenLine(open)
  <1>1. AuditTypes /\ InFile /\ Counted
    BY DEF AuditInv
  <1>2. ASSUME NEW y, Tells(y) PROVE ThenTells(y)
    BY <1>1, <1>2, TellsStays
  <1> QED BY <1>1, <1>2 DEF InFile, LineTells, ThenLine

(* The piece that tells the new entry, at the end of the open line: it comes *)
(* after everything that was told before.                                   *)
LEMMA PieceFits ==
    ASSUME AuditInv, NEW kind \in Kinds, entries' = Append(entries, kind),
           NEW x \in Pieces, x.entry = Len(entries) + 1, ThenTells(x),
           NEW l, l = Append(open, x)
    PROVE  /\ l \in Seq(Pieces) /\ ThenLine(l)
           /\ \A i \in 1 .. Len(disk) : Before(disk[i], l)
  <1>1. /\ open \in Seq(Pieces) /\ disk \in Seq(Seq(Pieces)) /\ Len(open) \in Nat
        /\ Len(entries) \in Nat
    BY LenProperties DEF AuditInv, AuditTypes
  <1>2. /\ l \in Seq(Pieces) /\ Len(l) = Len(open) + 1 /\ l[Len(open) + 1] = x
        /\ \A a \in 1 .. Len(open) : l[a] = open[a]
    BY <1>1, AppendProperties
  <1>3. \A a \in 1 .. Len(l) : (a \in 1 .. Len(open) /\ l[a] = open[a]) \/ l[a] = x
    BY <1>1, <1>2
  <1>4. ThenLine(l)
    BY <1>3, LinesStay DEF ThenLine
  <1>5. ASSUME NEW i \in 1 .. Len(disk) PROVE Before(disk[i], l)
    <2>1. \A a \in 1 .. Len(disk[i]) : disk[i][a].entry \in 1 .. Len(entries)
      BY DEF AuditInv, InFile, LineTells, Tells
    <2>2. \A a \in 1 .. Len(disk[i]), b \in 1 .. Len(open) :
             disk[i][a].entry < open[b].entry
      BY DEF AuditInv, InFile, Before
    <2>3. ASSUME NEW a \in 1 .. Len(disk[i]), NEW b \in 1 .. Len(l)
          PROVE  disk[i][a].entry < l[b].entry
      <3>1. CASE b \in 1 .. Len(open) /\ l[b] = open[b]
        BY <2>2, <3>1
      <3>2. CASE l[b] = x
        BY SMTT(30), <1>1, <2>1, <3>2
      <3> QED BY <1>3, <3>1, <3>2
    <2> QED BY <2>3 DEF Before
  <1> QED BY <1>2, <1>4, <1>5

(* What an append does to the file, written as a whole or not. *)
LEMMA AppendKeeps ==
    ASSUME AuditInv, NEW kind \in Kinds, entries' = Append(entries, kind),
           NEW t \in Nat, t = Rounds'[Len(entries) + 1],
           AppendMessage(Len(entries) + 1, t)
    PROVE  /\ disk' \in Seq(Seq(Pieces)) /\ open' \in Seq(Pieces)
           /\ count' = Len(disk') /\ count' \in Nat /\ faults' \in Nat
           /\ InFile'
  <1> DEFINE n == Len(entries) + 1
  <1>1. /\ AuditTypes /\ InFile /\ Counted
        /\ disk \in Seq(Seq(Pieces)) /\ open \in Seq(Pieces)
        /\ Len(disk) \in Nat /\ count = Len(disk) /\ faults \in Nat
    BY LenProperties DEF AuditInv, AuditTypes, Counted
  <1>2. n \in Nat /\ Len(entries') = n /\ n \in 1 .. Len(entries')
    BY <1>1, LenProperties, AppendProperties DEF AuditTypes
  <1>4. ASSUME NEW w \in BOOLEAN
        PROVE  Piece(n, t, w) \in Pieces /\ Piece(n, t, w).entry = n /\ ThenTells(Piece(n, t, w))
    <2>1. Piece(n, t, w) = [entry |-> n, turn |-> t, whole |-> w]
      BY DEF Piece
    <2> QED BY <1>2, <2>1 DEF ThenTells, Pieces
  <1>5. ASSUME NEW w \in BOOLEAN, NEW l, l = Append(open, Piece(n, t, w))
        PROVE  /\ l \in Seq(Pieces) /\ ThenLine(l)
               /\ \A i \in 1 .. Len(disk) : Before(disk[i], l)
    <2> DEFINE p == Piece(n, t, w)
    <2>1. p \in Pieces /\ p.entry = n /\ ThenTells(p)
      BY <1>4
    <2>2. l = Append(open, p)
      BY <1>5
    <2> HIDE DEF p
    <2> QED BY <2>1, <2>2, PieceFits
  <1>6. /\ \A i \in 1 .. Len(disk) : ThenLine(disk[i])
        /\ ThenLine(open)
    BY LinesStay
  <1> HIDE DEF n
  <1>7. CASE /\ disk' = Append(disk, Append(open, Piece(n, t, TRUE))) /\ open' = <<>>
             /\ count' = count + 1 /\ UNCHANGED faults
    <2> DEFINE l == Append(open, Piece(n, t, TRUE))
    <2>1. l \in Seq(Pieces) /\ ThenLine(l) /\ \A i \in 1 .. Len(disk) : Before(disk[i], l)
      BY <1>5
    <2>2. disk' = Append(disk, l)
      BY <1>7
    <2> HIDE DEF l
    <2>3. /\ disk' \in Seq(Seq(Pieces)) /\ Len(disk') = Len(disk) + 1
          /\ disk'[Len(disk) + 1] = l /\ \A i \in 1 .. Len(disk) : disk'[i] = disk[i]
      BY <1>1, <2>1, <2>2, AppendProperties
    <2>4. open' \in Seq(Pieces) /\ Len(open') = 0
      BY <1>7, EmptySeq
    <2> DEFINE N == Len(disk)
    <2>9. \A i \in 1 .. Len(disk') : 
            (i \in 1 .. N /\ disk'[i] = disk[i]) \/ (i = N + 1 /\ disk'[i] = l)
      <3>1. N \in Nat /\ Len(disk') = N + 1 /\ disk'[N + 1] = l
        BY <1>1, <2>3
      <3>2. \A i \in 1 .. N : disk'[i] = disk[i]
        BY <2>3
      <3> HIDE DEF N
      <3> QED BY <3>1, <3>2
    <2>5. \A i \in 1 .. Len(disk') : ThenLine(disk'[i])
      BY <1>6, <2>1, <2>9
    <2>6. \A i, j \in 1 .. Len(disk') : i < j => Before(disk'[i], disk'[j])
      <3>1. \A i, j \in 1 .. Len(disk) : i < j => Before(disk[i], disk[j])
        BY <1>1 DEF InFile
      <3>2. N \in Nat
        BY <1>1
      <3> HIDE DEF N
      <3>3. TAKE i, j \in 1 .. Len(disk')
      <3>4. HAVE i < j
      <3>5. i \in 1 .. N /\ disk'[i] = disk[i]
        <4>1. Len(disk') = N + 1
          BY <2>3 DEF N
        <4> QED BY <2>9, <3>2, <3>4, <4>1
      <3>6. CASE j \in 1 .. N /\ disk'[j] = disk[j]
        BY <3>1, <3>4, <3>5, <3>6 DEF N
      <3>7. CASE disk'[j] = l
        BY <2>1, <3>5, <3>7 DEF N
      <3> QED BY <2>9, <3>6, <3>7
    <2>7. InFile'
      <3>1. \A i \in 1 .. Len(disk') : LineTells(disk[i])'
        BY <2>5 DEF LineTells, Tells, ThenLine, ThenTells
      <3>2. \A i \in 1 .. Len(disk') : Before(disk[i], open)'
        BY <2>4 DEF Before
      <3>3. \A i, j \in 1 .. Len(disk') : i < j => Before(disk[i], disk[j])'
        BY <2>6 DEF Before
      <3>4. LineTells(open)'
        BY <2>4 DEF LineTells
      <3> QED BY <3>1, <3>2, <3>3, <3>4 DEF InFile
    <2>8. count' = Len(disk') /\ count' \in Nat /\ faults' \in Nat
      BY <1>1, <1>7, <2>3
    <2> QED BY <2>3, <2>4, <2>7, <2>8
  <1>8. CASE /\ faults < MaxFaults /\ faults' = faults + 1
             /\ UNCHANGED open /\ UNCHANGED <<disk, count>>
    <2>1. InFile'
      <3>1. (\A i \in 1 .. Len(disk) : LineTells(disk[i]))' /\ LineTells(open)'
        BY <1>6, <1>8 DEF LineTells, Tells, ThenLine, ThenTells
      <3>2. /\ (\A i \in 1 .. Len(disk) : Before(disk[i], open))'
            /\ (\A i, j \in 1 .. Len(disk) : i < j => Before(disk[i], disk[j]))'
        BY <1>1, <1>8 DEF InFile, Before
      <3> QED BY <3>1, <3>2 DEF InFile
    <2> QED BY <1>1, <1>8, <2>1
  <1>9. ASSUME NEW w \in BOOLEAN, faults' = faults + 1, UNCHANGED <<disk, count>>,
               open' = Append(open, Piece(n, t, w))
        PROVE  /\ disk' \in Seq(Seq(Pieces)) /\ open' \in Seq(Pieces)
               /\ count' = Len(disk') /\ count' \in Nat /\ faults' \in Nat
               /\ InFile'
    <2>1. /\ open' \in Seq(Pieces) /\ ThenLine(open')
          /\ \A i \in 1 .. Len(disk) : Before(disk[i], open')
      BY <1>5, <1>9
    <2>2. InFile'
      <3>1. (\A i \in 1 .. Len(disk) : LineTells(disk[i]))' /\ LineTells(open)'
        BY <1>6, <1>9, <2>1 DEF LineTells, Tells, ThenLine, ThenTells
      <3>2. (\A i \in 1 .. Len(disk) : Before(disk[i], open))'
        BY <1>9, <2>1 DEF Before
      <3>3. \A i, j \in 1 .. Len(disk) : i < j => Before(disk[i], disk[j])
        BY <1>1 DEF InFile
      <3>4. (\A i, j \in 1 .. Len(disk) : i < j => Before(disk[i], disk[j]))'
        BY <1>9, <3>3 DEF Before
      <3> QED BY <3>1, <3>2, <3>4 DEF InFile
    <2> QED BY <1>1, <1>9, <2>1, <2>2
  <1> QED BY <1>7, <1>8, <1>9 DEF AppendMessage, n

LEMMA RecordKeeps ==
    ASSUME AuditInv, NEW kind \in Kinds, RecordEntry(kind)
    PROVE  AuditInv'
  <1> DEFINE t == IF kind = "heard" THEN turn + 1 ELSE turn
  <1>1. AuditTypes /\ Counted /\ entries' = Append(entries, kind) /\ turn' = t
    BY DEF AuditInv, RecordEntry
  <1>2. Rounds'[Len(entries) + 1] = t /\ t \in Nat /\ Len(entries') = Len(entries) + 1
    BY <1>1, RoundNext DEF AuditTypes
  <1>3. entries' \in Seq(Kinds)
    BY <1>1, AppendProperties DEF AuditTypes
  <1>4. turn' = Rounds'[Len(entries')] /\ turn' \in Nat
    BY <1>1, <1>2
  <1>5. CASE UNCHANGED <<disk, open, count, faults>>
    <2>1. InFile'
      <3>1. InFile /\ (\A i \in 1 .. Len(disk) : ThenLine(disk[i])) /\ ThenLine(open)
        BY <1>1, LinesStay DEF AuditInv
      <3> QED BY <1>5, <3>1 DEF InFile, LineTells, Tells, ThenLine, ThenTells, Before
    <2>2. AuditTypes' /\ count' = Len(disk')
      BY <1>1, <1>3, <1>4, <1>5 DEF AuditTypes, Counted
    <2> QED BY <1>4, <2>1, <2>2 DEF AuditInv, Counted
  <1>6. CASE AppendMessage(Len(entries) + 1, t)
    <2>1. /\ disk' \in Seq(Seq(Pieces)) /\ open' \in Seq(Pieces)
          /\ count' = Len(disk') /\ count' \in Nat /\ faults' \in Nat
          /\ InFile'
      <3> HIDE DEF t
      <3> QED BY <1>1, <1>2, <1>6, AppendKeeps
    <2> QED BY <1>3, <1>4, <2>1 DEF AuditInv, AuditTypes, Counted
  <1> QED BY <1>5, <1>6 DEF RecordEntry

---------------------------------------------------------------------------
(* A log whose lines are one whole message each is read as it was written.  *)
LEMMA ReadsTrue == AuditInv => AuditTells
  <1> SUFFICES ASSUME AuditInv, Readable PROVE
        /\ \A i, j \in DOMAIN ReadMessageLog :
              i < j => ReadMessageLog[i].entry < ReadMessageLog[j].entry
        /\ \A i \in DOMAIN ReadMessageLog :
              ReadMessageLog[i].turn = 1 + Cardinality(HeardUpTo(ReadMessageLog[i].entry))
        /\ open = <<>> => Len(ReadMessageLog) = count
    BY DEF AuditTells
  <1>1. /\ AuditTypes /\ InFile /\ Counted
        /\ disk \in Seq(Seq(Pieces)) /\ open \in Seq(Pieces) /\ Len(disk) \in Nat
    BY LenProperties DEF AuditInv, AuditTypes
  <1>2. LogLines \in Seq(Seq(Pieces)) /\ (open = <<>> => Len(LogLines) = Len(disk))
    BY <1>1, AppendProperties DEF LogLines
  <1>3. \A i \in 1 .. Len(LogLines) : LineTells(LogLines[i])
    BY <1>1, AppendProperties DEF LogLines, InFile
  <1>4. \A i, j \in 1 .. Len(LogLines) : i < j => Before(LogLines[i], LogLines[j])
    <2>1. CASE LogLines = disk
      BY <1>1, <2>1 DEF InFile
    <2>2. CASE LogLines = Append(disk, open)
      <3>1. /\ Len(LogLines) = Len(disk) + 1 /\ LogLines[Len(disk) + 1] = open
            /\ \A i \in 1 .. Len(disk) : LogLines[i] = disk[i]
        BY <1>1, <2>2, AppendProperties
      <3>2. TAKE i, j \in 1 .. Len(LogLines)
      <3>3. HAVE i < j
      <3>4. i \in 1 .. Len(disk) /\ (j \in 1 .. Len(disk) \/ j = Len(disk) + 1)
        <4> DEFINE N == Len(disk)
        <4>1. N \in Nat /\ i \in 1 .. (N + 1) /\ j \in 1 .. (N + 1)
          BY <1>1, <3>1
        <4> HIDE DEF N
        <4>2. i \in 1 .. N /\ (j \in 1 .. N \/ j = N + 1)
          BY <3>3, <4>1
        <4> QED BY <4>2 DEF N
      <3>5. LogLines[i] = disk[i] /\ Before(disk[i], open)
        BY <1>1, <3>1, <3>4 DEF InFile
      <3>6. CASE j = Len(disk) + 1
        BY <3>1, <3>5, <3>6
      <3>7. CASE j \in 1 .. Len(disk)
        <4>1. Before(disk[i], disk[j])
          BY <1>1, <3>3, <3>4, <3>7 DEF InFile
        <4> QED BY <3>1, <3>5, <3>7, <4>1
      <3> QED BY <3>4, <3>6, <3>7
    <2> QED BY <2>1, <2>2 DEF LogLines
  <1>5. DOMAIN LogLines = 1 .. Len(LogLines) /\ Len(LogLines) \in Nat
    BY <1>2, LenProperties
  <1>6. \A i \in 1 .. Len(LogLines) : Len(LogLines[i]) = 1
    BY <1>5 DEF Readable, ToSet
  <1>7. ReadMessageLog = [i \in 1 .. Len(LogLines) |-> LogLines[i][1]]
    BY <1>5 DEF ReadMessageLog
  <1>8. DOMAIN ReadMessageLog = 1 .. Len(LogLines) /\ Len(ReadMessageLog) = Len(LogLines)
    BY <1>5, <1>7
  <1> HIDE DEF LogLines
  <1>9. ASSUME NEW i \in DOMAIN ReadMessageLog, NEW j \in DOMAIN ReadMessageLog, i < j
        PROVE  ReadMessageLog[i].entry < ReadMessageLog[j].entry
    BY <1>4, <1>6, <1>7, <1>8, <1>9 DEF Before
  <1>10. ASSUME NEW i \in DOMAIN ReadMessageLog
         PROVE  ReadMessageLog[i].turn = 1 + Cardinality(HeardUpTo(ReadMessageLog[i].entry))
    <2> DEFINE x == LogLines[i][1]
    <2>1. ReadMessageLog[i] = x /\ Tells(x)
      BY <1>3, <1>6, <1>7, <1>8 DEF LineTells
    <2>2. Len(entries) \in Nat
      BY <1>1, LenProperties DEF AuditTypes
    <2> HIDE DEF x
    <2>3. x.entry \in 0 .. Len(entries) /\ x.turn = Rounds[x.entry]
      BY <2>1, <2>2 DEF Tells
    <2>4. \A n \in 0 .. Len(entries) : Rounds[n] = 1 + Cardinality(HeardUpTo(n))
      BY DEF Rounds
    <2> QED BY <2>1, <2>3, <2>4
  <1> QED BY <1>1, <1>2, <1>8, <1>9, <1>10 DEF Counted

(* Whatever a full disk does to the log of a conversation, and wherever in  *)
(* a line it does it (MessageLogWriter::append): a log that can be read     *)
(* tells the entries in their order, each with the round in which it was    *)
(* said, and as many of them as the manifest of the step counts.            *)
THEOREM LogTells == AuditSpec => []AuditTells
  <1>1. AuditInv /\ [AuditNext]_avars => AuditInv'
    <2> SUFFICES ASSUME AuditInv, [AuditNext]_avars PROVE AuditInv'
      OBVIOUS
    <2>1. CASE AuditNext
      BY <2>1, RecordKeeps DEF AuditNext
    <2>2. CASE UNCHANGED avars
      <3>1. Rounds' = Rounds
        BY <2>2 DEF avars, Rounds, HeardUpTo
      <3>2. AuditTypes' /\ Counted'
        BY <2>2, <3>1 DEF avars, AuditInv, AuditTypes, Counted
      <3>3. InFile'
        <4>1. disk' = disk /\ open' = open /\ entries' = entries
          BY <2>2 DEF avars
        <4>2. InFile
          BY DEF AuditInv
        <4> QED BY SMTT(30), <3>1, <4>1, <4>2 DEF InFile, LineTells, Tells, Before
      <3> QED BY <3>2, <3>3 DEF AuditInv
    <2> QED BY <2>1, <2>2
  <1> QED BY InitAudit, ReadsTrue, <1>1, PTL DEF AuditSpec
=============================================================================
