---------------------------- MODULE SetupProofs ----------------------------
(***************************************************************************)
(* Theorems about Setup, for every set of worlds that are file systems and  *)
(* command lines (IsWorld), whatever is written in the files.               *)
(*                                                                          *)
(* The invariant says of every stage what it leaves to the next: SetupInv   *)
(* grows a record of the plan stage by stage, and what a property says of   *)
(* a started call follows from the last of them (StartedAtWork).            *)
(***************************************************************************)
EXTENDS Setup, SequenceLemmas, FiniteSetTheorems

---------------------------------------------------------------------------
(* Command lines: what stands in them, and where.                           *)

\* No prover here knows that a literal is in STRING.
Word ==
  STRING \cup
  {"none", "claude", "--print", "--model", "--output-format", "stream-json",
   "--system-prompt", "--input-format", "--append-system-prompt",
   "codex", "exec", "--full-auto", "-m", "ollama", "run", "--system",
   "POST", "sh", "-c", "sonnet", "claude-sonnet-4-5", ".kuro", ".koto",
   "api"}

LEMMA Pair ==
  ASSUME NEW S, NEW a \in S, NEW b \in S
  PROVE  <<a, b>> \in Seq(S) /\ Len(<<a, b>>) = 2 /\ <<a, b>>[1] = a
  OBVIOUS

LEMMA Triple ==
  ASSUME NEW S, NEW a \in S, NEW b \in S, NEW c \in S
  PROVE  <<a, b, c>> \in Seq(S) /\ Len(<<a, b, c>>) = 3 /\ <<a, b, c>>[1] = a
  OBVIOUS

LEMMA Quintuple ==
  ASSUME NEW S, NEW a \in S, NEW b \in S, NEW c \in S, NEW d \in S, NEW e \in S
  PROVE  <<a, b, c, d, e>> \in Seq(S)
  OBVIOUS

(* Elements of other kinds around a sequence leave it together.             *)
LEMMA TogetherIn ==
  ASSUME NEW S, NEW kinds, NEW a \in Seq(S), NEW t \in Seq(S), NEW b \in Seq(S),
         \A x \in ToSet(a) \cup ToSet(b) : x[1] \notin kinds,
         \A x \in ToSet(t) : x[1] \in kinds
  PROVE  Together((a \o t) \o b, kinds, t)
  <1> DEFINE s == a \o t
             u == s \o b
             n == Len(a)
             m == Len(t)
             k == Len(b)
  <1>1. /\ s \in Seq(S) /\ n \in Nat /\ m \in Nat /\ Len(s) = n + m
        /\ \A i \in 1 .. n + m : s[i] = IF i <= n THEN a[i] ELSE t[i - n]
    BY ConcatElements
  <1>2. /\ u \in Seq(S) /\ k \in Nat /\ Len(u) = (n + m) + k
        /\ \A i \in 1 .. (n + m) + k : u[i] = IF i <= n + m THEN s[i] ELSE b[i - (n + m)]
    <2> HIDE DEF s
    <2>0. s \in Seq(S) /\ b \in Seq(S)
      BY <1>1
    <2>1. /\ u \in Seq(S) /\ Len(b) \in Nat /\ Len(u) = Len(s) + Len(b)
          /\ \A i \in 1 .. Len(s) + Len(b) : u[i] = IF i <= Len(s) THEN s[i] ELSE b[i - Len(s)]
      BY ONLY <2>0, ConcatElements
    <2>2. k = Len(b)
      OBVIOUS
    <2> HIDE DEF u, n, m, k
    <2> QED BY <1>1, <2>1, <2>2
  <1>3. /\ ToSet(a) = {a[i] : i \in 1 .. n} /\ ToSet(t) = {t[i] : i \in 1 .. m}
        /\ ToSet(b) = {b[i] : i \in 1 .. k} /\ DOMAIN t = 1 .. m
    <2>1. DOMAIN t = 1 .. Len(t)
      BY LenProperties
    <2> QED BY <2>1, ElementsOf
  <1>4. DOMAIN u = 1 .. (n + m) + k
    BY <1>2, LenProperties
  <1> HIDE DEF s, u, n, m, k
  <1>5. ASSUME NEW i \in 1 .. (n + m) + k
        PROVE  u[i][1] \in kinds <=> i \in n + 1 .. n + m
    <2>1. CASE i <= n
      <3>1. u[i] = a[i] /\ i \in 1 .. n
        BY <1>1, <1>2, <2>1
      <3> QED BY <1>1, <1>3, <2>1, <3>1
    <2>2. CASE n < i /\ i <= n + m
      <3>1. u[i] = t[i - n] /\ i - n \in 1 .. m
        BY <1>1, <1>2, <2>2
      <3> QED BY <1>1, <1>3, <2>2, <3>1
    <2>3. CASE n + m < i
      <3>1. u[i] = b[i - (n + m)] /\ i - (n + m) \in 1 .. k
        BY <1>1, <1>2, <2>3
      <3> QED BY <1>1, <1>3, <2>3, <3>1
    <2> QED BY <1>1, <2>1, <2>2, <2>3
  <1>6. {i \in DOMAIN u : u[i][1] \in kinds} = n + 1 .. n + m
    <2>1. n + 1 .. n + m \subseteq 1 .. (n + m) + k
      BY <1>1, <1>2
    <2> QED BY <1>4, <1>5, <2>1
  <1>7. \A i \in DOMAIN t : u[n + i] = t[i]
    <2> SUFFICES ASSUME NEW i \in 1 .. m PROVE u[n + i] = t[i]
      BY <1>3
    <2>1. n + i \in 1 .. n + m /\ n + i \in 1 .. (n + m) + k /\ ~ (n + i <= n) /\ (n + i) - n = i
      BY <1>1, <1>2
    <2> QED BY <1>1, <1>2, <2>1
  <1>8. n \in 0 .. Len(u)
    BY <1>1, <1>2
  <1> QED BY <1>6, <1>7, <1>8 DEF Together, s, u, n, m, k

Arguments(P) == ({"flag", "arg"} \X Word) \cup ({"model"} \X Seq(Word))
                   \cup ({"text"} \X Seq(P))

LEMMA FlagsAre ==
  ASSUME NEW P, NEW names \in Seq(Word)
  PROVE  /\ Flags(names) \in Seq(Arguments(P)) /\ Len(Flags(names)) = Len(names)
         /\ \A a \in ToSet(Flags(names)) : a[1] = "flag"
         /\ \A i \in 1 .. Len(names) : Flags(names)[i] = <<"flag", names[i]>>
  <1> DEFINE f == [i \in 1 .. Len(names) |-> <<"flag", names[i]>>]
  <1>1. Len(names) \in Nat /\ DOMAIN names = 1 .. Len(names)
        /\ \A i \in 1 .. Len(names) : names[i] \in Word
    BY LenProperties
  <1>2. Flags(names) = f
    BY <1>1 DEF Flags
  <1>3. f \in [1 .. Len(names) -> Arguments(P)]
    BY <1>1 DEF Arguments
  <1>4. f \in Seq(Arguments(P)) /\ Len(f) = Len(names)
    BY <1>1, <1>3, IsASeq, LenProperties
  <1>5. ToSet(f) = {f[i] : i \in 1 .. Len(names)}
    <2> HIDE DEF f
    <2> QED BY <1>4, ElementsOf
  <1> QED BY <1>2, <1>4, <1>5

LEMMA ArgsAre ==
  ASSUME NEW P, NEW extra \in Seq(Word)
  PROVE  /\ Args(extra) \in Seq(Arguments(P)) /\ Len(Args(extra)) = Len(extra)
         /\ \A a \in ToSet(Args(extra)) : a[1] = "arg"
  <1> DEFINE f == [i \in 1 .. Len(extra) |-> <<"arg", extra[i]>>]
  <1>1. Len(extra) \in Nat /\ DOMAIN extra = 1 .. Len(extra)
        /\ \A i \in 1 .. Len(extra) : extra[i] \in Word
    BY LenProperties
  <1>2. Args(extra) = f
    BY <1>1 DEF Args
  <1>3. f \in [1 .. Len(extra) -> Arguments(P)]
    BY <1>1 DEF Arguments
  <1>4. f \in Seq(Arguments(P)) /\ Len(f) = Len(extra)
    BY <1>1, <1>3, IsASeq, LenProperties
  <1>5. ToSet(f) = {f[i] : i \in 1 .. Len(extra)}
    <2> HIDE DEF f
    <2> QED BY <1>4, ElementsOf
  <1> QED BY <1>2, <1>4, <1>5

LEMMA ModelIs ==
  ASSUME NEW P, NEW model \in Seq(Word)
  PROVE  Model(model) \in Seq(Arguments(P)) /\ ToSet(Model(model)) = {<<"model", model>>}
  <1>1. <<"model", model>> \in Arguments(P)
    BY DEF Arguments
  <1> QED BY <1>1, Singleton DEF Model, ToSet

LEMMA TextArgIs ==
  ASSUME NEW P, NEW parts \in Seq(P)
  PROVE  Text(parts) \in Seq(Arguments(P)) /\ ToSet(Text(parts)) = {<<"text", parts>>}
  <1>1. <<"text", parts>> \in Arguments(P)
    BY DEF Arguments
  <1> QED BY <1>1, Singleton DEF Text, ToSet

LEMMA Joined ==
  ASSUME NEW S, NEW a \in Seq(S), NEW b \in Seq(S)
  PROVE  /\ a \o b \in Seq(S) /\ ToSet(a \o b) = ToSet(a) \cup ToSet(b)
         /\ Len(a) \in Nat /\ Len(b) \in Nat /\ Len(a \o b) = Len(a) + Len(b)
         /\ Len(a) > 0 => (a \o b)[1] = a[1]
  <1>1. /\ a \o b \in Seq(S) /\ ToSet(a \o b) = ToSet(a) \cup ToSet(b)
        /\ Len(a) \in Nat /\ Len(b) \in Nat /\ Len(a \o b) = Len(a) + Len(b)
        /\ \A i \in 1 .. Len(a) + Len(b) :
              (a \o b)[i] = IF i <= Len(a) THEN a[i] ELSE b[i - Len(a)]
    BY ConcatElements
  <1>2. ASSUME Len(a) > 0 PROVE (a \o b)[1] = a[1]
    <2>1. 1 \in 1 .. Len(a) + Len(b) /\ 1 <= Len(a)
      BY <1>1, <1>2
    <2> QED BY <1>1, <2>1
  <1> QED BY <1>1, <1>2

LEMMA TextsOfIs ==
  ASSUME NEW S, NEW argv \in Seq(S)
  PROVE  TextsOf(argv) = {a[2] : a \in {x \in ToSet(argv) : x[1] = "text"}}
  <1>1. ToSet(argv) = {argv[i] : i \in 1 .. Len(argv)} /\ DOMAIN argv = 1 .. Len(argv)
    <2>1. DOMAIN argv = 1 .. Len(argv)
      BY LenProperties
    <2> QED BY <2>1, ElementsOf
  <1> QED BY <1>1 DEF TextsOf

\* The command line up to the extra arguments: the program, its one model and
\* some texts.
Opening(pre, P, program, model, texts) ==
  /\ pre \in Seq(Arguments(P)) /\ Len(pre) > 0 /\ pre[1] = <<"flag", program>>
  /\ \A a \in ToSet(pre) : a[1] # "arg" /\ (a[1] = "model" => a[2] = model)
  /\ TextsOf(pre) = texts

\* A command line, whole.
Fits(argv, P, program, model, extra, texts) ==
  /\ argv \in Seq(Arguments(P)) /\ Len(argv) > 0 /\ argv[1] = <<"flag", program>>
  /\ \A a \in ToSet(argv) : a[1] = "model" => a[2] = model
  /\ Together(argv, {"arg"}, Args(extra))
  /\ TextsOf(argv) = texts

LEMMA OpeningFlags ==
  ASSUME NEW P, NEW names \in Seq(Word), Len(names) > 0, NEW model
  PROVE  Opening(Flags(names), P, names[1], model, {})
  <1>1. /\ Flags(names) \in Seq(Arguments(P)) /\ Len(Flags(names)) = Len(names)
        /\ \A a \in ToSet(Flags(names)) : a[1] = "flag"
        /\ Flags(names)[1] = <<"flag", names[1]>>
    <2>1. 1 \in 1 .. Len(names)
      BY LenProperties
    <2> QED BY <2>1, FlagsAre
  <1>2. TextsOf(Flags(names)) = {a[2] : a \in {x \in ToSet(Flags(names)) : x[1] = "text"}}
    BY <1>1, TextsOfIs
  <1>3. {x \in ToSet(Flags(names)) : x[1] = "text"} = {}
    BY <1>1
  <1> QED BY <1>1, <1>2, <1>3 DEF Opening

LEMMA OpeningMore ==
  ASSUME NEW P, NEW pre, NEW program, NEW model, NEW texts,
         Opening(pre, P, program, model, texts),
         NEW s \in Seq(Arguments(P)),
         \A a \in ToSet(s) : a[1] # "arg" /\ (a[1] = "model" => a[2] = model)
  PROVE  Opening(pre \o s, P, program, model, texts \cup TextsOf(s))
  <1> DEFINE S == Arguments(P)
             t == pre \o s
  <1>1. /\ pre \in Seq(S) /\ Len(pre) > 0 /\ pre[1] = <<"flag", program>>
        /\ \A a \in ToSet(pre) : a[1] # "arg" /\ (a[1] = "model" => a[2] = model)
        /\ TextsOf(pre) = texts
    BY DEF Opening
  <1> HIDE DEF S
  <1>2. /\ t \in Seq(S) /\ ToSet(t) = ToSet(pre) \cup ToSet(s)
        /\ Len(pre) \in Nat /\ Len(s) \in Nat /\ Len(t) = Len(pre) + Len(s)
        /\ t[1] = pre[1]
    <2>1. s \in Seq(S)
      BY DEF S
    <2> QED BY <1>1, <2>1, Joined
  <1>3. /\ TextsOf(pre) = {a[2] : a \in {x \in ToSet(pre) : x[1] = "text"}}
        /\ TextsOf(s) = {a[2] : a \in {x \in ToSet(s) : x[1] = "text"}}
        /\ TextsOf(t) = {a[2] : a \in {x \in ToSet(t) : x[1] = "text"}}
    <2>1. s \in Seq(S)
      BY DEF S
    <2> HIDE DEF t
    <2> QED BY <1>1, <1>2, <2>1, TextsOfIs
  <1> HIDE DEF t
  <1>4. TextsOf(t) = texts \cup TextsOf(s)
    BY <1>1, <1>2, <1>3
  <1>5. \A a \in ToSet(t) : a[1] # "arg" /\ (a[1] = "model" => a[2] = model)
    BY <1>1, <1>2
  <1>6. t \in Seq(Arguments(P)) /\ Len(t) > 0 /\ t[1] = <<"flag", program>>
    BY <1>1, <1>2 DEF S
  <1>7. Opening(t, P, program, model, texts \cup TextsOf(s))
    BY <1>4, <1>5, <1>6 DEF Opening
  <1> QED BY <1>7 DEF t

LEMMA OpeningWithFlags ==
  ASSUME NEW P, NEW pre, NEW program, NEW model, NEW texts,
         Opening(pre, P, program, model, texts), NEW names \in Seq(Word)
  PROVE  Opening(pre \o Flags(names), P, program, model, texts)
  <1> DEFINE s == Flags(names)
  <1>1. s \in Seq(Arguments(P)) /\ \A a \in ToSet(s) : a[1] = "flag"
    BY FlagsAre
  <1> HIDE DEF s
  <1>2. TextsOf(s) = {a[2] : a \in {x \in ToSet(s) : x[1] = "text"}}
    BY <1>1, TextsOfIs
  <1>3. TextsOf(s) = {} /\ \A a \in ToSet(s) : a[1] # "arg" /\ a[1] # "model"
    BY <1>1, <1>2
  <1>4. Opening(pre \o s, P, program, model, texts \cup TextsOf(s))
    BY <1>1, <1>3, OpeningMore
  <1>5. texts \cup TextsOf(s) = texts
    BY <1>3
  <1> QED BY <1>4, <1>5 DEF s

LEMMA OpeningWithModel ==
  ASSUME NEW P, NEW pre, NEW program, NEW model \in Seq(Word), NEW texts,
         Opening(pre, P, program, model, texts)
  PROVE  Opening(pre \o Model(model), P, program, model, texts)
  <1> DEFINE s == Model(model)
  <1>1. s \in Seq(Arguments(P)) /\ ToSet(s) = {<<"model", model>>}
    BY ModelIs
  <1> HIDE DEF s
  <1>2. TextsOf(s) = {a[2] : a \in {x \in ToSet(s) : x[1] = "text"}}
    BY <1>1, TextsOfIs
  <1>3. TextsOf(s) = {} /\ \A a \in ToSet(s) : a[1] # "arg" /\ (a[1] = "model" => a[2] = model)
    BY <1>1, <1>2
  <1>4. Opening(pre \o s, P, program, model, texts \cup TextsOf(s))
    BY <1>1, <1>3, OpeningMore
  <1>5. texts \cup TextsOf(s) = texts
    BY <1>3
  <1> QED BY <1>4, <1>5 DEF s

LEMMA OpeningWithText ==
  ASSUME NEW P, NEW pre, NEW program, NEW model, NEW texts,
         Opening(pre, P, program, model, texts), NEW parts \in Seq(P)
  PROVE  Opening(pre \o Text(parts), P, program, model, texts \cup {parts})
  <1> DEFINE s == Text(parts)
  <1>1. s \in Seq(Arguments(P)) /\ ToSet(s) = {<<"text", parts>>}
    BY TextArgIs
  <1> HIDE DEF s
  <1>2. TextsOf(s) = {a[2] : a \in {x \in ToSet(s) : x[1] = "text"}}
    BY <1>1, TextsOfIs
  <1>3. TextsOf(s) = {parts} /\ \A a \in ToSet(s) : a[1] # "arg" /\ a[1] # "model"
    <2> DEFINE x == <<"text", parts>>
    <2>1. x[1] = "text" /\ x[2] = parts
      OBVIOUS
    <2> HIDE DEF x
    <2>2. {y \in ToSet(s) : y[1] = "text"} = {x} /\ ToSet(s) = {x}
      BY <1>1, <2>1 DEF x
    <2> QED BY <1>2, <2>1, <2>2
  <1>4. Opening(pre \o s, P, program, model, texts \cup TextsOf(s))
    BY <1>1, <1>3, OpeningMore
  <1> QED BY <1>3, <1>4 DEF s

\* The extra arguments last, or before the prompt.
LEMMA ArgsLast ==
  ASSUME NEW P, NEW pre, NEW program, NEW model, NEW texts,
         Opening(pre, P, program, model, texts), NEW extra \in Seq(Word)
  PROVE  Fits(pre \o Args(extra), P, program, model, extra, texts)
  <1> DEFINE S == Arguments(P)
             s == Args(extra)
             t == pre \o s
  <1>1. /\ pre \in Seq(S) /\ Len(pre) > 0 /\ pre[1] = <<"flag", program>>
        /\ \A a \in ToSet(pre) : a[1] # "arg" /\ (a[1] = "model" => a[2] = model)
        /\ TextsOf(pre) = texts
    BY DEF Opening
  <1>0. s \in Seq(S) /\ \A a \in ToSet(s) : a[1] = "arg"
    BY ArgsAre
  <1> HIDE DEF S, s
  <1>2. /\ t \in Seq(S) /\ ToSet(t) = ToSet(pre) \cup ToSet(s)
        /\ Len(pre) \in Nat /\ Len(s) \in Nat /\ Len(t) = Len(pre) + Len(s)
        /\ t[1] = pre[1]
    BY <1>0, <1>1, Joined
  <1>3. /\ TextsOf(pre) = {a[2] : a \in {x \in ToSet(pre) : x[1] = "text"}}
        /\ TextsOf(t) = {a[2] : a \in {x \in ToSet(t) : x[1] = "text"}}
    <2> HIDE DEF t
    <2> QED BY <1>1, <1>2, TextsOfIs
  <1>4. Together(t, {"arg"}, s)
    <2>1. <<>> \in Seq(S) /\ ToSet(<<>>) = {} /\ t \o <<>> = t
      <3>1. <<>> \in Seq(S) /\ Len(<<>>) = 0
        BY EmptySeq
      <3>2. ToSet(<<>>) = {<<>>[i] : i \in 1 .. 0}
        BY <3>1, ElementsOf
      <3>3. \A x \in Seq(S) : x \o <<>> = x
        BY ConcatEmptySeq
      <3> QED BY <1>2, <3>1, <3>2, <3>3
    <2>2. /\ \A x \in ToSet(pre) \cup ToSet(<<>>) : x[1] \notin {"arg"}
          /\ \A x \in ToSet(s) : x[1] \in {"arg"}
      BY <1>0, <1>1, <2>1
    <2>3. Together((pre \o s) \o <<>>, {"arg"}, s)
      BY <1>0, <1>1, <2>1, <2>2, TogetherIn
    <2> QED BY <2>1, <2>3
  <1> HIDE DEF t
  <1>5. {x \in ToSet(t) : x[1] = "text"} = {x \in ToSet(pre) : x[1] = "text"}
    BY <1>0, <1>2
  <1>6. TextsOf(t) = texts
    BY <1>1, <1>3, <1>5
  <1>7. \A a \in ToSet(t) : a[1] = "model" => a[2] = model
    BY <1>0, <1>1, <1>2
  <1>8. t \in Seq(Arguments(P)) /\ Len(t) > 0 /\ t[1] = <<"flag", program>>
    BY <1>1, <1>2 DEF S
  <1>9. Fits(t, P, program, model, extra, texts)
    BY <1>4, <1>6, <1>7, <1>8 DEF Fits, s
  <1> QED BY <1>9 DEF t, s

LEMMA ArgsThenText ==
  ASSUME NEW P, NEW pre, NEW program, NEW model, NEW texts,
         Opening(pre, P, program, model, texts), NEW extra \in Seq(Word),
         NEW parts \in Seq(P)
  PROVE  Fits((pre \o Args(extra)) \o Text(parts), P, program, model, extra, texts \cup {parts})
  <1> DEFINE S == Arguments(P)
             s == Args(extra)
             t == pre \o s
             q == Text(parts)
             u == t \o q
  <1>1. /\ t \in Seq(S) /\ Len(t) > 0 /\ t[1] = <<"flag", program>>
        /\ \A a \in ToSet(t) : a[1] = "model" => a[2] = model
        /\ TextsOf(t) = texts
    BY ArgsLast DEF Fits
  <1>2. /\ pre \in Seq(S) /\ \A a \in ToSet(pre) : a[1] # "arg"
    BY DEF Opening
  <1>3. s \in Seq(S) /\ \A a \in ToSet(s) : a[1] = "arg"
    BY ArgsAre
  <1>4. q \in Seq(S) /\ ToSet(q) = {<<"text", parts>>}
    BY TextArgIs
  <1>5. Together(u, {"arg"}, s)
    <2> HIDE DEF S, s, q
    <2>1. /\ \A x \in ToSet(pre) \cup ToSet(q) : x[1] \notin {"arg"}
          /\ \A x \in ToSet(s) : x[1] \in {"arg"}
      BY <1>2, <1>3, <1>4
    <2> QED BY <1>2, <1>3, <1>4, <2>1, TogetherIn
  <1> HIDE DEF S, t, q
  <1>6. /\ u \in Seq(S) /\ ToSet(u) = ToSet(t) \cup ToSet(q)
        /\ Len(t) \in Nat /\ Len(q) \in Nat /\ Len(u) = Len(t) + Len(q)
        /\ u[1] = t[1]
    BY <1>1, <1>4, Joined
  <1>7. /\ TextsOf(t) = {a[2] : a \in {x \in ToSet(t) : x[1] = "text"}}
        /\ TextsOf(u) = {a[2] : a \in {x \in ToSet(u) : x[1] = "text"}}
    <2> HIDE DEF u
    <2> QED BY <1>1, <1>6, TextsOfIs
  <1> HIDE DEF u
  <1>8. TextsOf(u) = texts \cup {parts}
    <2> DEFINE x == <<"text", parts>>
    <2>1. x[1] = "text" /\ x[2] = parts /\ ToSet(q) = {x}
      BY <1>4
    <2> HIDE DEF x
    <2>2. {y \in ToSet(u) : y[1] = "text"} = {y \in ToSet(t) : y[1] = "text"} \cup {x}
      BY <1>6, <2>1
    <2> QED BY <1>1, <1>7, <2>1, <2>2
  <1>9. \A a \in ToSet(u) : a[1] = "model" => a[2] = model
    BY <1>1, <1>4, <1>6
  <1>10. u \in Seq(Arguments(P)) /\ Len(u) > 0 /\ u[1] = <<"flag", program>>
    BY <1>1, <1>6 DEF S
  <1>11. Fits(u, P, program, model, extra, texts \cup {parts})
    BY <1>5, <1>8, <1>9, <1>10 DEF Fits
  <1> QED BY <1>11 DEF u, t, q

\* Flags, a model or nothing at all.
LEMMA OpeningSilent ==
  ASSUME NEW P, NEW pre, NEW program, NEW model, NEW texts,
         Opening(pre, P, program, model, texts),
         NEW s \in Seq(Arguments(P)),
         \A a \in ToSet(s) : a[1] = "flag" \/ a = <<"model", model>>
  PROVE  Opening(pre \o s, P, program, model, texts)
  <1>1. TextsOf(s) = {a[2] : a \in {x \in ToSet(s) : x[1] = "text"}}
    BY TextsOfIs
  <1>2. \A a \in ToSet(s) : a[1] # "arg" /\ a[1] # "text" /\ (a[1] = "model" => a[2] = model)
    OBVIOUS
  <1>3. TextsOf(s) = {}
    BY <1>1, <1>2
  <1>4. Opening(pre \o s, P, program, model, texts \cup TextsOf(s))
    BY <1>2, OpeningMore
  <1>5. texts \cup TextsOf(s) = texts
    BY <1>3
  <1> QED BY <1>4, <1>5

LEMMA CodexModelIs ==
  ASSUME NEW P, NEW model \in Seq(Word)
  PROVE  /\ CodexModel(model) \in Seq(Arguments(P))
         /\ \A a \in ToSet(CodexModel(model)) : a[1] = "flag" \/ a = <<"model", model>>
  <1>1. CASE model = <<"default">>
    <2>1. CodexModel(model) = <<>>
      BY <1>1 DEF CodexModel
    <2>2. <<>> \in Seq(Arguments(P)) /\ ToSet(<<>>) = {<<>>[i] : i \in 1 .. 0}
      BY EmptySeq, ElementsOf
    <2> QED BY <2>1, <2>2
  <1>2. CASE model # <<"default">>
    <2> DEFINE f == Flags(<<"-m">>)
               m == Model(model)
    <2>1. CodexModel(model) = f \o m
      BY <1>2 DEF CodexModel
    <2>5. "-m" \in Word
      BY DEF Word
    <2>2. f \in Seq(Arguments(P)) /\ \A a \in ToSet(f) : a[1] = "flag"
      BY <2>5, Singleton, FlagsAre
    <2>3. m \in Seq(Arguments(P)) /\ ToSet(m) = {<<"model", model>>}
      BY ModelIs
    <2> HIDE DEF f, m
    <2>4. f \o m \in Seq(Arguments(P)) /\ ToSet(f \o m) = ToSet(f) \cup ToSet(m)
      BY <2>2, <2>3, Joined
    <2> QED BY <2>1, <2>2, <2>3, <2>4
  <1> QED BY <1>1, <1>2

LEMMA ClaudeCliModelIs ==
  ASSUME NEW model \in Seq(Word)
  PROVE  /\ ClaudeCliModel(model) \in Seq(Word)
         /\ ClaudeCliModel(model) = model \/ <<"claude">> \o ClaudeCliModel(model) = model
  <1>1. CASE Len(model) > 1 /\ model[1] = "claude"
    <2>1. ClaudeCliModel(model) = Tail(model)
      BY <1>1 DEF ClaudeCliModel
    <2>2. model # <<>>
      BY <1>1, EmptySeq
    <2>3. /\ Tail(model) \in Seq(Word) /\ Head(model) = model[1]
          /\ model = <<Head(model)>> \o Tail(model)
      BY <2>2, HeadTailProperties, ConcatSimplifications
    <2> QED BY Zenon, <1>1, <2>1, <2>3
  <1>2. CASE ~ (Len(model) > 1 /\ model[1] = "claude")
    BY <1>2 DEF ClaudeCliModel
  <1> QED BY <1>1, <1>2

\* What an agent reads, wherever its command line has it.
Spoken(texts, system, user) ==
  \/ texts = {Preamble \o system, user}
  \/ texts = {system \o user}
  \/ texts = {system, user}

Heard(texts, system) == texts = {Preamble \o system} \/ texts = {system}

\* A command line that runs an agent as it is meant to.
Runs(argv, P, backend, model, extra) ==
  /\ argv \in Seq(Arguments(P)) /\ Len(argv) > 0
  /\ argv[1] = <<"flag", Program(backend)>>
  /\ \A a \in ToSet(argv) : a[1] = "model" =>
        \/ a[2] = model
        \/ backend = "claude-cli" /\ <<"claude">> \o a[2] = model
  /\ backend # "api" => Together(argv, {"arg"}, Args(extra))

LEMMA PreambleFirst ==
  ASSUME NEW P, <<"preamble">> \in P, NEW system \in Seq(P)
  PROVE  /\ Preamble \in Seq(P) /\ ToSet(Preamble) = {<<"preamble">>}
         /\ Preamble \o system \in Seq(P)
         /\ ToSet(Preamble \o system) = {<<"preamble">>} \cup ToSet(system)
  <1>1. Preamble \in Seq(P) /\ ToSet(Preamble) = {<<"preamble">>}
    BY Singleton DEF Preamble, ToSet
  <1> QED BY <1>1, Joined

LEMMA FitsRuns ==
  ASSUME NEW argv, NEW P, NEW backend, NEW model, NEW shown, NEW extra, NEW texts,
         Fits(argv, P, Program(backend), shown, extra, texts),
         shown = model \/ (backend = "claude-cli" /\ <<"claude">> \o shown = model)
  PROVE  Runs(argv, P, backend, model, extra) /\ TextsOf(argv) = texts
  BY DEF Fits, Runs

LEMMA ClaudeIs ==
  ASSUME NEW P, <<"preamble">> \in P, NEW model \in Seq(Word), NEW system \in Seq(P),
         NEW user \in Seq(P), NEW extra \in Seq(Word)
  PROVE  /\ Runs(BuildClaude(model, system, user, extra), P, "claude-cli", model, extra)
         /\ Spoken(TextsOf(BuildClaude(model, system, user, extra)), system, user)
  <1> DEFINE m == ClaudeCliModel(model)
             f == <<"claude", "--print", "--model">>
             g == <<"--output-format", "stream-json", "--system-prompt">>
             p == Preamble \o system
  <1>1. m \in Seq(Word) /\ (m = model \/ <<"claude">> \o m = model)
    BY ClaudeCliModelIs
  <1>0. {"claude", "--print", "--model", "--output-format", "stream-json",
         "--system-prompt"} \subseteq Word
    BY DEF Word
  <1>2. f \in Seq(Word) /\ g \in Seq(Word) /\ Len(f) > 0 /\ f[1] = "claude"
    BY <1>0, Triple
  <1>3. p \in Seq(P)
    BY PreambleFirst
  <1> HIDE DEF m, f, g, p
  <1>4. Opening(Flags(f), P, "claude", m, {})
    BY <1>2, OpeningFlags
  <1>5. Opening(Flags(f) \o Model(m), P, "claude", m, {})
    BY <1>1, <1>4, OpeningWithModel
  <1>6. Opening((Flags(f) \o Model(m)) \o Flags(g), P, "claude", m, {})
    BY <1>2, <1>5, OpeningWithFlags
  <1>7. Opening(((Flags(f) \o Model(m)) \o Flags(g)) \o Text(p), P, "claude", m, {} \cup {p})
    BY <1>3, <1>6, OpeningWithText
  <1>8. Fits(((((Flags(f) \o Model(m)) \o Flags(g)) \o Text(p)) \o Args(extra)) \o Text(user),
             P, "claude", m, extra, ({} \cup {p}) \cup {user})
    BY <1>7, ArgsThenText
  <1>9. ({} \cup {p}) \cup {user} = {p, user} /\ Program("claude-cli") = "claude"
    BY DEF Program
  <1>10. BuildClaude(model, system, user, extra)
           = ((((Flags(f) \o Model(m)) \o Flags(g)) \o Text(p)) \o Args(extra)) \o Text(user)
    BY DEF BuildClaude, f, g, m, p
  <1>11. Fits(BuildClaude(model, system, user, extra), P, Program("claude-cli"), m, extra,
              {p, user})
    BY <1>8, <1>9, <1>10
  <1>20. Runs(BuildClaude(model, system, user, extra), P, "claude-cli", model, extra)
         /\ TextsOf(BuildClaude(model, system, user, extra)) = {p, user}
    BY <1>1, <1>11, FitsRuns
  <1> QED BY <1>20 DEF p, Spoken

LEMMA ClaudeInteractiveIs ==
  ASSUME NEW P, <<"preamble">> \in P, NEW model \in Seq(Word), NEW system \in Seq(P),
         NEW extra \in Seq(Word)
  PROVE  /\ Runs(BuildClaudeInteractive(model, system, extra), P, "claude-cli", model, extra)
         /\ Heard(TextsOf(BuildClaudeInteractive(model, system, extra)), system)
  <1> DEFINE m == ClaudeCliModel(model)
             f == <<"claude", "--model">>
             g == <<"--input-format", "stream-json", "--output-format", "stream-json",
                    "--system-prompt">>
             p == Preamble \o system
  <1>1. m \in Seq(Word) /\ (m = model \/ <<"claude">> \o m = model)
    BY ClaudeCliModelIs
  <1>0. {"claude", "--model", "--input-format", "stream-json", "--output-format",
         "--system-prompt"} \subseteq Word
    BY DEF Word
  <1>2. f \in Seq(Word) /\ g \in Seq(Word) /\ Len(f) > 0 /\ f[1] = "claude"
    BY <1>0, Pair, Quintuple
  <1>3. p \in Seq(P)
    BY PreambleFirst
  <1> HIDE DEF m, f, g, p
  <1>4. Opening(Flags(f), P, "claude", m, {})
    BY <1>2, OpeningFlags
  <1>5. Opening(Flags(f) \o Model(m), P, "claude", m, {})
    BY <1>1, <1>4, OpeningWithModel
  <1>6. Opening((Flags(f) \o Model(m)) \o Flags(g), P, "claude", m, {})
    BY <1>2, <1>5, OpeningWithFlags
  <1>7. Opening(((Flags(f) \o Model(m)) \o Flags(g)) \o Text(p), P, "claude", m, {} \cup {p})
    BY <1>3, <1>6, OpeningWithText
  <1>8. Fits((((Flags(f) \o Model(m)) \o Flags(g)) \o Text(p)) \o Args(extra),
             P, "claude", m, extra, {} \cup {p})
    BY <1>7, ArgsLast
  <1>9. {} \cup {p} = {p} /\ Program("claude-cli") = "claude"
    BY DEF Program
  <1>10. BuildClaudeInteractive(model, system, extra)
           = (((Flags(f) \o Model(m)) \o Flags(g)) \o Text(p)) \o Args(extra)
    BY DEF BuildClaudeInteractive, f, g, m, p
  <1>11. Fits(BuildClaudeInteractive(model, system, extra), P, Program("claude-cli"), m, extra,
              {p})
    BY <1>8, <1>9, <1>10
  <1>20. Runs(BuildClaudeInteractive(model, system, extra), P, "claude-cli", model, extra)
         /\ TextsOf(BuildClaudeInteractive(model, system, extra)) = {p}
    BY <1>1, <1>11, FitsRuns
  <1> QED BY <1>20 DEF p, Heard

LEMMA ClaudeChatIs ==
  ASSUME NEW P, <<"preamble">> \in P, NEW model \in Seq(Word), NEW system \in Seq(P),
         NEW extra \in Seq(Word)
  PROVE  /\ Runs(BuildClaudeChat(model, system, extra), P, "claude-cli", model, extra)
         /\ Heard(TextsOf(BuildClaudeChat(model, system, extra)), system)
  <1> DEFINE m == ClaudeCliModel(model)
             f == <<"claude", "--model">>
             g == <<"--append-system-prompt">>
             p == Preamble \o system
  <1>1. m \in Seq(Word) /\ (m = model \/ <<"claude">> \o m = model)
    BY ClaudeCliModelIs
  <1>0. {"claude", "--model", "--append-system-prompt"} \subseteq Word
    BY DEF Word
  <1>2. f \in Seq(Word) /\ g \in Seq(Word) /\ Len(f) > 0 /\ f[1] = "claude"
    BY <1>0, Pair, Singleton
  <1>3. p \in Seq(P)
    BY PreambleFirst
  <1> HIDE DEF m, f, g, p
  <1>4. Opening(Flags(f), P, "claude", m, {})
    BY <1>2, OpeningFlags
  <1>5. Opening(Flags(f) \o Model(m), P, "claude", m, {})
    BY <1>1, <1>4, OpeningWithModel
  <1>6. Opening((Flags(f) \o Model(m)) \o Flags(g), P, "claude", m, {})
    BY <1>2, <1>5, OpeningWithFlags
  <1>7. Opening(((Flags(f) \o Model(m)) \o Flags(g)) \o Text(p), P, "claude", m, {} \cup {p})
    BY <1>3, <1>6, OpeningWithText
  <1>8. Fits((((Flags(f) \o Model(m)) \o Flags(g)) \o Text(p)) \o Args(extra),
             P, "claude", m, extra, {} \cup {p})
    BY <1>7, ArgsLast
  <1>9. {} \cup {p} = {p} /\ Program("claude-cli") = "claude"
    BY DEF Program
  <1>10. BuildClaudeChat(model, system, extra)
           = (((Flags(f) \o Model(m)) \o Flags(g)) \o Text(p)) \o Args(extra)
    BY DEF BuildClaudeChat, f, g, m, p
  <1>11. Fits(BuildClaudeChat(model, system, extra), P, Program("claude-cli"), m, extra, {p})
    BY <1>8, <1>9, <1>10
  <1>20. Runs(BuildClaudeChat(model, system, extra), P, "claude-cli", model, extra)
         /\ TextsOf(BuildClaudeChat(model, system, extra)) = {p}
    BY <1>1, <1>11, FitsRuns
  <1> QED BY <1>20 DEF p, Heard

LEMMA CodexIs ==
  ASSUME NEW P, NEW model \in Seq(Word), NEW system \in Seq(P), NEW user \in Seq(P),
         NEW extra \in Seq(Word)
  PROVE  /\ Runs(BuildCodex(model, system, user, extra), P, "codex", model, extra)
         /\ Spoken(TextsOf(BuildCodex(model, system, user, extra)), system, user)
  <1> DEFINE f == <<"codex", "exec">>
             g == IF OverridesFullAuto(extra) THEN <<>> ELSE Flags(<<"--full-auto">>)
             p == system \o user
  <1>1. g \in Seq(Arguments(P)) /\ \A a \in ToSet(g) : a[1] = "flag"
    <2>1. <<>> \in Seq(Arguments(P)) /\ ToSet(<<>>) = {<<>>[i] : i \in 1 .. 0}
      BY EmptySeq, ElementsOf
    <2>3. "--full-auto" \in Word
      BY DEF Word
    <2>2. /\ Flags(<<"--full-auto">>) \in Seq(Arguments(P))
          /\ \A a \in ToSet(Flags(<<"--full-auto">>)) : a[1] = "flag"
      BY <2>3, Singleton, FlagsAre
    <2> QED BY <2>1, <2>2
  <1>0. {"codex", "exec"} \subseteq Word
    BY DEF Word
  <1>2. f \in Seq(Word) /\ Len(f) > 0 /\ f[1] = "codex"
    BY <1>0, Pair
  <1>3. p \in Seq(P)
    BY Joined
  <1> HIDE DEF f, g, p
  <1>4. Opening(Flags(f), P, "codex", model, {})
    BY <1>2, OpeningFlags
  <1>5. Opening(Flags(f) \o g, P, "codex", model, {})
    BY <1>1, <1>4, OpeningSilent
  <1>6. Opening((Flags(f) \o g) \o CodexModel(model), P, "codex", model, {})
    BY <1>5, CodexModelIs, OpeningSilent
  <1>7. Fits((((Flags(f) \o g) \o CodexModel(model)) \o Args(extra)) \o Text(p),
             P, "codex", model, extra, {} \cup {p})
    BY <1>3, <1>6, ArgsThenText
  <1>8. {} \cup {p} = {p} /\ Program("codex") = "codex"
    BY DEF Program
  <1>9. BuildCodex(model, system, user, extra)
           = (((Flags(f) \o g) \o CodexModel(model)) \o Args(extra)) \o Text(p)
    BY DEF BuildCodex, f, g, p
  <1>10. Fits(BuildCodex(model, system, user, extra), P, Program("codex"), model, extra, {p})
    BY <1>7, <1>8, <1>9
  <1>20. Runs(BuildCodex(model, system, user, extra), P, "codex", model, extra)
         /\ TextsOf(BuildCodex(model, system, user, extra)) = {p}
    BY <1>10, FitsRuns
  <1> QED BY <1>20 DEF p, Spoken

LEMMA CodexChatIs ==
  ASSUME NEW P, NEW model \in Seq(Word), NEW system \in Seq(P), NEW extra \in Seq(Word)
  PROVE  /\ Runs(BuildCodexChat(model, system, extra), P, "codex", model, extra)
         /\ Heard(TextsOf(BuildCodexChat(model, system, extra)), system)
  <1> DEFINE f == <<"codex">>
  <1>0. {"codex"} \subseteq Word
    BY DEF Word
  <1>2. f \in Seq(Word) /\ Len(f) > 0 /\ f[1] = "codex"
    BY <1>0, Singleton
  <1> HIDE DEF f
  <1>4. Opening(Flags(f), P, "codex", model, {})
    BY <1>2, OpeningFlags
  <1>6. Opening(Flags(f) \o CodexModel(model), P, "codex", model, {})
    BY <1>4, CodexModelIs, OpeningSilent
  <1>7. Fits(((Flags(f) \o CodexModel(model)) \o Args(extra)) \o Text(system),
             P, "codex", model, extra, {} \cup {system})
    BY <1>6, ArgsThenText
  <1>8. {} \cup {system} = {system} /\ Program("codex") = "codex"
    BY DEF Program
  <1>9. BuildCodexChat(model, system, extra)
           = ((Flags(f) \o CodexModel(model)) \o Args(extra)) \o Text(system)
    BY DEF BuildCodexChat, f
  <1>10. Fits(BuildCodexChat(model, system, extra), P, Program("codex"), model, extra, {system})
    BY <1>7, <1>8, <1>9
  <1>20. Runs(BuildCodexChat(model, system, extra), P, "codex", model, extra)
         /\ TextsOf(BuildCodexChat(model, system, extra)) = {system}
    BY <1>10, FitsRuns
  <1> QED BY <1>20 DEF Heard

LEMMA OllamaIs ==
  ASSUME NEW P, NEW model \in Seq(Word), NEW system \in Seq(P), NEW user \in Seq(P),
         NEW extra \in Seq(Word)
  PROVE  /\ Runs(BuildOllama(model, system, user, extra), P, "ollama", model, extra)
         /\ Spoken(TextsOf(BuildOllama(model, system, user, extra)), system, user)
  <1> DEFINE f == <<"ollama", "run">>
             p == system \o user
  <1>0. {"ollama", "run"} \subseteq Word
    BY DEF Word
  <1>2. f \in Seq(Word) /\ Len(f) > 0 /\ f[1] = "ollama"
    BY <1>0, Pair
  <1>3. p \in Seq(P)
    BY Joined
  <1> HIDE DEF f, p
  <1>4. Opening(Flags(f), P, "ollama", model, {})
    BY <1>2, OpeningFlags
  <1>6. Opening(Flags(f) \o Model(model), P, "ollama", model, {})
    BY <1>4, OpeningWithModel
  <1>7. Fits(((Flags(f) \o Model(model)) \o Args(extra)) \o Text(p),
             P, "ollama", model, extra, {} \cup {p})
    BY <1>3, <1>6, ArgsThenText
  <1>8. {} \cup {p} = {p} /\ Program("ollama") = "ollama"
    BY DEF Program
  <1>9. BuildOllama(model, system, user, extra)
           = ((Flags(f) \o Model(model)) \o Args(extra)) \o Text(p)
    BY DEF BuildOllama, f, p
  <1>10. Fits(BuildOllama(model, system, user, extra), P, Program("ollama"), model, extra, {p})
    BY <1>7, <1>8, <1>9
  <1>20. Runs(BuildOllama(model, system, user, extra), P, "ollama", model, extra)
         /\ TextsOf(BuildOllama(model, system, user, extra)) = {p}
    BY <1>10, FitsRuns
  <1> QED BY <1>20 DEF p, Spoken

LEMMA OllamaChatIs ==
  ASSUME NEW P, NEW model \in Seq(Word), NEW system \in Seq(P), NEW extra \in Seq(Word)
  PROVE  /\ Runs(BuildOllamaChat(model, system, extra), P, "ollama", model, extra)
         /\ Heard(TextsOf(BuildOllamaChat(model, system, extra)), system)
  <1> DEFINE f == <<"ollama", "run">>
             g == <<"--system">>
  <1>0. {"ollama", "run", "--system"} \subseteq Word
    BY DEF Word
  <1>2. f \in Seq(Word) /\ Len(f) > 0 /\ f[1] = "ollama" /\ g \in Seq(Word)
    BY <1>0, Pair, Singleton
  <1> HIDE DEF f, g
  <1>4. Opening(Flags(f), P, "ollama", model, {})
    BY <1>2, OpeningFlags
  <1>5. Opening(Flags(f) \o Model(model), P, "ollama", model, {})
    BY <1>4, OpeningWithModel
  <1>6. Opening((Flags(f) \o Model(model)) \o Flags(g), P, "ollama", model, {})
    BY <1>2, <1>5, OpeningWithFlags
  <1>7. Opening(((Flags(f) \o Model(model)) \o Flags(g)) \o Text(system), P, "ollama", model,
                {} \cup {system})
    BY <1>6, OpeningWithText
  <1>8. Fits((((Flags(f) \o Model(model)) \o Flags(g)) \o Text(system)) \o Args(extra),
             P, "ollama", model, extra, {} \cup {system})
    BY <1>7, ArgsLast
  <1>9. {} \cup {system} = {system} /\ Program("ollama") = "ollama"
    BY DEF Program
  <1>10. BuildOllamaChat(model, system, extra)
           = (((Flags(f) \o Model(model)) \o Flags(g)) \o Text(system)) \o Args(extra)
    BY DEF BuildOllamaChat, f, g
  <1>11. Fits(BuildOllamaChat(model, system, extra), P, Program("ollama"), model, extra,
              {system})
    BY <1>8, <1>9, <1>10
  <1>20. Runs(BuildOllamaChat(model, system, extra), P, "ollama", model, extra)
         /\ TextsOf(BuildOllamaChat(model, system, extra)) = {system}
    BY <1>11, FitsRuns
  <1> QED BY <1>20 DEF Heard

LEMMA RequestIs ==
  ASSUME NEW P, NEW model \in Seq(Word), NEW system \in Seq(P), NEW user \in Seq(P), NEW extra
  PROVE  /\ Runs(ApiRequest(model, system, user), P, "api", model, extra)
         /\ Spoken(TextsOf(ApiRequest(model, system, user)), system, user)
  <1> DEFINE f == <<"POST">>
             r == ((Flags(f) \o Model(model)) \o Text(system)) \o Text(user)
  <1>0. {"POST"} \subseteq Word
    BY DEF Word
  <1>2. f \in Seq(Word) /\ Len(f) > 0 /\ f[1] = "POST"
    BY <1>0, Singleton
  <1> HIDE DEF f
  <1>4. Opening(Flags(f), P, "POST", model, {})
    BY <1>2, OpeningFlags
  <1>5. Opening(Flags(f) \o Model(model), P, "POST", model, {})
    BY <1>4, OpeningWithModel
  <1>6. Opening((Flags(f) \o Model(model)) \o Text(system), P, "POST", model, {} \cup {system})
    BY <1>5, OpeningWithText
  <1>7. Opening(r, P, "POST", model, ({} \cup {system}) \cup {user})
    BY <1>6, OpeningWithText
  <1>8. ({} \cup {system}) \cup {user} = {system, user} /\ Program("api") = "POST"
    BY DEF Program
  <1>9. ApiRequest(model, system, user) = r
    BY DEF ApiRequest, f
  <1> HIDE DEF r
  <1> QED BY <1>7, <1>8, <1>9 DEF Opening, Runs, Spoken

LEMMA BuildCommandIs ==
  ASSUME NEW P, <<"preamble">> \in P, NEW backend \in Backends, NEW model \in Seq(Word),
         NEW system \in Seq(P), NEW user \in Seq(P), NEW extra \in Seq(Word)
  PROVE  /\ Runs(BuildCommand(backend, model, system, user, extra), P, backend, model, extra)
         /\ Spoken(TextsOf(BuildCommand(backend, model, system, user, extra)), system, user)
  <1> DEFINE c == BuildCommand(backend, model, system, user, extra)
  <1>1. CASE backend = "claude-cli"
    <2> DEFINE d == BuildClaude(model, system, user, extra)
    <2>1. c = d
      BY <1>1 DEF BuildCommand
    <2>2. Runs(d, P, "claude-cli", model, extra) /\ Spoken(TextsOf(d), system, user)
      BY ClaudeIs
    <2> HIDE DEF d
    <2> QED BY <1>1, <2>1, <2>2
  <1>2. CASE backend = "codex"
    <2> DEFINE d == BuildCodex(model, system, user, extra)
    <2>1. c = d
      BY <1>2 DEF BuildCommand
    <2>2. Runs(d, P, "codex", model, extra) /\ Spoken(TextsOf(d), system, user)
      BY CodexIs
    <2> HIDE DEF d
    <2> QED BY <1>2, <2>1, <2>2
  <1>3. CASE backend = "ollama"
    <2> DEFINE d == BuildOllama(model, system, user, extra)
    <2>1. c = d
      BY <1>3 DEF BuildCommand
    <2>2. Runs(d, P, "ollama", model, extra) /\ Spoken(TextsOf(d), system, user)
      BY OllamaIs
    <2> HIDE DEF d
    <2> QED BY <1>3, <2>1, <2>2
  <1>4. CASE backend = "api"
    <2> DEFINE d == ApiRequest(model, system, user)
    <2>1. c = d
      BY <1>4 DEF BuildCommand
    <2>2. Runs(d, P, "api", model, extra) /\ Spoken(TextsOf(d), system, user)
      BY RequestIs
    <2> HIDE DEF d
    <2> QED BY <1>4, <2>1, <2>2
  <1> QED BY <1>1, <1>2, <1>3, <1>4 DEF Backends

LEMMA BuildChatIs ==
  ASSUME NEW P, <<"preamble">> \in P, NEW backend \in Backends, backend # "api",
         NEW model \in Seq(Word), NEW system \in Seq(P), NEW extra \in Seq(Word)
  PROVE  /\ Runs(BuildChat(backend, model, system, extra), P, backend, model, extra)
         /\ Heard(TextsOf(BuildChat(backend, model, system, extra)), system)
  <1> DEFINE c == BuildChat(backend, model, system, extra)
  <1>1. CASE backend = "claude-cli"
    <2> DEFINE d == BuildClaudeChat(model, system, extra)
    <2>1. c = d
      BY <1>1 DEF BuildChat
    <2>2. Runs(d, P, "claude-cli", model, extra) /\ Heard(TextsOf(d), system)
      BY ClaudeChatIs
    <2> HIDE DEF d
    <2> QED BY <1>1, <2>1, <2>2
  <1>2. CASE backend = "codex"
    <2> DEFINE d == BuildCodexChat(model, system, extra)
    <2>1. c = d
      BY <1>2 DEF BuildChat
    <2>2. Runs(d, P, "codex", model, extra) /\ Heard(TextsOf(d), system)
      BY CodexChatIs
    <2> HIDE DEF d
    <2> QED BY <1>2, <2>1, <2>2
  <1>3. CASE backend = "ollama"
    <2> DEFINE d == BuildOllamaChat(model, system, extra)
    <2>1. c = d
      BY <1>3 DEF BuildChat
    <2>2. Runs(d, P, "ollama", model, extra) /\ Heard(TextsOf(d), system)
      BY OllamaChatIs
    <2> HIDE DEF d
    <2> QED BY <1>3, <2>1, <2>2
  <1> QED BY <1>1, <1>2, <1>3 DEF Backends

---------------------------------------------------------------------------
(* Placeholders: what is left in a text, and what a value brought in.       *)

Tokens == {"lit", "var", "role", "arg"} \X STRING

LEMMA TextIs ==
  ASSUME NEW text \in Texts
  PROVE  /\ text \in Seq(Tokens) /\ Len(text) \in Nat /\ DOMAIN text = 1 .. Len(text)
         /\ \A i \in 1 .. Len(text) : text[i] \in Tokens
  BY LenProperties DEF Texts, Tokens

LEMMA NamesIs ==
  ASSUME NEW text \in Texts, NEW kind, NEW x
  PROVE  x \in Names(kind, text) <=> \E t \in ToSet(text) : t[1] = kind /\ t[2] = x
  <1>1. ToSet(text) = {text[i] : i \in 1 .. Len(text)}
    BY TextIs, ElementsOf
  <1>2. DOMAIN text = 1 .. Len(text)
    BY TextIs
  <1> QED BY <1>1, <1>2 DEF Names

(* Every token comes from the text, or from the value of one that does.     *)
LEMMA ExpandIs ==
  ASSUME NEW text \in Texts, NEW kind, NEW values,
         \A x \in Names(kind, text) : values[x] \in Texts
  PROVE  /\ Expand(kind, text, values) \in Texts
         /\ \A t \in ToSet(Expand(kind, text, values)) :
               \/ t \in ToSet(text) /\ t[1] # kind
               \/ \E x \in Names(kind, text) : t \in ToSet(values[x])
  <1> DEFINE n == Len(text)
             ss == [i \in DOMAIN text |-> IF text[i][1] = kind THEN values[text[i][2]]
                                          ELSE <<text[i]>>]
  <1>1. /\ n \in Nat /\ DOMAIN text = 1 .. n /\ ToSet(text) = {text[i] : i \in 1 .. n}
        /\ \A i \in 1 .. n : text[i] \in Tokens
    BY TextIs, ElementsOf
  <1>2. \A i \in 1 .. n : text[i][1] = kind => text[i][2] \in Names(kind, text)
    BY <1>1 DEF Names
  <1>3. \A i \in 1 .. n : ss[i] = IF text[i][1] = kind THEN values[text[i][2]] ELSE <<text[i]>>
    BY <1>1
  <1>4. ss = [i \in 1 .. n |-> ss[i]]
    BY <1>1
  <1> HIDE DEF ss, n
  <1>5. ASSUME NEW i \in 1 .. n
        PROVE  /\ ss[i] \in Seq(Tokens)
               /\ \A t \in ToSet(ss[i]) :
                     \/ t \in ToSet(text) /\ t[1] # kind
                     \/ \E x \in Names(kind, text) : t \in ToSet(values[x])
    <2>1. CASE text[i][1] = kind
      BY <1>2, <1>3, <2>1, TextIs
    <2>2. CASE text[i][1] # kind
      <3>1. ss[i] = <<text[i]>> /\ <<text[i]>> \in Seq(Tokens)
        BY <1>1, <1>3, <2>2, Singleton
      <3>2. ToSet(<<text[i]>>) = {text[i]}
        BY DEF ToSet
      <3> QED BY <1>1, <2>2, <3>1, <3>2
    <2> QED BY <2>1, <2>2
  <1>6. /\ FlattenSeq(ss) \in Seq(Tokens)
        /\ \A t : t \in ToSet(FlattenSeq(ss)) <=> \E k \in 1 .. n : t \in ToSet(ss[k])
    BY <1>1, <1>4, <1>5, FlatElements
  <1>7. Expand(kind, text, values) = FlattenSeq(ss)
    BY DEF Expand, ss
  <1> QED BY <1>5, <1>6, <1>7 DEF Texts, Tokens

LEMMA SubstituteVarsClean ==
  ASSUME NEW text \in Texts, NEW vars, NEW B, SubstituteVars(text, vars).ok,
         \A v \in DOMAIN vars : vars[v] \in Texts /\ Names("var", vars[v]) \subseteq B
  PROVE  /\ SubstituteVars(text, vars).val \in Texts
         /\ Names("var", SubstituteVars(text, vars).val) \subseteq B
  <1> DEFINE e == Expand("var", text, vars)
  <1>1. Names("var", text) \subseteq DOMAIN vars /\ SubstituteVars(text, vars).val = e
    BY DEF SubstituteVars
  <1>2. /\ e \in Texts
        /\ \A t \in ToSet(e) : \/ t \in ToSet(text) /\ t[1] # "var"
                               \/ \E x \in Names("var", text) : t \in ToSet(vars[x])
    BY <1>1, ExpandIs
  <1> HIDE DEF e
  <1>3. ASSUME NEW x \in Names("var", e) PROVE x \in B
    <2>1. PICK t \in ToSet(e) : t[1] = "var" /\ t[2] = x
      BY <1>2, NamesIs
    <2>2. PICK y \in Names("var", text) : t \in ToSet(vars[y])
      BY <1>2, <2>1
    <2>3. y \in DOMAIN vars /\ vars[y] \in Texts
      BY <1>1, <2>2
    <2>4. x \in Names("var", vars[y])
      BY <2>1, <2>2, <2>3, NamesIs
    <2> QED BY <2>3, <2>4
  <1> QED BY <1>1, <1>2, <1>3

LEMMA SubstituteRolesClean ==
  ASSUME NEW text \in Texts, NEW roles, NEW B, SubstituteRoles(text, roles).ok,
         \A r \in DOMAIN roles : roles[r] \in STRING, Names("var", text) \subseteq B
  PROVE  /\ SubstituteRoles(text, roles).val \in Texts
         /\ Names("var", SubstituteRoles(text, roles).val) \subseteq B
         /\ Names("role", SubstituteRoles(text, roles).val) = {}
  <1> DEFINE values == [r \in DOMAIN roles |-> <<<<"lit", roles[r]>>>>]
             e == Expand("role", text, values)
  <1>1. Names("role", text) \subseteq DOMAIN roles /\ SubstituteRoles(text, roles).val = e
    BY DEF SubstituteRoles
  <1>2. ASSUME NEW r \in DOMAIN roles
        PROVE  values[r] \in Texts /\ ToSet(values[r]) = {<<"lit", roles[r]>>}
    <2>1. <<"lit", roles[r]>> \in Tokens
      BY DEF Tokens
    <2>2. values[r] \in Seq(Tokens)
      BY <2>1, Singleton
    <2> QED BY <2>2 DEF Texts, Tokens, ToSet
  <1> HIDE DEF values
  <1>3. /\ e \in Texts
        /\ \A t \in ToSet(e) : \/ t \in ToSet(text) /\ t[1] # "role"
                               \/ \E x \in Names("role", text) : t \in ToSet(values[x])
    BY <1>1, <1>2, ExpandIs
  <1> HIDE DEF e
  <1>4. ASSUME NEW t \in ToSet(e) PROVE t[1] # "role" /\ (t[1] = "var" => t[2] \in B)
    <2>1. CASE t \in ToSet(text) /\ t[1] # "role"
      BY <2>1, NamesIs
    <2>2. CASE \E x \in Names("role", text) : t \in ToSet(values[x])
      <3>1. PICK x \in DOMAIN roles : t = <<"lit", roles[x]>>
        BY <1>1, <1>2, <2>2
      <3> QED BY <3>1
    <2> QED BY <1>3, <2>1, <2>2
  <1> QED BY <1>1, <1>3, <1>4, NamesIs

(* The passes over the placeholders of a text, one by one. *)
Passes(f, text, vars, n) ==
  f = [k \in 0 .. n |->
          IF k = 0 THEN text
          ELSE IF text[k][1] = "arg" THEN Replace(f[k - 1], text[k], vars[text[k][2]])
          ELSE f[k - 1]]

LEMMA PassesExist ==
  ASSUME NEW text, NEW vars, NEW n \in Nat
  PROVE  \E f : Passes(f, text, vars, n)
  <1> DEFINE Pass(x, k) == IF text[k][1] = "arg" THEN Replace(x, text[k], vars[text[k][2]])
                           ELSE x
             T == {k \in Nat : ~ \E f : Passes(f, text, vars, k)}
  <1>0. \A f, k : Passes(f, text, vars, k) <=>
            f = [i \in 0 .. k |-> IF i = 0 THEN text ELSE Pass(f[i - 1], i)]
    BY DEF Passes
  <1> HIDE DEF Pass
  <1> SUFFICES ASSUME T # {} PROVE FALSE
    OBVIOUS
  <1>1. PICK k \in T : \A m \in T : k <= m
    <2>1. T \subseteq Nat
      OBVIOUS
    <2> HIDE DEF T
    <2> QED BY <2>1, Least
  <1>2. k \in Nat /\ ~ \E f : Passes(f, text, vars, k)
    BY <1>1
  <1>3. CASE k = 0
    <2> DEFINE f == [i \in 0 .. 0 |-> text]
    <2>1. f = [i \in 0 .. 0 |-> IF i = 0 THEN text ELSE Pass(f[i - 1], i)]
      OBVIOUS
    <2>2. Passes(f, text, vars, 0)
      BY <1>0, <2>1
    <2> QED BY <1>2, <1>3, <2>2
  <1>4. CASE k # 0
    <2>1. k - 1 \in Nat /\ k - 1 \notin T
      BY <1>1, <1>2, <1>4
    <2>2. PICK g : Passes(g, text, vars, k - 1)
      BY <2>1
    <2>0. g = [i \in 0 .. k - 1 |-> IF i = 0 THEN text ELSE Pass(g[i - 1], i)]
      BY <1>0, <2>2
    <2> DEFINE f == [i \in 0 .. k |-> IF i = 0 THEN text ELSE Pass(g[i - 1], i)]
    <2>3. ASSUME NEW i \in 0 .. k, i # 0 PROVE f[i - 1] = g[i - 1]
      <3>1. i - 1 \in 0 .. k /\ i - 1 \in 0 .. k - 1
        BY <1>2, <2>3
      <3>2. f[i - 1] = IF i - 1 = 0 THEN text ELSE Pass(g[i - 1 - 1], i - 1)
        BY <3>1
      <3>3. g[i - 1] = IF i - 1 = 0 THEN text ELSE Pass(g[i - 1 - 1], i - 1)
        BY <2>0, <3>1
      <3> QED BY <3>2, <3>3
    <2>4. f = [i \in 0 .. k |-> IF i = 0 THEN text ELSE Pass(f[i - 1], i)]
      BY <2>3
    <2> HIDE DEF f
    <2>5. Passes(f, text, vars, k)
      BY <1>0, <2>4
    <2> QED BY <1>2, <2>5
  <1> QED BY <1>3, <1>4

LEMMA ReplaceIs ==
  ASSUME NEW text \in Texts, NEW token, NEW value \in Texts
  PROVE  /\ Replace(text, token, value) \in Texts
         /\ \A t \in ToSet(Replace(text, token, value)) : t \in ToSet(text) \/ t \in ToSet(value)
  <1> DEFINE n == Len(text)
             ss == [i \in DOMAIN text |-> IF text[i] = token THEN value ELSE <<text[i]>>]
  <1>1. /\ n \in Nat /\ DOMAIN text = 1 .. n /\ ToSet(text) = {text[i] : i \in 1 .. n}
        /\ \A i \in 1 .. n : text[i] \in Tokens
    BY TextIs, ElementsOf
  <1>2. \A i \in 1 .. n : ss[i] = IF text[i] = token THEN value ELSE <<text[i]>>
    BY <1>1
  <1>3. ss = [i \in 1 .. n |-> ss[i]]
    BY <1>1
  <1> HIDE DEF ss, n
  <1>4. ASSUME NEW i \in 1 .. n
        PROVE  /\ ss[i] \in Seq(Tokens)
               /\ \A t \in ToSet(ss[i]) : t \in ToSet(text) \/ t \in ToSet(value)
    <2>1. CASE text[i] = token
      BY <1>2, <2>1, TextIs
    <2>2. CASE text[i] # token
      <3>1. ss[i] = <<text[i]>> /\ <<text[i]>> \in Seq(Tokens)
        BY <1>1, <1>2, <2>2, Singleton
      <3>2. ToSet(<<text[i]>>) = {text[i]}
        BY DEF ToSet
      <3> QED BY <1>1, <3>1, <3>2
    <2> QED BY <2>1, <2>2
  <1>5. /\ FlattenSeq(ss) \in Seq(Tokens)
        /\ \A t : t \in ToSet(FlattenSeq(ss)) <=> \E k \in 1 .. n : t \in ToSet(ss[k])
    BY <1>1, <1>3, <1>4, FlatElements
  <1>6. Replace(text, token, value) = FlattenSeq(ss)
    BY DEF Replace, ss
  <1> QED BY <1>4, <1>5, <1>6 DEF Texts, Tokens

LEMMA SubstitutePlaceholdersIs ==
  ASSUME NEW text \in Texts, NEW vars, SubstitutePlaceholders(text, vars).ok,
         \A v \in DOMAIN vars : vars[v] \in Texts
  PROVE  /\ SubstitutePlaceholders(text, vars).val \in Texts
         /\ \A t \in ToSet(SubstitutePlaceholders(text, vars).val) :
               t \in ToSet(text) \/ \E v \in DOMAIN vars : t \in ToSet(vars[v])
  <1> DEFINE n == Len(text)
             g == CHOOSE g : Passes(g, text, vars, n)
             Fine(x) == /\ x \in Texts
                        /\ \A t \in ToSet(x) : \/ t \in ToSet(text)
                                               \/ \E v \in DOMAIN vars : t \in ToSet(vars[v])
             T == {k \in 0 .. n : ~ Fine(g[k])}
  <1>1. n \in Nat /\ DOMAIN text = 1 .. n
    BY TextIs
  <1>2. /\ Names("arg", text) \subseteq DOMAIN vars
        /\ SubstitutePlaceholders(text, vars).val = g[n]
    <2> DEFINE f == CHOOSE f : f = [k \in 0 .. Len(text) |->
                       IF k = 0 THEN text
                       ELSE IF text[k][1] = "arg"
                       THEN Replace(f[k - 1], text[k], vars[text[k][2]]) ELSE f[k - 1]]
    <2>1. /\ Names("arg", text) \subseteq DOMAIN vars
          /\ SubstitutePlaceholders(text, vars).val = f[Len(text)]
      BY DEF SubstitutePlaceholders
    <2>2. f = g
      BY Zenon DEF Passes
    <2> QED BY <2>1, <2>2
  <1>3. Passes(g, text, vars, n)
    <2>1. \E f : Passes(f, text, vars, n)
      BY <1>1, PassesExist
    <2> QED BY <2>1
  <1> HIDE DEF g, n
  <1>4. \A k \in 0 .. n : g[k] = IF k = 0 THEN text
                                 ELSE IF text[k][1] = "arg"
                                 THEN Replace(g[k - 1], text[k], vars[text[k][2]]) ELSE g[k - 1]
    BY <1>3 DEF Passes
  <1>5. ASSUME T # {} PROVE FALSE
    <2>1. PICK k \in T : \A m \in T : k <= m
      <3>1. T \subseteq Nat
        BY <1>1
      <3> HIDE DEF T
      <3> QED BY <1>5, <3>1, Least
    <2>2. k \in 0 .. n /\ ~ Fine(g[k]) /\ \A m \in 0 .. n : m < k => Fine(g[m])
      <3> HIDE DEF Fine
      <3> QED BY <1>1, <2>1
    <2>3. CASE k = 0
      BY <1>4, <2>2, <2>3
    <2>4. CASE k # 0
      <3>1. k \in 1 .. n /\ k - 1 \in 0 .. n /\ k - 1 < k
        BY <1>1, <2>2, <2>4
      <3>2. Fine(g[k - 1])
        <4> HIDE DEF Fine
        <4> QED BY <2>2, <3>1
      <3>3. CASE text[k][1] = "arg"
        <4> DEFINE x == g[k - 1]
                   v == text[k][2]
                   y == Replace(x, text[k], vars[v])
        <4>1. v \in DOMAIN vars /\ vars[v] \in Texts
          BY <1>1, <1>2, <3>1, <3>3 DEF Names
        <4>2. x \in Texts
          BY <3>2
        <4>3. y \in Texts /\ \A t \in ToSet(y) : t \in ToSet(x) \/ t \in ToSet(vars[v])
          BY <4>1, <4>2, ReplaceIs
        <4>4. g[k] = y
          BY <1>4, <2>4, <3>1, <3>3
        <4> HIDE DEF y, v
        <4> QED BY <2>2, <3>2, <4>1, <4>3, <4>4
      <3>4. CASE text[k][1] # "arg"
        <4>1. g[k] = g[k - 1]
          BY <1>4, <2>4, <3>1, <3>4
        <4> HIDE DEF Fine
        <4> QED BY <2>2, <3>2, <4>1
      <3> QED BY <3>3, <3>4
    <2> QED BY <2>3, <2>4
  <1>6. Fine(g[n])
    <2>1. n \in 0 .. n
      BY <1>1
    <2> HIDE DEF Fine
    <2> QED BY <1>5, <2>1
  <1> QED BY <1>2, <1>6

\* The values of a table are texts that bring in no name of a kind but B's.
Brings(values, kind, B) ==
  \A v \in DOMAIN values : values[v] \in Texts /\ Names(kind, values[v]) \subseteq B

LEMMA ArgumentsClean ==
  ASSUME NEW text \in Texts, NEW vars, SubstitutePlaceholders(text, vars).ok,
         NEW kind, NEW B, Names(kind, text) \subseteq B, Brings(vars, kind, B)
  PROVE  /\ SubstitutePlaceholders(text, vars).val \in Texts
         /\ Names(kind, SubstitutePlaceholders(text, vars).val) \subseteq B
  <1> DEFINE e == SubstitutePlaceholders(text, vars).val
  <1>1. \A v \in DOMAIN vars : vars[v] \in Texts /\ Names(kind, vars[v]) \subseteq B
    BY DEF Brings
  <1>2. /\ e \in Texts
        /\ \A t \in ToSet(e) : t \in ToSet(text) \/ \E v \in DOMAIN vars : t \in ToSet(vars[v])
    BY <1>1, SubstitutePlaceholdersIs
  <1> HIDE DEF e
  <1>3. ASSUME NEW x \in Names(kind, e) PROVE x \in B
    <2>1. PICK t \in ToSet(e) : t[1] = kind /\ t[2] = x
      BY <1>2, NamesIs
    <2>2. CASE t \in ToSet(text)
      <3>1. x \in Names(kind, text)
        BY <2>1, <2>2, NamesIs
      <3> QED BY <3>1
    <2>3. CASE \E v \in DOMAIN vars : t \in ToSet(vars[v])
      <3>1. PICK v \in DOMAIN vars : t \in ToSet(vars[v])
        BY <2>3
      <3>2. x \in Names(kind, vars[v])
        BY <1>1, <2>1, <3>1, NamesIs
      <3> QED BY <1>1, <3>1, <3>2
    <2> QED BY <1>2, <2>1, <2>2, <2>3
  <1> QED BY <1>2, <1>3 DEF e

\* What the loaders leave of the placeholders of a flow's own texts.
LEMMA FillClean ==
  ASSUME NEW text \in Texts, NEW vars, NEW roles, NEW B, Fill(text, vars, roles).ok,
         Brings(vars, "var", B), \A r \in DOMAIN roles : roles[r] \in STRING
  PROVE  /\ Fill(text, vars, roles).val \in Texts
         /\ Names("var", Fill(text, vars, roles).val) \subseteq B
         /\ Names("role", Fill(text, vars, roles).val) = {}
  <1> DEFINE v == SubstituteVars(text, vars)
  <1>1. /\ v.ok /\ SubstituteRoles(v.val, roles).ok
        /\ Fill(text, vars, roles) = SubstituteRoles(v.val, roles)
    BY DEF Fill
  <1>2. \A x \in DOMAIN vars : vars[x] \in Texts /\ Names("var", vars[x]) \subseteq B
    BY DEF Brings
  <1>3. v.val \in Texts /\ Names("var", v.val) \subseteq B
    BY <1>1, <1>2, SubstituteVarsClean
  <1> HIDE DEF v
  <1> QED BY <1>1, <1>3, SubstituteRolesClean

LEMMA FillCommandClean ==
  ASSUME NEW text \in Texts, NEW vars, NEW roles, NEW B, FillCommand(text, vars, roles).ok,
         Brings(vars, "var", B), \A r \in DOMAIN roles : roles[r] \in STRING
  PROVE  /\ FillCommand(text, vars, roles).val \in Texts
         /\ Names("var", FillCommand(text, vars, roles).val) \subseteq B
         /\ Names("role", FillCommand(text, vars, roles).val) = {}
  <1> DEFINE v == SubstituteVars(text, vars)
             p == SubstitutePlaceholders(v.val, vars)
  <1>1. /\ v.ok /\ p.ok /\ SubstituteRoles(p.val, roles).ok
        /\ FillCommand(text, vars, roles) = SubstituteRoles(p.val, roles)
    BY DEF FillCommand
  <1>2. \A x \in DOMAIN vars : vars[x] \in Texts /\ Names("var", vars[x]) \subseteq B
    BY DEF Brings
  <1>3. v.val \in Texts /\ Names("var", v.val) \subseteq B
    BY <1>1, <1>2, SubstituteVarsClean
  <1> HIDE DEF v
  <1>4. p.val \in Texts /\ Names("var", p.val) \subseteq B
    BY <1>1, <1>3, ArgumentsClean
  <1> HIDE DEF p
  <1> QED BY <1>1, <1>4, SubstituteRolesClean

\* The task names no variable and no role that no value brought in.
LEMMA ResolveTaskClean ==
  ASSUME NEW flag \in Texts, NEW prompt \in Texts, NEW args, NEW vars, NEW roles,
         NEW B, NEW R, ResolveTask(flag, prompt, args, vars, roles).ok,
         Brings(vars, "var", B), \A r \in DOMAIN roles : roles[r] \in STRING,
         Names("var", prompt) \subseteq B, Names("role", prompt) = {},
         Brings(args, "var", B), Brings(args, "role", R)
  PROVE  /\ ResolveTask(flag, prompt, args, vars, roles).val \in Texts
         /\ Names("var", ResolveTask(flag, prompt, args, vars, roles).val) \subseteq B
         /\ Names("role", ResolveTask(flag, prompt, args, vars, roles).val) \subseteq R
  <1>1. CASE flag # <<>>
    <2>1. ResolveTask(flag, prompt, args, vars, roles) = Fill(flag, vars, roles)
      BY <1>1 DEF ResolveTask
    <2> QED BY <2>1, FillClean
  <1>2. CASE flag = <<>> /\ prompt # <<>>
    <2>1. ResolveTask(flag, prompt, args, vars, roles) = SubstitutePlaceholders(prompt, args)
      BY <1>2 DEF ResolveTask
    <2>2. Names("role", prompt) \subseteq R
      OBVIOUS
    <2> QED BY <2>1, <2>2, ArgumentsClean
  <1>3. CASE flag = <<>> /\ prompt = <<>>
    BY <1>3 DEF ResolveTask
  <1> QED BY <1>1, <1>2, <1>3

---------------------------------------------------------------------------
(* Configurations, and the first of several layers.                         *)

LEMMA Widen ==
  ASSUME NEW S, NEW T, S \subseteq T, NEW s \in Seq(S)
  PROVE  s \in Seq(T)
  OBVIOUS

LEMMA FirstOfIs ==
  ASSUME NEW layers, NEW n \in Nat, DOMAIN layers = 1 .. n, NEW unset
  PROVE  /\ (\A i \in 1 .. n : layers[i] = unset) => FirstOf(layers, unset) = unset
         /\ \A i \in 1 .. n : layers[i] # unset /\ (\A j \in 1 .. i - 1 : layers[j] = unset)
               => FirstOf(layers, unset) = layers[i]
  <1> DEFINE given == {i \in DOMAIN layers : layers[i] # unset}
  <1>1. ASSUME \A i \in 1 .. n : layers[i] = unset
        PROVE  FirstOf(layers, unset) = unset
    <2>1. given = {}
      BY <1>1
    <2> QED BY <2>1 DEF FirstOf
  <1>2. ASSUME NEW i \in 1 .. n, layers[i] # unset, \A j \in 1 .. i - 1 : layers[j] = unset
        PROVE  FirstOf(layers, unset) = layers[i]
    <2>1. i \in given /\ given \subseteq Nat
      BY <1>2
    <2>2. FirstOf(layers, unset) = layers[Min(given)]
      BY <2>1 DEF FirstOf
    <2>3. given # {}
      BY <2>1
    <2>0. \A j \in given : j \in 1 .. n /\ layers[j] # unset
      OBVIOUS
    <2> HIDE DEF given
    <2>4. Min(given) \in given /\ \A m \in given : Min(given) <= m
      BY <2>1, <2>3, MinIs
    <2>5. Min(given) <= i /\ Min(given) \in 1 .. n /\ layers[Min(given)] # unset
      BY <2>0, <2>1, <2>4
    <2>6. Min(given) = i
      BY <1>2, <2>5
    <2> QED BY <2>2, <2>6
  <1> QED BY <1>1, <1>2

IsOverlay(o) ==
  /\ DOMAIN o = {"model", "backend", "extra", "rules"}
  /\ o.model \in Seq(Word) /\ o.backend \in Backends \cup {None} /\ o.rules \in Seq(Word)
  /\ \A b \in DOMAIN o.extra : o.extra[b] \in Seq(Word)

IsRole(r) ==
  /\ DOMAIN r = {"agent", "model", "backend", "overlay"}
  /\ r.agent \in STRING \ {None}
  /\ r.model \in Seq(Word) /\ r.backend \in Policies \cup {None}
  /\ IsOverlay(r.overlay)

IsSeeds(seeds) ==
  /\ Len(seeds) \in Nat /\ DOMAIN seeds = 1 .. Len(seeds)
  /\ \A i \in DOMAIN seeds : /\ seeds[i].kind \in {"local", "remote"}
                             /\ seeds[i].path \in Word \ {None}

\* A configuration that was accepted.
IsConfig(c) ==
  /\ IsSeeds(c.seeds)
  /\ \A r \in DOMAIN c.roles : IsRole(c.roles[r])
  /\ \A v \in DOMAIN c.vars : c.vars[v] \in Texts
  /\ c.there => \A t \in DOMAIN c.tiers : c.tiers[t] \in Seq(Word) /\ c.tiers[t] # <<>>

LEMMA RoleIs ==
  ASSUME NEW name, NEW raw, IsRawRole(raw), ResolveRole(name, raw).ok
  PROVE  IsRole(ResolveRole(name, raw).val)
  <1> DEFINE o == ResolveOverlay(raw.overlay)
             r == [raw EXCEPT !.overlay = o.val]
  <1>1. o.ok /\ ResolveRole(name, raw).val = r
    BY Zenon DEF ResolveRole, Ok, Err
  <1>2. /\ DOMAIN raw = {"agent", "model", "backend", "overlay"}
        /\ raw.agent \in STRING \ {None} /\ raw.backend \in Policies \cup {None}
        /\ raw.model \in Seq(Word)
    BY Widen DEF IsRawRole, Word
  <1>3. /\ DOMAIN raw.overlay = {"model", "backend", "extra", "rules"}
        /\ raw.overlay.model \in Seq(Word) /\ raw.overlay.rules \in Seq(Word)
        /\ \A b \in DOMAIN raw.overlay.extra : raw.overlay.extra[b] \in Seq(Word)
    <2>1. STRING \subseteq Word
      BY DEF Word
    <2>2. /\ DOMAIN raw.overlay = {"model", "backend", "extra", "rules"}
          /\ raw.overlay.model \in Seq(STRING) /\ raw.overlay.rules \in Seq(STRING)
          /\ \A b \in DOMAIN raw.overlay.extra : raw.overlay.extra[b] \in Seq(STRING)
      BY DEF IsRawRole, IsExtra
    <2>3. \A s \in Seq(STRING) : s \in Seq(Word)
      BY <2>1, Widen
    <2> QED BY <2>2, <2>3
  <1>4. /\ raw.overlay.backend \in Backends \cup {None, "cli"}
        /\ o.val = [raw.overlay EXCEPT !.backend = IF @ = "cli" THEN "claude-cli" ELSE @]
    BY Zenon, <1>1 DEF ResolveOverlay, Ok, Err
  <1>5. /\ DOMAIN o.val = {"model", "backend", "extra", "rules"}
        /\ o.val.model = raw.overlay.model /\ o.val.rules = raw.overlay.rules
        /\ o.val.extra = raw.overlay.extra /\ o.val.backend \in Backends \cup {None}
    <2> HIDE DEF o
    <2> QED BY <1>3, <1>4 DEF Backends
  <1>6. /\ DOMAIN r = {"agent", "model", "backend", "overlay"}
        /\ r.agent = raw.agent /\ r.model = raw.model /\ r.backend = raw.backend
        /\ r.overlay = o.val
    <2> HIDE DEF o
    <2> QED BY <1>2
  <1> HIDE DEF o, r
  <1> QED BY <1>1, <1>2, <1>3, <1>5, <1>6 DEF IsRole, IsOverlay

LEMMA SeedsAre ==
  ASSUME NEW raw \in Seq([path : STRING, repo : STRING]), NEW dirs, FromRawEntries(raw, dirs).ok
  PROVE  IsSeeds(FromRawEntries(raw, dirs).val)
  <1> DEFINE s == [i \in 1 .. Len(raw) |-> IF raw[i].path # None THEN Local(raw[i].path)
                                           ELSE Remote(raw[i].repo)]
  <1>1. /\ DOMAIN raw = 1 .. Len(raw) /\ Len(raw) \in Nat
        /\ \A i \in 1 .. Len(raw) : raw[i].path \in STRING /\ raw[i].repo \in STRING
    <2>1. \A i \in 1 .. Len(raw) : raw[i] \in [path : STRING, repo : STRING]
      BY LenProperties
    <2> QED BY <2>1, LenProperties
  <1>2. /\ FromRawEntries(raw, dirs).val = s
        /\ \A i \in 1 .. Len(raw) : (raw[i].path = None) # (raw[i].repo = None)
    BY Zenon, <1>1 DEF FromRawEntries, Ok, Err
  <1>3. \A i \in 1 .. Len(raw) : /\ s[i].kind \in {"local", "remote"}
                                 /\ s[i].path \in Word \ {None}
    BY <1>1, <1>2 DEF Local, Remote, Word
  <1>4. s \in Seq({s[i] : i \in 1 .. Len(raw)}) /\ DOMAIN s = 1 .. Len(raw)
    BY <1>1, IsASeq
  <1>5. Len(s) = Len(raw)
    BY <1>1, <1>4, LenProperties
  <1> HIDE DEF s
  <1> QED BY <1>1, <1>2, <1>3, <1>4, <1>5 DEF IsSeeds

LEMMA DefaultSeeds == IsSeeds(DefaultLocal) /\ IsSeeds(LegacyKotoLocal)
  <1>1. ASSUME NEW p \in Word \ {None} PROVE IsSeeds(<<Local(p)>>)
    <2> DEFINE x == Local(p)
    <2>1. x.kind = "local" /\ x.path = p
      BY DEF Local
    <2> HIDE DEF x
    <2>2. Len(<<x>>) = 1 /\ DOMAIN <<x>> = 1 .. 1 /\ <<x>>[1] = x
      BY Singleton
    <2>3. IsSeeds(<<x>>)
      BY <2>1, <2>2 DEF IsSeeds
    <2> QED BY <2>3 DEF x
  <1>2. ".kuro" \in Word \ {None} /\ ".koto" \in Word \ {None}
    BY DEF Word, None
  <1> QED BY <1>1, <1>2 DEF DefaultLocal, LegacyKotoLocal

LEMMA FromYamlIs ==
  ASSUME NEW raw, IsRawConfig(raw), NEW dirs, FromYaml(raw, dirs).ok
  PROVE  /\ IsConfig(FromYaml(raw, dirs).val)
         /\ \A s : IsSeeds(s) => IsConfig([FromYaml(raw, dirs).val EXCEPT !.seeds = s])
  <1> DEFINE seeds == IF raw.seeds = <<>> /\ ~raw.bare THEN Ok(DefaultLocal)
                      ELSE FromRawEntries(raw.seeds, dirs)
             roles == [r \in DOMAIN raw.roles |-> ResolveRole(r, raw.roles[r]).val]
             c == [raw EXCEPT !.seeds = seeds.val, !.roles = roles]
  <1>1. /\ seeds.ok /\ FromYaml(raw, dirs).val = c
        /\ \A t \in DOMAIN raw.tiers : ValidateModelFormat(raw.tiers[t])
        /\ \A r \in DOMAIN raw.roles : ResolveRole(r, raw.roles[r]).ok
    BY Zenon DEF FromYaml, Ok, Err
  <1>2. IsSeeds(seeds.val)
    <2>1. CASE raw.seeds = <<>> /\ ~raw.bare
      BY <2>1, DefaultSeeds DEF Ok
    <2>2. CASE ~ (raw.seeds = <<>> /\ ~raw.bare)
      <3>1. seeds = FromRawEntries(raw.seeds, dirs)
        BY <2>2
      <3>2. raw.seeds \in Seq([path : STRING, repo : STRING])
        BY DEF IsRawConfig
      <3> HIDE DEF seeds
      <3> QED BY <1>1, <3>1, <3>2, SeedsAre
    <2> QED BY <2>1, <2>2
  <1>3. \A r \in DOMAIN raw.roles : IsRole(roles[r])
    <2> SUFFICES ASSUME NEW r \in DOMAIN raw.roles PROVE IsRole(ResolveRole(r, raw.roles[r]).val)
      OBVIOUS
    <2>1. IsRawRole(raw.roles[r]) /\ ResolveRole(r, raw.roles[r]).ok
      BY <1>1 DEF IsRawConfig
    <2> QED BY <2>1, RoleIs
  <1>4. DOMAIN roles = DOMAIN raw.roles
    OBVIOUS
  <1> HIDE DEF seeds, roles
  <1>5. {"there", "tiers", "roles", "seeds", "vars"} \subseteq DOMAIN raw
    BY DEF IsRawConfig
  <1>6. /\ c.seeds = seeds.val /\ c.roles = roles /\ c.tiers = raw.tiers /\ c.vars = raw.vars
        /\ DOMAIN c = DOMAIN raw
    BY <1>5
  <1> HIDE DEF c
  <1>7. /\ \A v \in DOMAIN c.vars : c.vars[v] \in Texts
        /\ \A t \in DOMAIN c.tiers : c.tiers[t] \in Seq(Word) /\ c.tiers[t] # <<>>
    <2>1. \A t \in DOMAIN raw.tiers : raw.tiers[t] \in Seq(Word)
      <3>1. STRING \subseteq Word
        BY DEF Word
      <3>2. \A s \in Seq(STRING) : s \in Seq(Word)
        BY <3>1, Widen
      <3>3. \A t \in DOMAIN raw.tiers : raw.tiers[t] \in Seq(STRING)
        BY DEF IsRawConfig
      <3> QED BY <3>2, <3>3
    <2>2. \A t \in DOMAIN raw.tiers : Len(raw.tiers[t]) = 2
      BY Zenon, <1>1 DEF ValidateModelFormat
    <2>3. Len(<<>>) = 0
      BY EmptySeq
    <2>4. \A v \in DOMAIN raw.vars : raw.vars[v] \in Texts
      BY DEF IsRawConfig
    <2>5. \A t \in DOMAIN raw.tiers : raw.tiers[t] # <<>>
      BY <2>2, <2>3
    <2> QED BY ONLY <1>6, <2>1, <2>4, <2>5
  <1>8. IsConfig(c)
    BY <1>2, <1>3, <1>4, <1>6, <1>7 DEF IsConfig
  <1>9. ASSUME NEW s, IsSeeds(s) PROVE IsConfig([c EXCEPT !.seeds = s])
    <2> DEFINE e == [c EXCEPT !.seeds = s]
    <2>1. /\ e.seeds = s /\ e.roles = c.roles /\ e.tiers = c.tiers /\ e.vars = c.vars
          /\ e.there = c.there
      BY <1>5, <1>6
    <2> HIDE DEF e
    <2>2. IsConfig(e)
      BY <1>3, <1>4, <1>6, <1>7, <1>9, <2>1 DEF IsConfig
    <2> QED BY <2>2 DEF e
  <1> QED BY <1>1, <1>8, <1>9

LEMMA ConfigIs ==
  ASSUME NEW files, DOMAIN files = 1 .. 3, \A i \in 1 .. 3 : IsRawConfig(files[i]), NEW dirs,
         LoadOptional(files, dirs).ok
  PROVE  IsConfig(LoadOptional(files, dirs).val)
  <1> DEFINE found == {i \in DOMAIN files : files[i].there}
             at == CHOOSE i \in found : \A j \in found : i <= j
             none == [NoConfig EXCEPT !.seeds = DefaultLocal]
  <1>1. CASE found = {}
    <2>1. LoadOptional(files, dirs).val = none
      BY <1>1 DEF LoadOptional, Ok
    <2>2. none.seeds = DefaultLocal /\ none.roles = NoArgs /\ none.vars = NoArgs /\ ~none.there
      BY DEF NoConfig
    <2>3. DOMAIN NoArgs = {}
      BY DEF NoArgs
    <2> HIDE DEF none
    <2> QED BY <2>1, <2>2, <2>3, DefaultSeeds DEF IsConfig
  <1>2. CASE found # {}
    <2>1. found \subseteq Nat /\ found \subseteq 1 .. 3
      OBVIOUS
    <2>2. at \in 1 .. 3
      BY <1>2, <2>1, Least
    <2> HIDE DEF at
    <2> DEFINE y == FromYaml(files[at], dirs)
    <2>3. /\ y.ok
          /\ LoadOptional(files, dirs).val = IF at = 1 THEN y.val ELSE RebaseDefaultSeeds(y.val)
      BY <1>2 DEF LoadOptional, Ok, Err, at
    <2>4. IsConfig(y.val) /\ \A s : IsSeeds(s) => IsConfig([y.val EXCEPT !.seeds = s])
      BY <2>2, <2>3, FromYamlIs
    <2> HIDE DEF y
    <2> QED BY <2>3, <2>4, DefaultSeeds DEF RebaseDefaultSeeds
  <1> QED BY <1>1, <1>2

\* What the walk finds, the properties name.
LEMMA FindIs ==
  ASSUME NEW seeds, IsSeeds(seeds), NEW having, Find(seeds, having).ok
  PROVE  /\ Find(seeds, having).val = 0 => SeedWith(seeds, having) = None
         /\ Find(seeds, having).val # 0 =>
               /\ Find(seeds, having).val \in DOMAIN seeds
               /\ seeds[Find(seeds, having).val].kind = "local"
               /\ seeds[Find(seeds, having).val].path \in having
               /\ seeds[Find(seeds, having).val].path \in Word \ {None}
               /\ SeedWith(seeds, having) = seeds[Find(seeds, having).val].path
               /\ \A j \in 1 .. Find(seeds, having).val - 1 :
                     seeds[j].kind = "local" /\ seeds[j].path \notin having
  <1> DEFINE n == Len(seeds)
             stops == {i \in DOMAIN seeds : seeds[i].kind = "remote" \/ seeds[i].path \in having}
             first == CHOOSE i \in stops : \A j \in stops : i <= j
             layers == [i \in DOMAIN seeds |->
                           IF seeds[i].kind = "local" /\ seeds[i].path \in having
                           THEN seeds[i].path ELSE None]
  <1>1. /\ n \in Nat /\ DOMAIN seeds = 1 .. n
        /\ \A i \in 1 .. n : seeds[i].kind \in {"local", "remote"} /\ seeds[i].path # None
        /\ \A i \in 1 .. n : seeds[i].path \in Word
    BY DEF IsSeeds
  <1>2. SeedWith(seeds, having) = FirstOf(layers, None)
    BY DEF SeedWith
  <1>3. /\ DOMAIN layers = 1 .. n
        /\ \A i \in 1 .. n : layers[i] = IF seeds[i].kind = "local" /\ seeds[i].path \in having
                                         THEN seeds[i].path ELSE None
    BY <1>1
  <1>4. \A i \in 1 .. n : i \notin stops => seeds[i].kind = "local" /\ seeds[i].path \notin having
    BY <1>1
  <1>5. CASE stops = {}
    <2>1. Find(seeds, having).val = 0
      BY <1>5 DEF Find, Ok
    <2>2. \A i \in 1 .. n : layers[i] = None
      BY <1>3, <1>4, <1>5
    <2> HIDE DEF layers
    <2>3. FirstOf(layers, None) = None
      BY <1>1, <1>3, <2>2, FirstOfIs
    <2> QED BY <1>2, <2>1, <2>3
  <1>6. CASE stops # {}
    <2>1. stops \subseteq Nat /\ stops \subseteq 1 .. n
      BY <1>1
    <2>2. first \in stops /\ \A j \in stops : first <= j
      BY <1>6, <2>1, Least
    <2>3. seeds[first].kind # "remote" /\ Find(seeds, having).val = first
      BY <1>6 DEF Find, Ok, Err
    <2>4. seeds[first].kind = "remote" \/ seeds[first].path \in having
      BY <2>2
    <2> HIDE DEF first, stops
    <2>5. first \in 1 .. n /\ seeds[first].kind = "local" /\ seeds[first].path \in having
      BY <1>1, <2>1, <2>2, <2>3, <2>4
    <2>6. \A j \in 1 .. first - 1 : j \in 1 .. n /\ j \notin stops
      BY <2>1, <2>2, <2>5
    <2> HIDE DEF layers
    <2>7. layers[first] = seeds[first].path /\ layers[first] # None
      BY <1>1, <1>3, <2>5
    <2>8. \A j \in 1 .. first - 1 : /\ layers[j] = None
                                    /\ seeds[j].kind = "local" /\ seeds[j].path \notin having
      BY <1>3, <1>4, <2>6
    <2>9. FirstOf(layers, None) = layers[first]
      BY <1>1, <1>3, <2>5, <2>7, <2>8, FirstOfIs
    <2> QED BY <1>1, <1>2, <2>3, <2>5, <2>7, <2>8, <2>9
  <1> QED BY <1>5, <1>6

LEMMA FirstOf2 ==
  ASSUME NEW a, NEW b, NEW u
  PROVE  FirstOf(<<a, b>>, u) =
           IF a # u THEN a ELSE IF b # u THEN b ELSE u
  <1> DEFINE l == <<a, b>>
  <1>1. DOMAIN l = 1 .. 2 /\ l[1] = a /\ l[2] = b
    OBVIOUS
  <1> HIDE DEF l
  <1>2. /\ (\A i \in 1 .. 2 : l[i] = u) => FirstOf(l, u) = u
        /\ \A i \in 1 .. 2 : l[i] # u /\ (\A j \in 1 .. i - 1 : l[j] = u) => FirstOf(l, u) = l[i]
    <2> DEFINE n == 2
    <2>1. n \in Nat /\ DOMAIN l = 1 .. n
      BY <1>1
    <2> HIDE DEF n
    <2>2. /\ (\A i \in 1 .. n : l[i] = u) => FirstOf(l, u) = u
          /\ \A i \in 1 .. n : l[i] # u /\ (\A j \in 1 .. i - 1 : l[j] = u) => FirstOf(l, u) = l[i]
      BY ONLY <2>1, FirstOfIs
    <2> QED BY <2>2 DEF n
  <1>3. CASE a # u
    <2>1. \A j \in 1 .. 1 - 1 : l[j] = u
      BY <1>1, <1>3
    <2>2. FirstOf(l, u) = l[1]
      BY <1>1, <1>2, <1>3, <2>1
    <2> QED BY <1>1, <1>3, <2>2 DEF l
  <1>4. CASE a = u /\ b # u
    <2>1. \A j \in 1 .. 2 - 1 : l[j] = u
      BY <1>1, <1>4
    <2>2. FirstOf(l, u) = l[2]
      BY <1>1, <1>2, <1>4, <2>1
    <2> QED BY <1>1, <1>4, <2>2 DEF l
  <1>5. CASE a = u /\ b = u
    <2>1. FirstOf(l, u) = u
      BY <1>1, <1>2, <1>5
    <2> QED BY <1>5, <2>1 DEF l
  <1> QED BY <1>3, <1>4, <1>5

LEMMA FirstOf3 ==
  ASSUME NEW a, NEW b, NEW c, NEW u
  PROVE  FirstOf(<<a, b, c>>, u) =
           IF a # u THEN a ELSE IF b # u THEN b ELSE IF c # u THEN c ELSE u
  <1> DEFINE l == <<a, b, c>>
  <1>1. DOMAIN l = 1 .. 3 /\ l[1] = a /\ l[2] = b /\ l[3] = c
    OBVIOUS
  <1> HIDE DEF l
  <1>2. /\ (\A i \in 1 .. 3 : l[i] = u) => FirstOf(l, u) = u
        /\ \A i \in 1 .. 3 : l[i] # u /\ (\A j \in 1 .. i - 1 : l[j] = u) => FirstOf(l, u) = l[i]
    <2> DEFINE n == 3
    <2>1. n \in Nat /\ DOMAIN l = 1 .. n
      BY <1>1
    <2> HIDE DEF n
    <2>2. /\ (\A i \in 1 .. n : l[i] = u) => FirstOf(l, u) = u
          /\ \A i \in 1 .. n : l[i] # u /\ (\A j \in 1 .. i - 1 : l[j] = u) => FirstOf(l, u) = l[i]
      BY ONLY <2>1, FirstOfIs
    <2> QED BY <2>2 DEF n
  <1>3. CASE a # u
    <2>1. \A j \in 1 .. 1 - 1 : l[j] = u
      BY <1>1, <1>3
    <2>2. FirstOf(l, u) = l[1]
      BY <1>1, <1>2, <1>3, <2>1
    <2> QED BY <1>1, <1>3, <2>2 DEF l
  <1>4. CASE a = u /\ b # u
    <2>1. \A j \in 1 .. 2 - 1 : l[j] = u
      BY <1>1, <1>4
    <2>2. FirstOf(l, u) = l[2]
      BY <1>1, <1>2, <1>4, <2>1
    <2> QED BY <1>1, <1>4, <2>2 DEF l
  <1>5. CASE a = u /\ b = u /\ c # u
    <2>1. \A j \in 1 .. 3 - 1 : l[j] = u
      BY <1>1, <1>5
    <2>2. FirstOf(l, u) = l[3]
      BY <1>1, <1>2, <1>5, <2>1
    <2> QED BY <1>1, <1>5, <2>2 DEF l
  <1>6. CASE a = u /\ b = u /\ c = u
    <2>1. FirstOf(l, u) = u
      BY <1>1, <1>2, <1>6
    <2> QED BY <1>6, <2>1 DEF l
  <1> QED BY <1>3, <1>4, <1>5, <1>6

LEMMA FirstOf4 ==
  ASSUME NEW a, NEW b, NEW c, NEW d, NEW u
  PROVE  FirstOf(<<a, b, c, d>>, u) =
           IF a # u THEN a ELSE IF b # u THEN b ELSE IF c # u THEN c ELSE IF d # u THEN d ELSE u
  <1> DEFINE l == <<a, b, c, d>>
  <1>1. DOMAIN l = 1 .. 4 /\ l[1] = a /\ l[2] = b /\ l[3] = c /\ l[4] = d
    OBVIOUS
  <1> HIDE DEF l
  <1>2. /\ (\A i \in 1 .. 4 : l[i] = u) => FirstOf(l, u) = u
        /\ \A i \in 1 .. 4 : l[i] # u /\ (\A j \in 1 .. i - 1 : l[j] = u) => FirstOf(l, u) = l[i]
    <2> DEFINE n == 4
    <2>1. n \in Nat /\ DOMAIN l = 1 .. n
      BY <1>1
    <2> HIDE DEF n
    <2>2. /\ (\A i \in 1 .. n : l[i] = u) => FirstOf(l, u) = u
          /\ \A i \in 1 .. n : l[i] # u /\ (\A j \in 1 .. i - 1 : l[j] = u) => FirstOf(l, u) = l[i]
      BY ONLY <2>1, FirstOfIs
    <2> QED BY <2>2 DEF n
  <1>3. CASE a # u
    <2>1. \A j \in 1 .. 1 - 1 : l[j] = u
      BY <1>1, <1>3
    <2>2. FirstOf(l, u) = l[1]
      BY <1>1, <1>2, <1>3, <2>1
    <2> QED BY <1>1, <1>3, <2>2 DEF l
  <1>4. CASE a = u /\ b # u
    <2>1. \A j \in 1 .. 2 - 1 : l[j] = u
      BY <1>1, <1>4
    <2>2. FirstOf(l, u) = l[2]
      BY <1>1, <1>2, <1>4, <2>1
    <2> QED BY <1>1, <1>4, <2>2 DEF l
  <1>5. CASE a = u /\ b = u /\ c # u
    <2>1. \A j \in 1 .. 3 - 1 : l[j] = u
      BY <1>1, <1>5
    <2>2. FirstOf(l, u) = l[3]
      BY <1>1, <1>2, <1>5, <2>1
    <2> QED BY <1>1, <1>5, <2>2 DEF l
  <1>6. CASE a = u /\ b = u /\ c = u /\ d # u
    <2>1. \A j \in 1 .. 4 - 1 : l[j] = u
      BY <1>1, <1>6
    <2>2. FirstOf(l, u) = l[4]
      BY <1>1, <1>2, <1>6, <2>1
    <2> QED BY <1>1, <1>6, <2>2 DEF l
  <1>7. CASE a = u /\ b = u /\ c = u /\ d = u
    <2>1. FirstOf(l, u) = u
      BY <1>1, <1>2, <1>7
    <2> QED BY <1>7, <2>1 DEF l
  <1> QED BY <1>3, <1>4, <1>5, <1>6, <1>7

LEMMA FirstOf5 ==
  ASSUME NEW a, NEW b, NEW c, NEW d, NEW e, NEW u
  PROVE  FirstOf(<<a, b, c, d, e>>, u) =
           IF a # u THEN a ELSE IF b # u THEN b ELSE IF c # u THEN c ELSE IF d # u THEN d ELSE IF e # u THEN e ELSE u
  <1> DEFINE l == <<a, b, c, d, e>>
  <1>1. DOMAIN l = 1 .. 5 /\ l[1] = a /\ l[2] = b /\ l[3] = c /\ l[4] = d /\ l[5] = e
    OBVIOUS
  <1> HIDE DEF l
  <1>2. /\ (\A i \in 1 .. 5 : l[i] = u) => FirstOf(l, u) = u
        /\ \A i \in 1 .. 5 : l[i] # u /\ (\A j \in 1 .. i - 1 : l[j] = u) => FirstOf(l, u) = l[i]
    <2> DEFINE n == 5
    <2>1. n \in Nat /\ DOMAIN l = 1 .. n
      BY <1>1
    <2> HIDE DEF n
    <2>2. /\ (\A i \in 1 .. n : l[i] = u) => FirstOf(l, u) = u
          /\ \A i \in 1 .. n : l[i] # u /\ (\A j \in 1 .. i - 1 : l[j] = u) => FirstOf(l, u) = l[i]
      BY ONLY <2>1, FirstOfIs
    <2> QED BY <2>2 DEF n
  <1>3. CASE a # u
    <2>1. \A j \in 1 .. 1 - 1 : l[j] = u
      BY <1>1, <1>3
    <2>2. FirstOf(l, u) = l[1]
      BY <1>1, <1>2, <1>3, <2>1
    <2> QED BY <1>1, <1>3, <2>2 DEF l
  <1>4. CASE a = u /\ b # u
    <2>1. \A j \in 1 .. 2 - 1 : l[j] = u
      BY <1>1, <1>4
    <2>2. FirstOf(l, u) = l[2]
      BY <1>1, <1>2, <1>4, <2>1
    <2> QED BY <1>1, <1>4, <2>2 DEF l
  <1>5. CASE a = u /\ b = u /\ c # u
    <2>1. \A j \in 1 .. 3 - 1 : l[j] = u
      BY <1>1, <1>5
    <2>2. FirstOf(l, u) = l[3]
      BY <1>1, <1>2, <1>5, <2>1
    <2> QED BY <1>1, <1>5, <2>2 DEF l
  <1>6. CASE a = u /\ b = u /\ c = u /\ d # u
    <2>1. \A j \in 1 .. 4 - 1 : l[j] = u
      BY <1>1, <1>6
    <2>2. FirstOf(l, u) = l[4]
      BY <1>1, <1>2, <1>6, <2>1
    <2> QED BY <1>1, <1>6, <2>2 DEF l
  <1>7. CASE a = u /\ b = u /\ c = u /\ d = u /\ e # u
    <2>1. \A j \in 1 .. 5 - 1 : l[j] = u
      BY <1>1, <1>7
    <2>2. FirstOf(l, u) = l[5]
      BY <1>1, <1>2, <1>7, <2>1
    <2> QED BY <1>1, <1>7, <2>2 DEF l
  <1>8. CASE a = u /\ b = u /\ c = u /\ d = u /\ e = u
    <2>1. FirstOf(l, u) = u
      BY <1>1, <1>2, <1>8
    <2> QED BY <1>8, <2>1 DEF l
  <1> QED BY <1>3, <1>4, <1>5, <1>6, <1>7, <1>8

---------------------------------------------------------------------------
(* Agents, from their files and the overlays of their roles.                *)

IsDirs(dirs) ==
  \A p \in DOMAIN dirs : \A id \in DOMAIN dirs[p].agents : IsAgentFile(dirs[p].agents[id])

\* The server can load the file, whatever the flow says for agents that say nothing.
Handable(seeds, dirs, id, cfg) ==
  LoadAgentFile(seeds, dirs, id, <<"claude-sonnet-4-5">>, "claude-cli", cfg).ok

\* An agent as its file and an overlay make it; `model` and `backend` are what
\* the flow says for agents that say nothing.
AgentIs(a, id, seeds, dirs, cfg, model, backend, over) ==
  LET file == FileOf(seeds, dirs, id)
  IN /\ DOMAIN a = {"id", "model", "backend", "rules", "skills", "extra", "path"}
     /\ a.id = id /\ a.path = AgentSeed(seeds, dirs, id)
     /\ a.path \in Word \ {None} /\ a.path \in DOMAIN dirs /\ id \in DOMAIN dirs[a.path].agents
     /\ id \notin dirs[a.path].broken /\ Handable(seeds, dirs, id, cfg)
     /\ a.model = AgentModel(file, over, cfg, model) /\ a.model \in Seq(Word)
     /\ a.backend = AgentBackend(file, over, backend) /\ a.backend \in Backends
     /\ a.skills = file.skills /\ a.skills \in Seq(Word)
     /\ a.rules \in Seq(Word)
     /\ ToSet(a.rules) = ToSet(file.rules) \cup ToSet(over.rules)
     /\ over = NoOverlay => a.rules = file.rules
     /\ \A b \in Backends : (IF b \in DOMAIN a.extra THEN a.extra[b] ELSE <<>>)
                              = AgentArgs(file, over, b)
     /\ \A b \in DOMAIN a.extra : a.extra[b] \in Seq(Word)

LEMMA NoOverlayIs ==
  /\ IsOverlay(NoOverlay) /\ NoOverlay.model = <<>> /\ NoOverlay.backend = None
  /\ NoOverlay.extra = NoArgs /\ NoOverlay.rules = <<>> /\ DOMAIN NoArgs = {}
  /\ ToSet(NoOverlay.rules) = {}
  <1>1. /\ DOMAIN NoOverlay = {"model", "backend", "extra", "rules"}
        /\ NoOverlay.model = <<>> /\ NoOverlay.backend = None
        /\ NoOverlay.extra = NoArgs /\ NoOverlay.rules = <<>>
    BY DEF NoOverlay
  <1>2. DOMAIN NoArgs = {}
    BY DEF NoArgs
  <1>3. <<>> \in Seq(Word) /\ ToSet(<<>>) = {<<>>[i] : i \in 1 .. Len(<<>>)} /\ Len(<<>>) = 0
    BY EmptySeq, ElementsOf
  <1>4. ToSet(<<>>) = {}
    BY <1>3
  <1> QED BY ONLY <1>1, <1>2, <1>3, <1>4 DEF IsOverlay

LEMMA DefaultsAre ==
  /\ DefaultModel \in Seq(Word) /\ DefaultModel # <<>>
  /\ DefaultBackend \in Backends /\ DefaultBackend # None
  <1>1. "sonnet" \in Word
    BY DEF Word
  <1>2. <<"sonnet">> \in Seq(Word) /\ Len(<<"sonnet">>) = 1
    BY <1>1, Singleton
  <1>3. Len(<<>>) = 0
    BY EmptySeq
  <1> QED BY <1>2, <1>3 DEF DefaultModel, DefaultBackend, Backends, None

\* What a flow that says nothing of its agents says.
Filled(model, backend, rawModel, rawBackend) ==
  /\ model = IF rawModel = <<>> THEN DefaultModel ELSE rawModel
  /\ backend = IF rawBackend = None THEN DefaultBackend ELSE rawBackend
  /\ rawModel \in Seq(Word) /\ rawBackend \in Backends \cup {None}

LEMMA LoadsForAll ==
  ASSUME NEW seeds, NEW cfg, NEW dirs, NEW id, NEW model, NEW backend,
         LoadAgentFile(seeds, dirs, id, model, backend, cfg).ok
  PROVE  Handable(seeds, dirs, id, cfg)
  <1> DEFINE at == Find(seeds, {p \in DOMAIN dirs : id \in DOMAIN dirs[p].agents})
             path == seeds[at.val].path
             file == dirs[path].agents[id]
  <1>1. /\ at.ok /\ at.val # 0 /\ id \notin dirs[path].broken
        /\ ResolveAgentModel(file, model, cfg).ok /\ ValidateExtraArgs(file.extra)
    BY ZenonT(40) DEF LoadAgentFile, Err
  <1>2. ResolveAgentModel(file, <<"claude-sonnet-4-5">>, cfg).ok
    BY Zenon, <1>1 DEF ResolveAgentModel, Ok
  <1> QED BY ZenonT(40), <1>1, <1>2 DEF LoadAgentFile, Handable, Ok

LEMMA LoadedIs ==
  ASSUME NEW seeds, IsSeeds(seeds), NEW cfg, IsConfig(cfg), NEW dirs, IsDirs(dirs), NEW id,
         NEW model, NEW backend, NEW rawModel, NEW rawBackend,
         Filled(model, backend, rawModel, rawBackend),
         LoadAgentFile(seeds, dirs, id, model, backend, cfg).ok
  PROVE  AgentIs(LoadAgentFile(seeds, dirs, id, model, backend, cfg).val,
                 id, seeds, dirs, cfg, rawModel, rawBackend, NoOverlay)
  <1> DEFINE having == {p \in DOMAIN dirs : id \in DOMAIN dirs[p].agents}
             at == Find(seeds, having)
             path == seeds[at.val].path
             file == dirs[path].agents[id]
             m == ResolveAgentModel(file, model, cfg)
             b == IF file.backend # None THEN file.backend ELSE backend
             a == [id |-> id, model |-> m.val, backend |-> b, rules |-> file.rules,
                   skills |-> file.skills, extra |-> file.extra, path |-> path]
  <1>1. /\ at.ok /\ at.val # 0 /\ m.ok /\ id \notin dirs[path].broken
        /\ LoadAgentFile(seeds, dirs, id, model, backend, cfg).val = a
    BY ZenonT(40) DEF LoadAgentFile, Ok, Err
  <1>2. /\ path \in having /\ path \in Word \ {None} /\ SeedWith(seeds, having) = path
    <2> HIDE DEF having
    <2> QED BY ZenonT(40), <1>1, FindIs
  <1>3. /\ path \in DOMAIN dirs /\ id \in DOMAIN dirs[path].agents
        /\ AgentSeed(seeds, dirs, id) = path /\ FileOf(seeds, dirs, id) = file
    BY ZenonT(30), <1>2 DEF AgentSeed, FileOf
  <1>4. IsAgentFile(file)
    BY <1>3 DEF IsDirs
  <1>5. /\ file.model \in Seq(Word) /\ file.backend \in Backends \cup {None}
        /\ file.rules \in Seq(Word) /\ file.skills \in Seq(Word)
        /\ \A x \in DOMAIN file.extra : file.extra[x] \in Seq(Word)
    <2>1. STRING \subseteq Word
      BY DEF Word
    <2>2. \A s \in Seq(STRING) : s \in Seq(Word)
      BY <2>1, Widen
    <2> HIDE DEF file
    <2> QED BY <1>4, <2>2 DEF IsAgentFile, IsExtra
  <1> HIDE DEF file
  <1>6. /\ a.id = id /\ a.path = path /\ a.model = m.val /\ a.backend = b
        /\ a.rules = file.rules /\ a.skills = file.skills /\ a.extra = file.extra
        /\ DOMAIN a = {"id", "model", "backend", "rules", "skills", "extra", "path"}
    OBVIOUS
  <1>7. /\ model \in Seq(Word) /\ model # <<>> /\ backend \in Backends
        /\ model = IF rawModel # <<>> THEN rawModel ELSE DefaultModel
        /\ backend = IF rawBackend # None THEN rawBackend ELSE DefaultBackend
    BY DefaultsAre DEF Filled
  <1>8. m.val = AgentModel(file, NoOverlay, cfg, rawModel) /\ m.val \in Seq(Word)
    <2> DEFINE t == IF file.tier # None THEN cfg.tiers[file.tier] ELSE <<>>
    <2>1. /\ file.tier # None => t = m.val /\ t \in Seq(Word) /\ t # <<>>
          /\ file.tier = None => m.val = IF file.model # <<>> THEN file.model ELSE model
      BY Zenon, <1>1 DEF ResolveAgentModel, ResolveTier, Ok, Err, IsConfig
    <2>2. AgentModel(file, NoOverlay, cfg, rawModel)
            = FirstOf(<<<<>>, t, file.model, rawModel, DefaultModel>>, <<>>)
      BY NoOverlayIs DEF AgentModel
    <2>3. file.tier = None => t = <<>>
      OBVIOUS
    <2> HIDE DEF t, m
    <2>4. FirstOf(<<<<>>, t, file.model, rawModel, DefaultModel>>, <<>>)
            = IF <<>> # <<>> THEN <<>> ELSE IF t # <<>> THEN t
              ELSE IF file.model # <<>> THEN file.model
              ELSE IF rawModel # <<>> THEN rawModel
              ELSE IF DefaultModel # <<>> THEN DefaultModel ELSE <<>>
      BY FirstOf5
    <2> QED BY <1>5, <1>7, <2>1, <2>2, <2>3, <2>4, DefaultsAre
  <1>9. b = AgentBackend(file, NoOverlay, rawBackend) /\ b \in Backends
    <2>1. AgentBackend(file, NoOverlay, rawBackend)
            = FirstOf(<<None, file.backend, rawBackend, DefaultBackend>>, None)
      BY NoOverlayIs DEF AgentBackend
    <2>2. FirstOf(<<None, file.backend, rawBackend, DefaultBackend>>, None)
            = IF None # None THEN None ELSE IF file.backend # None THEN file.backend
              ELSE IF rawBackend # None THEN rawBackend
              ELSE IF DefaultBackend # None THEN DefaultBackend ELSE None
      BY FirstOf4
    <2> QED BY <1>5, <1>7, <2>1, <2>2, DefaultsAre
  <1> HIDE DEF a, b, m, path
  <1>10. \A x \in Backends : (IF x \in DOMAIN a.extra THEN a.extra[x] ELSE <<>>)
                               = AgentArgs(file, NoOverlay, x)
    BY <1>6, NoOverlayIs DEF AgentArgs
  <1>11. ToSet(a.rules) = ToSet(file.rules) \cup ToSet(NoOverlay.rules)
    BY <1>6, NoOverlayIs
  <1>13. Handable(seeds, dirs, id, cfg)
    BY LoadsForAll
  <1>12. AgentIs(a, id, seeds, dirs, cfg, rawModel, rawBackend, NoOverlay)
    BY ONLY <1>1, <1>13, <1>2, <1>3, <1>5, <1>6, <1>8, <1>9, <1>10, <1>11 DEF AgentIs
  <1> QED BY <1>1, <1>12

\* The rules of an overlay that the agent does not have.
Added(old, more) ==
  FlattenSeq([i \in DOMAIN more |-> IF more[i] \in ToSet(old) \cup {more[j] : j \in 1 .. i - 1}
                                     THEN <<>> ELSE <<more[i]>>])

LEMMA AddedRules ==
  ASSUME NEW S, NEW old \in Seq(S), NEW more \in Seq(S)
  PROVE  /\ old \o Added(old, more) \in Seq(S)
         /\ ToSet(old \o Added(old, more)) = ToSet(old) \cup ToSet(more)
  <1> DEFINE added == Added(old, more)
             n == Len(more)
             Known(i) == ToSet(old) \cup {more[j] : j \in 1 .. i - 1}
             ss == [i \in 1 .. n |-> IF more[i] \in Known(i) THEN <<>> ELSE <<more[i]>>]
  <1>1. /\ n \in Nat /\ DOMAIN more = 1 .. n /\ ToSet(more) = {more[i] : i \in 1 .. n}
        /\ \A i \in 1 .. n : more[i] \in S
    BY LenProperties, ElementsOf
  <1>2. added = FlattenSeq(ss)
    BY <1>1 DEF Added
  <1>3. \A i \in 1 .. n : ss[i] = IF more[i] \in Known(i) THEN <<>> ELSE <<more[i]>>
    OBVIOUS
  <1>4. ss = [k \in 1 .. n |-> ss[k]]
    OBVIOUS
  <1>9. \A i \in 1 .. n : \A x : x \in Known(i) <=> x \in ToSet(old) \/ \E j \in 1 .. i - 1 : x = more[j]
    OBVIOUS
  <1> HIDE DEF ss, n, Known, added
  <1>5. ASSUME NEW i \in 1 .. n
        PROVE  /\ ss[i] \in Seq(S)
               /\ ToSet(ss[i]) = IF more[i] \in Known(i) THEN {} ELSE {more[i]}
    <2>1. CASE more[i] \in Known(i)
      <3>1. ss[i] = <<>>
        BY <1>3, <2>1
      <3>2. <<>> \in Seq(S) /\ ToSet(<<>>) = {<<>>[k] : k \in 1 .. Len(<<>>)} /\ Len(<<>>) = 0
        BY EmptySeq, ElementsOf
      <3> QED BY <2>1, <3>1, <3>2
    <2>2. CASE more[i] \notin Known(i)
      <3>1. ss[i] = <<more[i]>>
        BY <1>3, <2>2
      <3>2. <<more[i]>> \in Seq(S) /\ ToSet(<<more[i]>>) = {more[i]}
        BY <1>1, Singleton DEF ToSet
      <3> QED BY <2>2, <3>1, <3>2
    <2> QED BY <2>1, <2>2
  <1>6. /\ FlattenSeq(ss) \in Seq(S)
        /\ \A x : x \in ToSet(FlattenSeq(ss)) <=> \E k \in 1 .. n : x \in ToSet(ss[k])
    BY <1>1, <1>4, <1>5, FlatElements
  <1>7. /\ old \o added \in Seq(S) /\ ToSet(old \o added) = ToSet(old) \cup ToSet(added)
    <2>1. added \in Seq(S)
      BY <1>2, <1>6
    <2> QED BY <2>1, ConcatElements
  <1>8. ToSet(added) \subseteq ToSet(more)
    <2> SUFFICES ASSUME NEW x \in ToSet(added) PROVE x \in ToSet(more)
      OBVIOUS
    <2>1. PICK k \in 1 .. n : x \in ToSet(ss[k])
      BY <1>2, <1>6
    <2>2. x = more[k]
      BY <1>5, <2>1
    <2> QED BY <1>1, <2>2
  <1>10. ASSUME NEW x \in ToSet(more) PROVE x \in ToSet(old) \cup ToSet(added)
    <2> DEFINE T == {k \in 1 .. n : more[k] = x}
    <2>1. T # {} /\ T \subseteq Nat
      BY <1>1
    <2>2. PICK k \in T : \A m \in T : k <= m
      BY <2>1, Least
    <2>3. k \in 1 .. n /\ more[k] = x
      BY <2>2
    <2>4. \A j \in 1 .. k - 1 : more[j] # x
      <3> SUFFICES ASSUME NEW j \in 1 .. k - 1, more[j] = x PROVE FALSE
        OBVIOUS
      <3>1. j \in T /\ j < k
        BY <1>1, <2>3
      <3> QED BY <1>1, <2>2, <2>3, <3>1
    <2>5. CASE more[k] \in Known(k)
      BY <1>9, <2>3, <2>4, <2>5
    <2>6. CASE more[k] \notin Known(k)
      BY <1>2, <1>5, <1>6, <2>3, <2>6
    <2> QED BY <2>5, <2>6
  <1> QED BY <1>7, <1>8, <1>10 DEF added

LEMMA MergeIs ==
  ASSUME NEW a, NEW id, NEW seeds, NEW dirs, NEW cfg, NEW model, NEW backend, NEW over,
         AgentIs(a, id, seeds, dirs, cfg, model, backend, NoOverlay),
         IsOverlay(over), over # NoOverlay
  PROVE  AgentIs(Merge(a, over), id, seeds, dirs, cfg, model, backend, over)
  <1> DEFINE file == FileOf(seeds, dirs, id)
             m == IF over.model # <<>> THEN over.model ELSE a.model
             b == IF over.backend # None THEN over.backend ELSE a.backend
             r == a.rules \o Added(a.rules, over.rules)
             e == Over(over.extra, a.extra)
             c == Merge(a, over)
  <1>1. /\ DOMAIN a = {"id", "model", "backend", "rules", "skills", "extra", "path"}
        /\ a.id = id /\ a.path = AgentSeed(seeds, dirs, id)
        /\ a.path \in Word \ {None} /\ a.path \in DOMAIN dirs
        /\ id \in DOMAIN dirs[a.path].agents /\ id \notin dirs[a.path].broken
        /\ Handable(seeds, dirs, id, cfg)
        /\ a.model = AgentModel(file, NoOverlay, cfg, model) /\ a.model \in Seq(Word)
        /\ a.backend = AgentBackend(file, NoOverlay, backend) /\ a.backend \in Backends
        /\ a.skills = file.skills /\ a.skills \in Seq(Word)
        /\ a.rules \in Seq(Word)
        /\ ToSet(a.rules) = ToSet(file.rules) \cup ToSet(NoOverlay.rules)
        /\ \A x \in Backends : (IF x \in DOMAIN a.extra THEN a.extra[x] ELSE <<>>)
                                 = AgentArgs(file, NoOverlay, x)
        /\ \A x \in DOMAIN a.extra : a.extra[x] \in Seq(Word)
    BY DEF AgentIs
  <1>2. c = [a EXCEPT !.model = m, !.backend = b, !.extra = e, !.rules = r]
    BY <1>1 DEF Merge, Added
  <1> HIDE DEF file, m, b, e, r
  <1>3. /\ DOMAIN c = {"id", "model", "backend", "rules", "skills", "extra", "path"}
        /\ c.id = a.id /\ c.path = a.path /\ c.skills = a.skills
        /\ c.model = m /\ c.backend = b /\ c.extra = e /\ c.rules = r
    <2> HIDE DEF c
    <2> QED BY <1>1, <1>2
  <1>4. /\ over.model \in Seq(Word) /\ over.backend \in Backends \cup {None}
        /\ over.rules \in Seq(Word) /\ \A x \in DOMAIN over.extra : over.extra[x] \in Seq(Word)
    BY DEF IsOverlay
  <1>5. r \in Seq(Word) /\ ToSet(r) = ToSet(a.rules) \cup ToSet(over.rules)
    BY <1>1, <1>4, AddedRules DEF r
  <1>6. ToSet(r) = ToSet(file.rules) \cup ToSet(over.rules)
    BY <1>1, <1>5, NoOverlayIs
  <1>7. m = AgentModel(file, over, cfg, model) /\ m \in Seq(Word)
    <2> DEFINE t == IF file.tier # None THEN cfg.tiers[file.tier] ELSE <<>>
    <2>1. /\ AgentModel(file, over, cfg, model)
               = FirstOf(<<over.model, t, file.model, model, DefaultModel>>, <<>>)
          /\ AgentModel(file, NoOverlay, cfg, model)
               = FirstOf(<<<<>>, t, file.model, model, DefaultModel>>, <<>>)
      BY NoOverlayIs DEF AgentModel
    <2> HIDE DEF t
    <2>2. \A x : FirstOf(<<x, t, file.model, model, DefaultModel>>, <<>>)
                   = IF x # <<>> THEN x ELSE IF t # <<>> THEN t
                     ELSE IF file.model # <<>> THEN file.model ELSE IF model # <<>> THEN model
                     ELSE IF DefaultModel # <<>> THEN DefaultModel ELSE <<>>
      BY FirstOf5
    <2> QED BY <1>1, <1>4, <2>1, <2>2 DEF m
  <1>8. b = AgentBackend(file, over, backend) /\ b \in Backends
    <2>1. /\ AgentBackend(file, over, backend)
               = FirstOf(<<over.backend, file.backend, backend, DefaultBackend>>, None)
          /\ AgentBackend(file, NoOverlay, backend)
               = FirstOf(<<None, file.backend, backend, DefaultBackend>>, None)
      BY NoOverlayIs DEF AgentBackend
    <2>2. \A x : FirstOf(<<x, file.backend, backend, DefaultBackend>>, None)
                   = IF x # None THEN x ELSE IF file.backend # None THEN file.backend
                     ELSE IF backend # None THEN backend
                     ELSE IF DefaultBackend # None THEN DefaultBackend ELSE None
      BY FirstOf4
    <2> QED BY <1>1, <1>4, <2>1, <2>2 DEF b
  <1>9. /\ DOMAIN e = DOMAIN over.extra \cup DOMAIN a.extra
        /\ \A x \in DOMAIN e : e[x] = IF x \in DOMAIN over.extra THEN over.extra[x] ELSE a.extra[x]
    BY DEF e, Over
  <1>10. \A x \in Backends : (IF x \in DOMAIN e THEN e[x] ELSE <<>>) = AgentArgs(file, over, x)
    <2> SUFFICES ASSUME NEW x \in Backends
                 PROVE  (IF x \in DOMAIN e THEN e[x] ELSE <<>>) = AgentArgs(file, over, x)
      OBVIOUS
    <2>1. (IF x \in DOMAIN a.extra THEN a.extra[x] ELSE <<>>) = AgentArgs(file, NoOverlay, x)
      BY <1>1
    <2>2. AgentArgs(file, NoOverlay, x) = IF x \in DOMAIN file.extra THEN file.extra[x] ELSE <<>>
      BY NoOverlayIs DEF AgentArgs
    <2> QED BY <1>9, <2>1, <2>2 DEF AgentArgs
  <1>11. \A x \in DOMAIN e : e[x] \in Seq(Word)
    BY <1>1, <1>4, <1>9
  <1> HIDE DEF c
  <1>12. AgentIs(c, id, seeds, dirs, cfg, model, backend, over)
    BY ONLY <1>1, <1>3, <1>5, <1>6, <1>7, <1>8, <1>10, <1>11, over # NoOverlay
       DEF AgentIs, file
  <1> QED BY <1>12 DEF c

LEMMA OverlaidIs ==
  ASSUME NEW cfg, IsConfig(cfg), NEW pairs, NEW id
  PROVE  /\ IsOverlay(OverlaidBy(pairs, cfg, id))
         /\ OverlaidBy(pairs, cfg, id) # NoOverlay =>
               \E p \in pairs : /\ p[2] = id
                                /\ OverlaidBy(pairs, cfg, id) = ProjectRole(cfg, p[1]).overlay
         /\ OverlaidBy(pairs, cfg, id) = NoOverlay =>
               \A p \in pairs : p[2] = id => ProjectRole(cfg, p[1]).overlay = NoOverlay
  <1> DEFINE layers == {ProjectRole(cfg, p[1]).overlay : p \in {q \in pairs : q[2] = id}}
                          \ {NoOverlay}
             o == CHOOSE x \in layers : TRUE
  <1>0. OverlaidBy(pairs, cfg, id) = IF layers = {} THEN NoOverlay ELSE o
    BY DEF OverlaidBy
  <1>1. \A x : x \in layers <=> /\ x # NoOverlay
                                /\ \E p \in pairs : p[2] = id /\ x = ProjectRole(cfg, p[1]).overlay
    OBVIOUS
  <1>2. layers # {} => o \in layers
    OBVIOUS
  <1> HIDE DEF layers, o
  <1>3. \A r : IsOverlay(ProjectRole(cfg, r).overlay)
    <2> TAKE r
    <2>1. CASE r \in DOMAIN cfg.roles
      BY <2>1 DEF ProjectRole, IsConfig, IsRole
    <2>2. CASE r \notin DOMAIN cfg.roles
      <3>1. ProjectRole(cfg, r) = NoRole
        BY <2>2 DEF ProjectRole
      <3>2. NoRole.overlay = NoOverlay
        BY DEF NoRole
      <3> QED BY <3>1, <3>2, NoOverlayIs
    <2> QED BY <2>1, <2>2
  <1> QED BY <1>0, <1>1, <1>2, <1>3, NoOverlayIs

LEMMA OverlaysAre ==
  ASSUME NEW agents, NEW pairs, NEW cfg, IsConfig(cfg),
         ApplyRoleOverlays(agents, pairs, cfg).ok
  PROVE  /\ DOMAIN ApplyRoleOverlays(agents, pairs, cfg).val = {"agents", "summaries"}
         /\ DOMAIN ApplyRoleOverlays(agents, pairs, cfg).val.agents = DOMAIN agents
         /\ \A id \in DOMAIN agents :
               ApplyRoleOverlays(agents, pairs, cfg).val.agents[id]
                 = IF OverlaidBy(pairs, cfg, id) = NoOverlay THEN agents[id]
                   ELSE Merge(agents[id], OverlaidBy(pairs, cfg, id))
  <1> DEFINE Ov(p) == ProjectRole(cfg, p[1]).overlay
             layered == {p \in pairs : Ov(p) # NoOverlay}
             Of(id) == {p \in layered : p[2] = id}
             new == [id \in DOMAIN agents |->
                        IF Of(id) = {} THEN agents[id]
                        ELSE Merge(agents[id], Ov(CHOOSE p \in Of(id) : TRUE))]
             summaries == [r \in {p[1] : p \in layered} |->
                    LET p == CHOOSE q \in layered : q[1] = r
                    IN Summary(agents[p[2]], Ov(p))]
  <1>1. /\ \A p, q \in layered : p[2] = q[2] => Ov(p) = Ov(q)
        /\ ApplyRoleOverlays(agents, pairs, cfg).val = [agents |-> new, summaries |-> summaries]
    BY DEF ApplyRoleOverlays, Ok, Err
  <1> HIDE DEF summaries
  <1>2. ASSUME NEW id \in DOMAIN agents
        PROVE  new[id] = IF OverlaidBy(pairs, cfg, id) = NoOverlay THEN agents[id]
                         ELSE Merge(agents[id], OverlaidBy(pairs, cfg, id))
    <2> DEFINE o == OverlaidBy(pairs, cfg, id)
               q == CHOOSE p \in Of(id) : TRUE
    <2>1. /\ o # NoOverlay => \E p \in pairs : p[2] = id /\ o = Ov(p)
          /\ o = NoOverlay => \A p \in pairs : p[2] = id => Ov(p) = NoOverlay
      BY OverlaidIs
    <2>2. new[id] = IF Of(id) = {} THEN agents[id] ELSE Merge(agents[id], Ov(q))
      OBVIOUS
    <2>3. Of(id) # {} => q \in Of(id)
      OBVIOUS
    <2>4. \A p : p \in Of(id) <=> p \in pairs /\ p[2] = id /\ Ov(p) # NoOverlay
      OBVIOUS
    <2>5. \A p : p \in layered <=> p \in pairs /\ Ov(p) # NoOverlay
      OBVIOUS
    <2> HIDE DEF o, q, Of, layered, Ov, new
    <2>6. CASE o = NoOverlay
      <3>1. Of(id) = {}
        BY <2>1, <2>4, <2>6
      <3> QED BY <2>2, <2>6, <3>1 DEF o
    <2>7. CASE o # NoOverlay
      <3>1. PICK p \in pairs : p[2] = id /\ o = Ov(p)
        BY <2>1, <2>7
      <3>2. p \in Of(id) /\ p \in layered
        BY <2>4, <2>5, <2>7, <3>1
      <3>3. q \in layered /\ q[2] = id
        BY <2>3, <2>4, <2>5, <3>2
      <3>4. Ov(q) = o
        BY <1>1, <3>1, <3>2, <3>3
      <3> QED BY <2>2, <2>7, <3>2, <3>4 DEF o
    <2> QED BY <2>6, <2>7
  <1> HIDE DEF new
  <1>3. DOMAIN new = DOMAIN agents
    BY DEF new
  <1> QED BY <1>1, <1>2, <1>3

---------------------------------------------------------------------------
(* The agents of a run, and what they are told.                             *)

\* Every one of them is what its file and its overlay make it.
Team(agents, seeds, dirs, cfg, model, backend, pairs) ==
  \A id \in DOMAIN agents :
     AgentIs(agents[id], id, seeds, dirs, cfg, model, backend, OverlaidBy(pairs, cfg, id))

LEMMA TeamLoaded ==
  ASSUME NEW seeds, IsSeeds(seeds), NEW cfg, IsConfig(cfg), NEW dirs, IsDirs(dirs), NEW ids,
         NEW model, NEW backend, NEW rawModel, NEW rawBackend,
         Filled(model, backend, rawModel, rawBackend),
         LoadAgents(ids, seeds, dirs, model, backend, cfg).ok
  PROVE  /\ DOMAIN LoadAgents(ids, seeds, dirs, model, backend, cfg).val = ids
         /\ Team(LoadAgents(ids, seeds, dirs, model, backend, cfg).val,
                 seeds, dirs, cfg, rawModel, rawBackend, {})
  <1> DEFINE L(id) == LoadAgentFile(seeds, dirs, id, model, backend, cfg)
             a == [id \in ids |-> L(id).val]
  <1>1. (\A id \in ids : L(id).ok) /\ LoadAgents(ids, seeds, dirs, model, backend, cfg).val = a
    BY DEF LoadAgents, Ok, Err
  <1>2. ASSUME NEW id \in ids
        PROVE  AgentIs(a[id], id, seeds, dirs, cfg, rawModel, rawBackend, OverlaidBy({}, cfg, id))
    <2>1. L(id).ok
      BY <1>1
    <2>2. AgentIs(L(id).val, id, seeds, dirs, cfg, rawModel, rawBackend, NoOverlay)
      BY <2>1, LoadedIs
    <2>3. OverlaidBy({}, cfg, id) = NoOverlay
      BY OverlaidIs
    <2>4. a[id] = L(id).val
      OBVIOUS
    <2> HIDE DEF L, a
    <2> QED BY <2>2, <2>3, <2>4
  <1>3. DOMAIN a = ids
    OBVIOUS
  <1> HIDE DEF a, L
  <1> QED BY <1>1, <1>2, <1>3 DEF Team

LEMMA TeamOverlaid ==
  ASSUME NEW agents, NEW seeds, NEW dirs, NEW cfg, IsConfig(cfg), NEW model, NEW backend,
         NEW pairs, Team(agents, seeds, dirs, cfg, model, backend, {}),
         ApplyRoleOverlays(agents, pairs, cfg).ok
  PROVE  /\ DOMAIN ApplyRoleOverlays(agents, pairs, cfg).val = {"agents", "summaries"}
         /\ DOMAIN ApplyRoleOverlays(agents, pairs, cfg).val.agents = DOMAIN agents
         /\ Team(ApplyRoleOverlays(agents, pairs, cfg).val.agents,
                 seeds, dirs, cfg, model, backend, pairs)
  <1> DEFINE new == ApplyRoleOverlays(agents, pairs, cfg).val.agents
  <1>1. /\ DOMAIN ApplyRoleOverlays(agents, pairs, cfg).val = {"agents", "summaries"}
        /\ DOMAIN new = DOMAIN agents
        /\ \A id \in DOMAIN agents :
              new[id] = IF OverlaidBy(pairs, cfg, id) = NoOverlay THEN agents[id]
                        ELSE Merge(agents[id], OverlaidBy(pairs, cfg, id))
    BY OverlaysAre
  <1> HIDE DEF new
  <1>2. ASSUME NEW id \in DOMAIN new
        PROVE  AgentIs(new[id], id, seeds, dirs, cfg, model, backend, OverlaidBy(pairs, cfg, id))
    <2> DEFINE o == OverlaidBy(pairs, cfg, id)
    <2>1. AgentIs(agents[id], id, seeds, dirs, cfg, model, backend, NoOverlay)
      <3>1. OverlaidBy({}, cfg, id) = NoOverlay
        BY OverlaidIs
      <3> QED BY <1>1, <3>1 DEF Team
    <2>2. IsOverlay(o)
      BY OverlaidIs
    <2>3. CASE o = NoOverlay
      BY <1>1, <2>1, <2>3
    <2>4. CASE o # NoOverlay
      <3> HIDE DEF o
      <3>1. AgentIs(Merge(agents[id], o), id, seeds, dirs, cfg, model, backend, o)
        BY <2>1, <2>2, <2>4, MergeIs
      <3> QED BY <1>1, <2>4, <3>1 DEF o
    <2> QED BY <2>3, <2>4
  <1> QED BY <1>1, <1>2 DEF Team, new

\* What the caches of a run hold, and where that comes from.
Gathers(w, cfg, agents, guide, rules, skills, guided, skilled) ==
  /\ LoadGuideForTask(cfg.seeds, w.dirs, guided) = Ok(guide)
  /\ LoadRules(agents, cfg.seeds, w.dirs) = Ok(rules)
  /\ skilled => LoadSkills(agents, w.skills) = Ok(skills)
Informed(w, cfg, agents, guide, rules, skills, guided, skilled) ==
  /\ guide = IF guided /\ GuideSeed(cfg.seeds, w.dirs) # None
             THEN <<<<"guide", GuideSeed(cfg.seeds, w.dirs)>>>> ELSE <<>>
  /\ \A id \in DOMAIN agents : \A r \in ToSet(agents[id].rules) :
        r \in DOMAIN rules /\ rules[r] = RuleSeed(cfg.seeds, w.dirs, r) /\ rules[r] # None
  /\ Gathers(w, cfg, agents, guide, rules, skills, guided, skilled)
  /\ skilled => \A id \in DOMAIN agents : ToSet(agents[id].skills) \subseteq DOMAIN skills

LEMMA GuideIs ==
  ASSUME NEW seeds, IsSeeds(seeds), NEW dirs, LoadGuide(seeds, dirs).ok
  PROVE  LoadGuide(seeds, dirs).val = IF GuideSeed(seeds, dirs) # None
                                      THEN <<<<"guide", GuideSeed(seeds, dirs)>>>> ELSE <<>>
  <1> DEFINE having == {p \in DOMAIN dirs : dirs[p].guide}
             at == Find(seeds, having)
  <1>1. /\ at.ok
        /\ LoadGuide(seeds, dirs).val
             = IF at.val = 0 THEN <<>> ELSE <<<<"guide", seeds[at.val].path>>>>
    BY DEF LoadGuide, Ok, Err
  <1>2. GuideSeed(seeds, dirs) = SeedWith(seeds, having)
    BY DEF GuideSeed
  <1> HIDE DEF having
  <1>3. /\ at.val = 0 => SeedWith(seeds, having) = None
        /\ at.val # 0 => /\ seeds[at.val].path \in Word \ {None}
                         /\ SeedWith(seeds, having) = seeds[at.val].path
    BY <1>1, FindIs
  <1> HIDE DEF at
  <1> QED BY <1>1, <1>2, <1>3

LEMMA RulesAre ==
  ASSUME NEW agents, NEW seeds, IsSeeds(seeds), NEW dirs, LoadRules(agents, seeds, dirs).ok,
         NEW id \in DOMAIN agents, NEW r \in ToSet(agents[id].rules)
  PROVE  /\ r \in DOMAIN LoadRules(agents, seeds, dirs).val
         /\ LoadRules(agents, seeds, dirs).val[r] = RuleSeed(seeds, dirs, r)
         /\ RuleSeed(seeds, dirs, r) # None
  <1> DEFINE names == UNION {ToSet(agents[x].rules) : x \in DOMAIN agents}
             having(x) == {p \in DOMAIN dirs : x \in dirs[p].rules}
             At(x) == Find(seeds, having(x))
             val == [x \in names |-> seeds[At(x).val].path]
  <1>1. /\ \A x \in names : At(x).ok
        /\ \A x \in names : At(x).val # 0
        /\ LoadRules(agents, seeds, dirs).val = val
    BY DEF LoadRules, Ok, Err
  <1>2. r \in names
    OBVIOUS
  <1>3. val[r] = seeds[At(r).val].path /\ DOMAIN val = names
    BY <1>2
  <1>4. RuleSeed(seeds, dirs, r) = SeedWith(seeds, having(r))
    BY DEF RuleSeed
  <1> HIDE DEF val, names, having
  <1>5. At(r).ok /\ At(r).val # 0
    BY <1>1, <1>2
  <1>6. /\ SeedWith(seeds, having(r)) = seeds[At(r).val].path
        /\ seeds[At(r).val].path \in Word \ {None}
    BY <1>5, FindIs
  <1> QED BY <1>1, <1>2, <1>3, <1>4, <1>6

LEMMA GatheredIs ==
  ASSUME NEW w, NEW cfg, IsConfig(cfg), NEW agents, NEW guide, NEW guided \in BOOLEAN,
         NEW skilled \in BOOLEAN,
         guide = LoadGuideForTask(cfg.seeds, w.dirs, guided), guide.ok,
         LoadRules(agents, cfg.seeds, w.dirs).ok, NEW skills,
         skills = (IF skilled THEN LoadSkills(agents, w.skills) ELSE Ok(NoArgs)), skills.ok
  PROVE  Informed(w, cfg, agents, guide.val, LoadRules(agents, cfg.seeds, w.dirs).val,
                  skills.val, guided, skilled)
  <1>0. IsSeeds(cfg.seeds)
    BY DEF IsConfig
  <1>1. guide.val = IF guided /\ GuideSeed(cfg.seeds, w.dirs) # None
                    THEN <<<<"guide", GuideSeed(cfg.seeds, w.dirs)>>>> ELSE <<>>
    <2>1. CASE guided
      <3>1. guide = LoadGuide(cfg.seeds, w.dirs)
        BY <2>1 DEF LoadGuideForTask
      <3>2. guide.val = IF GuideSeed(cfg.seeds, w.dirs) # None
                        THEN <<<<"guide", GuideSeed(cfg.seeds, w.dirs)>>>> ELSE <<>>
        BY <1>0, <3>1, GuideIs
      <3> QED BY <2>1, <3>2
    <2>2. CASE ~guided
      BY <2>2 DEF LoadGuideForTask, Ok
    <2> QED BY <2>1, <2>2
  <1>2. \A id \in DOMAIN agents : \A r \in ToSet(agents[id].rules) :
           /\ r \in DOMAIN LoadRules(agents, cfg.seeds, w.dirs).val
           /\ LoadRules(agents, cfg.seeds, w.dirs).val[r] = RuleSeed(cfg.seeds, w.dirs, r)
           /\ RuleSeed(cfg.seeds, w.dirs, r) # None
    BY <1>0, RulesAre
  <1>3. ASSUME skilled, NEW id \in DOMAIN agents
        PROVE  ToSet(agents[id].skills) \subseteq DOMAIN skills.val
    <2>1. skills = LoadSkills(agents, w.skills)
      BY <1>3
    <2>2. DOMAIN skills.val = CollectSkillNames(agents)
      BY <2>1 DEF LoadSkills, Ok, Err
    <2> QED BY <2>2 DEF CollectSkillNames
  <1>4. Gathers(w, cfg, agents, guide.val, LoadRules(agents, cfg.seeds, w.dirs).val, skills.val,
                guided, skilled)
    <2>1. LoadGuideForTask(cfg.seeds, w.dirs, guided) = Ok(guide.val)
      BY ZenonT(40) DEF LoadGuideForTask, LoadGuide, Ok, Err
    <2>2. LoadRules(agents, cfg.seeds, w.dirs) = Ok(LoadRules(agents, cfg.seeds, w.dirs).val)
      BY Zenon DEF LoadRules, Ok, Err
    <2>3. skilled => LoadSkills(agents, w.skills) = Ok(skills.val)
      BY DEF LoadSkills, Ok, Err
    <2> QED BY ONLY <2>1, <2>2, <2>3 DEF Gathers
  <1> QED BY <1>1, <1>2, <1>3, <1>4 DEF Informed

---------------------------------------------------------------------------
(* Prompts, part by part.                                                   *)

SystemParts(agent, guide, rules, skills) ==
  ToSet(guide) \cup {<<"rule", r, rules[r]>> : r \in ToSet(agent.rules) \cap DOMAIN rules}
    \cup {<<"skill", n>> : n \in ToSet(agent.skills) \cap DOMAIN skills}
    \cup {<<"persona", agent.id, agent.path>>}

\* A sequence of these parts, all of them in it.
Holds(s, S, parts) == s \in Seq(S) /\ ToSet(s) = parts

LEMMA BothHold ==
  ASSUME NEW S, NEW a, NEW b, NEW A, NEW B, Holds(a, S, A), Holds(b, S, B)
  PROVE  Holds(a \o b, S, A \cup B)
  <1>1. a \in Seq(S) /\ b \in Seq(S) /\ ToSet(a) = A /\ ToSet(b) = B
    BY DEF Holds
  <1>2. a \o b \in Seq(S) /\ ToSet(a \o b) = ToSet(a) \cup ToSet(b)
    BY <1>1, Joined
  <1> QED BY <1>1, <1>2 DEF Holds

LEMMA NothingHolds ==
  ASSUME NEW S
  PROVE  Holds(<<>>, S, {})
  <1>1. <<>> \in Seq(S) /\ ToSet(<<>>) = {<<>>[k] : k \in 1 .. Len(<<>>)} /\ Len(<<>>) = 0
    BY EmptySeq, ElementsOf
  <1> QED BY <1>1 DEF Holds

LEMMA OneHolds ==
  ASSUME NEW S, NEW x \in S
  PROVE  Holds(<<x>>, S, {x})
  <1>1. <<x>> \in Seq(S) /\ ToSet(<<x>>) = {x}
    BY Singleton DEF ToSet
  <1> QED BY <1>1 DEF Holds

LEMMA ListHolds ==
  ASSUME NEW S, NEW n \in Nat, NEW f \in [1 .. n -> S], \A x \in S : \E i \in 1 .. n : x = f[i]
  PROVE  Holds(f, S, S)
  <1>1. f \in Seq(S) /\ Len(f) = n
    BY LenProperties
  <1>2. ToSet(f) = {f[i] : i \in 1 .. Len(f)}
    BY <1>1, ElementsOf
  <1>3. ToSet(f) = S
    BY <1>1, <1>2
  <1> QED BY <1>1, <1>3 DEF Holds

\* The set that the parts are taken from does not matter.
LEMMA HoldsIn ==
  ASSUME NEW s, NEW S, NEW parts, Holds(s, S, parts), NEW T, parts \subseteq T
  PROVE  Holds(s, T, parts)
  <1>1. s \in Seq(S) /\ ToSet(s) = parts
    BY DEF Holds
  <1>2. /\ Len(s) \in Nat /\ DOMAIN s = 1 .. Len(s) /\ ToSet(s) = {s[i] : i \in 1 .. Len(s)}
        /\ s = [i \in 1 .. Len(s) |-> s[i]]
    BY <1>1, LenProperties, ElementsOf
  <1>3. \A i \in 1 .. Len(s) : s[i] \in T
    BY <1>1, <1>2
  <1>4. s \in [1 .. Len(s) -> T]
    BY <1>2, <1>3
  <1>5. s \in Seq(T)
    BY <1>2, <1>4
  <1> QED BY <1>1, <1>5 DEF Holds

\* The parts that the members of a list bring in, one each or none.
EachIn(list, D1, f) == [i \in DOMAIN list |-> IF list[i] \in D1 THEN <<f[list[i]]>> ELSE <<>>]
PartsIn(list, D1, f) == {f[x] : x \in ToSet(list) \cap D1}

LEMMA OneEach ==
  ASSUME NEW S, NEW list \in Seq(S), NEW f, NEW D1
  PROVE  Holds(FlattenSeq(EachIn(list, D1, f)), PartsIn(list, D1, f), PartsIn(list, D1, f))
  <1> DEFINE n == Len(list)
             P == PartsIn(list, D1, f)
             ss == EachIn(list, D1, f)
  <1>1. /\ n \in Nat /\ DOMAIN list = 1 .. n /\ ToSet(list) = {list[i] : i \in 1 .. n}
    BY LenProperties, ElementsOf
  <1>2. \A x : x \in P <=> \E i \in 1 .. n : list[i] \in D1 /\ x = f[list[i]]
    BY <1>1 DEF PartsIn
  <1>0. \A i \in 1 .. n : ss[i] = IF list[i] \in D1 THEN <<f[list[i]]>> ELSE <<>>
    BY <1>1 DEF EachIn
  <1>4. ss = [k \in 1 .. n |-> ss[k]]
    BY <1>1 DEF EachIn
  <1> HIDE DEF P, n, ss
  <1>3. ASSUME NEW i \in 1 .. n
        PROVE  /\ ss[i] \in Seq(P)
               /\ \A x : x \in ToSet(ss[i]) <=> list[i] \in D1 /\ x = f[list[i]]
    <2>1. CASE list[i] \in D1
      <3>1. ss[i] = <<f[list[i]]>> /\ f[list[i]] \in P
        BY <1>0, <1>2, <2>1
      <3>2. <<f[list[i]]>> \in Seq(P) /\ ToSet(<<f[list[i]]>>) = {f[list[i]]}
        BY <3>1, Singleton DEF ToSet
      <3> QED BY <2>1, <3>1, <3>2
    <2>2. CASE list[i] \notin D1
      <3>1. ss[i] = <<>>
        BY <1>0, <2>2
      <3>2. <<>> \in Seq(P) /\ ToSet(<<>>) = {<<>>[k] : k \in 1 .. Len(<<>>)} /\ Len(<<>>) = 0
        BY EmptySeq, ElementsOf
      <3> QED BY <2>2, <3>1, <3>2
    <2> QED BY <2>1, <2>2
  <1>5. /\ FlattenSeq(ss) \in Seq(P)
        /\ \A x : x \in ToSet(FlattenSeq(ss)) <=> \E k \in 1 .. n : x \in ToSet(ss[k])
    BY <1>1, <1>3, <1>4, FlatElements
  <1>6. ToSet(FlattenSeq(ss)) = P
    <2>1. ASSUME NEW x PROVE x \in ToSet(FlattenSeq(ss)) => x \in P
      <3> SUFFICES ASSUME x \in ToSet(FlattenSeq(ss)) PROVE x \in P
        OBVIOUS
      <3>1. PICK k \in 1 .. n : x \in ToSet(ss[k])
        BY <1>5
      <3>2. list[k] \in D1 /\ x = f[list[k]]
        BY <1>3, <3>1
      <3> QED BY ONLY <1>2, <3>2
    <2>2. ASSUME NEW x PROVE x \in P => x \in ToSet(FlattenSeq(ss))
      <3> SUFFICES ASSUME x \in P PROVE x \in ToSet(FlattenSeq(ss))
        OBVIOUS
      <3>1. PICK k \in 1 .. n : list[k] \in D1 /\ x = f[list[k]]
        BY ONLY <1>2, x \in P
      <3>2. x \in ToSet(ss[k])
        BY <1>3, <3>1
      <3> QED BY <1>5, <3>2
    <2> QED BY ONLY <2>1, <2>2
  <1>7. Holds(FlattenSeq(ss), P, P)
    BY <1>5, <1>6 DEF Holds
  <1> QED BY <1>7 DEF P, ss

LEMMA SystemIs ==
  ASSUME NEW agent, agent.rules \in Seq(Word), agent.skills \in Seq(Word),
         NEW guide, NEW G, guide \in Seq(G), NEW rules, NEW skills
  PROVE  Holds(BuildSystemPrompt(agent, guide, rules, skills),
               SystemParts(agent, guide, rules, skills), SystemParts(agent, guide, rules, skills))
  <1> DEFINE P == SystemParts(agent, guide, rules, skills)
  <1> DEFINE f == [r \in DOMAIN rules |-> <<"rule", r, rules[r]>>]
             g == [n \in DOMAIN skills |-> <<"skill", n>>]
             rs == EachIn(agent.rules, DOMAIN rules, f)
             ks == EachIn(agent.skills, DOMAIN skills, g)
             R == PartsIn(agent.rules, DOMAIN rules, f)
             K == PartsIn(agent.skills, DOMAIN skills, g)
             me == <<"persona", agent.id, agent.path>>
             all == ((guide \o FlattenSeq(rs)) \o FlattenSeq(ks)) \o <<me>>
  <1>1. BuildSystemPrompt(agent, guide, rules, skills) = all
    <2>1. rs = [i \in DOMAIN agent.rules |->
                       IF agent.rules[i] \in DOMAIN rules
                       THEN <<<<"rule", agent.rules[i], rules[agent.rules[i]]>>>> ELSE <<>>]
      BY DEF EachIn
    <2>2. ks = [i \in DOMAIN agent.skills |->
                       IF agent.skills[i] \in DOMAIN skills
                       THEN <<<<"skill", agent.skills[i]>>>> ELSE <<>>]
      BY DEF EachIn
    <2> HIDE DEF rs, ks
    <2> QED BY <2>1, <2>2 DEF BuildSystemPrompt
  <1>2. P = ((ToSet(guide) \cup R) \cup K) \cup {me}
    BY DEF SystemParts, PartsIn
  <1> HIDE DEF f, g
  <1>3. Holds(FlattenSeq(rs), R, R)
    BY OneEach
  <1>4. Holds(FlattenSeq(ks), K, K)
    BY OneEach
  <1> DEFINE a == FlattenSeq(rs)
             b == FlattenSeq(ks)
             H == ToSet(guide)
  <1>5. Holds(guide, G, H) /\ Holds(a, R, R) /\ Holds(b, K, K)
    BY <1>3, <1>4 DEF Holds
  <1> HIDE DEF rs, ks, R, K, me, P, H
  <1>6. R \subseteq P /\ K \subseteq P /\ me \in P /\ H \subseteq P
    BY <1>2 DEF H
  <1>7. Holds(guide, P, H) /\ Holds(a, P, R) /\ Holds(b, P, K) /\ Holds(<<me>>, P, {me})
    <2> HIDE DEF a, b
    <2> QED BY <1>5, <1>6, HoldsIn, OneHolds
  <1>8. Holds(guide \o a, P, H \cup R)
    <2> HIDE DEF a, b
    <2> QED BY <1>7, BothHold
  <1>9. Holds((guide \o a) \o b, P, (H \cup R) \cup K)
    <2> HIDE DEF a, b
    <2> QED BY <1>7, <1>8, BothHold
  <1>10. Holds(all, P, ((H \cup R) \cup K) \cup {me})
    <2> DEFINE c == (guide \o a) \o b
    <2>1. Holds(c, P, (H \cup R) \cup K) /\ all = c \o <<me>>
      BY <1>9
    <2> HIDE DEF a, b, c, all
    <2> QED BY <2>1, <1>7, BothHold
  <1>11. P = ((H \cup R) \cup K) \cup {me}
    BY <1>2 DEF H
  <1> HIDE DEF all
  <1>12. Holds(BuildSystemPrompt(agent, guide, rules, skills), P, P)
    BY <1>1, <1>10, <1>11
  <1> QED BY <1>12 DEF P

TextParts(kind, text) == IF text = <<>> THEN {} ELSE {<<kind, text>>}

LEMMA PartHolds ==
  ASSUME NEW kind, NEW text, NEW P, TextParts(kind, text) \subseteq P
  PROVE  Holds(Part(kind, text), P, TextParts(kind, text))
  <1>1. CASE text = <<>>
    BY <1>1, NothingHolds DEF Part, TextParts
  <1>2. CASE text # <<>>
    <2> DEFINE x == <<kind, text>>
    <2>1. x \in P
      BY <1>2 DEF TextParts
    <2>2. Part(kind, text) = <<x>> /\ TextParts(kind, text) = {x}
      BY <1>2 DEF Part, TextParts
    <2> HIDE DEF x
    <2> QED BY <2>1, <2>2, OneHolds
  <1> QED BY <1>1, <1>2

UserParts(task, step) ==
  ({<<"task", task>>} \cup TextParts("step", step.task))
    \cup {<<"output of", n>> : n \in ToSet(step.input)}

LEMMA UserIs ==
  ASSUME NEW task, NEW step, step.input \in Seq(Nat)
  PROVE  Holds(BuildUserPrompt(task, step), UserParts(task, step), UserParts(task, step))
  <1> DEFINE P == UserParts(task, step)
             t == <<"task", task>>
             a == Part("step", step.task)
             A == TextParts("step", step.task)
             input == step.input
             N == Len(input)
             o == [i \in 1 .. N |-> <<"output of", input[i]>>]
             O == {<<"output of", n>> : n \in ToSet(input)}
  <1>1. /\ N \in Nat /\ DOMAIN input = 1 .. N /\ ToSet(input) = {input[i] : i \in 1 .. N}
    BY LenProperties, ElementsOf
  <1>2. BuildUserPrompt(task, step) = (<<t>> \o a) \o o /\ P = ({t} \cup A) \cup O
    BY <1>1 DEF BuildUserPrompt, UserParts
  <1>3. Holds(o, O, O)
    <2>1. o \in [1 .. N -> O] /\ \A x \in O : \E i \in 1 .. N : x = o[i]
      BY Zenon, <1>1
    <2> HIDE DEF o, O, N
    <2> QED BY <1>1, <2>1, ListHolds
  <1> HIDE DEF t, A, o, O, P
  <1>4. A \subseteq P /\ O \subseteq P /\ t \in P
    BY <1>2
  <1>5. Holds(a, P, A)
    BY <1>4, PartHolds DEF A
  <1> HIDE DEF a
  <1>6. Holds(o, P, O) /\ Holds(<<t>>, P, {t})
    BY <1>3, <1>4, HoldsIn, OneHolds
  <1>7. Holds(<<t>> \o a, P, {t} \cup A)
    BY <1>5, <1>6, BothHold
  <1>8. Holds((<<t>> \o a) \o o, P, ({t} \cup A) \cup O)
    BY <1>6, <1>7, BothHold
  <1>9. Holds(BuildUserPrompt(task, step), P, P)
    BY <1>2, <1>8
  <1> QED BY <1>9 DEF P

StateParts(task, state, prior) ==
  ((TextParts("task", task) \cup TextParts("step", state.task))
    \cup (IF prior = 0 THEN {} ELSE {<<"output of", prior>>})) \cup {<<"menu">>}

LEMMA StateUserIs ==
  ASSUME NEW task, NEW state, NEW prior
  PROVE  Holds(BuildStateUserPrompt(task, state, prior), StateParts(task, state, prior),
               StateParts(task, state, prior))
  <1> DEFINE P == StateParts(task, state, prior)
             a == Part("task", task)
             A == TextParts("task", task)
             b == Part("step", state.task)
             B == TextParts("step", state.task)
             x == <<"output of", prior>>
             o == IF prior = 0 THEN <<>> ELSE <<x>>
             O == IF prior = 0 THEN {} ELSE {x}
             m == <<"menu">>
  <1>1. /\ BuildStateUserPrompt(task, state, prior) = ((a \o b) \o o) \o <<m>>
        /\ P = ((A \cup B) \cup O) \cup {m}
    BY DEF BuildStateUserPrompt, StateParts
  <1> HIDE DEF x, A, B, m, P
  <1>2. A \subseteq P /\ B \subseteq P /\ m \in P /\ (prior # 0 => x \in P)
    BY <1>1
  <1>3. Holds(o, P, O)
    <2>1. CASE prior = 0
      BY <2>1, NothingHolds
    <2>2. CASE prior # 0
      BY <1>2, <2>2, OneHolds
    <2> QED BY <2>1, <2>2
  <1>4. Holds(a, P, A) /\ Holds(b, P, B)
    BY <1>2, PartHolds DEF A, B
  <1> HIDE DEF a, b, o, O
  <1>5. Holds(<<m>>, P, {m})
    BY <1>2, OneHolds
  <1>6. Holds(a \o b, P, A \cup B)
    BY <1>4, BothHold
  <1>7. Holds((a \o b) \o o, P, (A \cup B) \cup O)
    BY <1>3, <1>6, BothHold
  <1>8. Holds(((a \o b) \o o) \o <<m>>, P, ((A \cup B) \cup O) \cup {m})
    BY <1>5, <1>7, BothHold
  <1>9. Holds(BuildStateUserPrompt(task, state, prior), P, P)
    BY <1>1, <1>8
  <1> QED BY <1>9 DEF P

---------------------------------------------------------------------------
(* What every stage leaves to the next one, of a world w and a plan p.      *)

StepFields == {"id", "type", "agent", "role", "run", "task", "taskFile", "model", "backend",
               "extra", "agents", "turns", "timeout", "input", "needs", "final", "human"}
FlowFields == {"name", "shape", "ext", "sound", "version", "prompt", "promptFile", "model",
               "backend", "roles", "steps"}

\* The placeholders that values bring into a text after its turn.
FromValues(kind, values) == UNION {Names(kind, values[v]) : v \in DOMAIN values}
VarsBrought(w, cfg) ==
  FromValues("var", w.vars) \cup FromValues("var", cfg.vars) \cup FromValues("var", w.bare)
RolesBrought(w) == FromValues("role", w.bare)

\* Who the code has play a role of a linear flow: command line, bare argument,
\* flow file, project.
Player(w, raw, cfg, role) ==
    FirstOf(AgentLayers(w.overrides, role)
            \o <<IF role \in DOMAIN w.bare /\ role \in DOMAIN raw.roles
                 THEN w.bare[role][1][2] ELSE None,
                 IF role \in DOMAIN raw.roles THEN raw.roles[role] ELSE None,
                 ProjectRole(cfg, role).agent>>, None)

\* A flow that was asked for by name is in the first seed that has it, and a
\* Markdown file only if no seed has a YAML file.
HasFlow(w, seeds, j, n, ext) ==
  seeds[j].path \in DOMAIN w.dirs /\ <<n, ext>> \in DOMAIN w.dirs[seeds[j].path].flows
FoundAt(w, seeds, n, ext, k) ==
  /\ k \in DOMAIN seeds /\ seeds[k].kind = "local" /\ HasFlow(w, seeds, k, n, ext)
  /\ \A j \in 1 .. k - 1 : ~HasFlow(w, seeds, j, n, ext)
NamedIn(w, cfg, raw) ==
  w.source.kind = "name" =>
     \E k \in DOMAIN cfg.seeds, ext \in {"yaml", "md"} :
        /\ FoundAt(w, cfg.seeds, w.source.name, ext, k)
        /\ raw = w.dirs[cfg.seeds[k].path].flows[<<w.source.name, ext>>]
        /\ ext = "md" => \A j \in DOMAIN cfg.seeds :
                            ~HasFlow(w, cfg.seeds, j, w.source.name, "yaml")

\* The file was read once, whatever the project says of roles.
Readable(w, raw) == LoadAnyFromPath(raw, w.near).ok

\* Every state of an agent has one, from the command line or the project.
Employed(w, cfg, raw) ==
  \A i \in DOMAIN raw.steps : Staffed(raw.steps[i]) =>
     \/ AgentGiven(w.overrides, raw.steps[i].role) # None
     \/ raw.steps[i].role \in DOMAIN cfg.roles

Located(w, p) ==
  /\ IsConfig(p.cfg) /\ w.cmd = "run" /\ IsRawFlow(p.raw) /\ NamedIn(w, p.cfg, p.raw)
  /\ Brings(p.vars, "var", VarsBrought(w, p.cfg))

\* No stage changes these.
Steady(raw, flow) ==
  /\ DOMAIN flow = FlowFields /\ flow.shape = raw.shape
  /\ DOMAIN flow.steps = DOMAIN raw.steps
  /\ \A i \in DOMAIN raw.steps :
        /\ DOMAIN flow.steps[i] = StepFields
        /\ flow.steps[i].id = raw.steps[i].id /\ flow.steps[i].extra = raw.steps[i].extra
        /\ flow.steps[i].agents = raw.steps[i].agents
        /\ flow.steps[i].input = raw.steps[i].input

\* A state keeps its role until the roles are bound.
RoleKept(raw, flow) ==
  \A i \in DOMAIN raw.steps :
     /\ flow.steps[i].role = raw.steps[i].role
     /\ Staffed(flow.steps[i]) <=> Staffed(raw.steps[i])

\* A step with a role is a step of the agent that its flow has for the role.
RoleBound(raw, flow) ==
  \A i \in DOMAIN raw.steps :
     /\ flow.steps[i].role = raw.steps[i].role
     /\ raw.steps[i].role # None =>
           /\ raw.steps[i].agents = <<>> /\ raw.steps[i].role \in DOMAIN flow.roles
           /\ flow.steps[i].agent = flow.roles[raw.steps[i].role]

\* Who plays a role before the command line and the project have their say.
Declared(w, raw, cfg, r) ==
  IF r \in DOMAIN w.bare /\ r \in DOMAIN raw.roles THEN w.bare[r][1][2]
  ELSE IF r \in DOMAIN raw.roles THEN raw.roles[r] ELSE cfg.roles[r].agent
DeclaredRoles(w, raw, cfg, flow) ==
  \A r \in DOMAIN flow.roles :
     /\ flow.roles[r] = Declared(w, raw, cfg, r) /\ flow.roles[r] \in STRING \ {None}
     /\ r \in DOMAIN raw.roles \cup DOMAIN cfg.roles
PlayedRoles(w, raw, cfg, flow) ==
  \A r \in DOMAIN flow.roles :
     /\ flow.roles[r] = Player(w, raw, cfg, r) /\ flow.roles[r] \in STRING
     /\ r \in DOMAIN raw.roles \cup DOMAIN cfg.roles

Worded(flow) ==
  /\ flow.prompt \in Texts
  /\ \A i \in DOMAIN flow.steps : flow.steps[i].task \in Texts /\ flow.steps[i].run \in Texts

Clean(w, p) ==
  LET B == VarsBrought(w, p.cfg)
  IN /\ p.task \in Texts /\ Names("var", p.task) \subseteq B
     /\ Names("role", p.task) \subseteq RolesBrought(w)
     /\ \A i \in DOMAIN p.flow.steps :
           /\ Names("var", p.flow.steps[i].task) \subseteq B
           /\ Names("var", p.flow.steps[i].run) \subseteq B
           /\ Names("role", p.flow.steps[i].task) = {}
           /\ p.flow.shape = "linear" => Names("role", p.flow.steps[i].run) = {}

\* Steps run with what their file says, until the roles are bound to them.
Own(raw, flow) ==
  \A i \in DOMAIN raw.steps : /\ flow.steps[i].model = raw.steps[i].model
                              /\ flow.steps[i].backend = raw.steps[i].backend
BoundBy(raw, flow, audit) ==
  \A i \in DOMAIN raw.steps :
     LET s == flow.steps[i]
         t == raw.steps[i]
     IN /\ s.model = IF t.role # None /\ t.model = <<>> THEN audit[t.role].model ELSE t.model
        /\ s.backend = IF t.role # None /\ t.backend = None THEN audit[t.role].backend
                       ELSE t.backend

Staff(steps, agents) ==
  \A i \in DOMAIN steps :
     ~IsShell(steps[i]) => IF IsConversation(steps[i])
                           THEN ToSet(steps[i].agents) \subseteq DOMAIN agents
                           ELSE steps[i].agent \in DOMAIN agents
GraphStaff(steps, agents) ==
  \A i \in DOMAIN steps : Staffed(steps[i]) => steps[i].agent \in DOMAIN agents

Audits(w, p) ==
  \A i \in DOMAIN p.raw.steps :
     LET r == p.raw.steps[i].role
     IN r # None => p.audit[r] = ResolveCascade(r, p.flow.roles[r], p.agents[p.flow.roles[r]],
                                                p.cfg, w.overrides)

LinearFlow(w, p) ==
  /\ Located(w, p) /\ Readable(w, p.raw) /\ p.raw.shape = "linear"
  /\ Steady(p.raw, p.flow) /\ RoleBound(p.raw, p.flow)

Parsed(w, p) ==
  /\ LinearFlow(w, p) /\ DeclaredRoles(w, p.raw, p.cfg, p.flow) /\ Worded(p.flow)
  /\ Own(p.raw, p.flow) /\ Filled(p.flow.model, p.flow.backend, p.raw.model, p.raw.backend)
  /\ Brings(p.args, "var", VarsBrought(w, p.cfg)) /\ Brings(p.args, "role", RolesBrought(w))

Cascaded(w, p) ==
  /\ LinearFlow(w, p) /\ PlayedRoles(w, p.raw, p.cfg, p.flow) /\ Worded(p.flow)
  /\ Own(p.raw, p.flow) /\ Filled(p.flow.model, p.flow.backend, p.raw.model, p.raw.backend)
  /\ Brings(p.args, "var", VarsBrought(w, p.cfg)) /\ Brings(p.args, "role", RolesBrought(w))

Substituted(w, p) ==
  /\ LinearFlow(w, p) /\ PlayedRoles(w, p.raw, p.cfg, p.flow) /\ Clean(w, p)
  /\ Own(p.raw, p.flow) /\ Filled(p.flow.model, p.flow.backend, p.raw.model, p.raw.backend)

Crew(w, p, pairs) ==
  /\ Staff(p.flow.steps, p.agents)
  /\ Team(p.agents, p.cfg.seeds, w.dirs, p.cfg, p.raw.model, p.raw.backend, pairs)

Loaded(w, p) == Substituted(w, p) /\ Crew(w, p, {})
Layered(w, p) == Substituted(w, p) /\ Crew(w, p, RolePairs(p.flow.steps))
Audited(w, p) == Layered(w, p) /\ Audits(w, p)
BoundSteps(w, p) ==
  /\ LinearFlow(w, p) /\ PlayedRoles(w, p.raw, p.cfg, p.flow) /\ Clean(w, p)
  /\ Crew(w, p, RolePairs(p.flow.steps)) /\ Audits(w, p) /\ BoundBy(p.raw, p.flow, p.audit)
LinearStarted(w, p) ==
  /\ BoundSteps(w, p)
  /\ Informed(w, p.cfg, p.agents, p.guide, p.rules, p.skills, TRUE, TRUE)

Graph0(w, p) ==
  /\ Located(w, p) /\ Readable(w, p.raw) /\ p.raw.shape = "graph" /\ Steady(p.raw, p.flow)
GraphFound(w, p) == Graph0(w, p) /\ Worded(p.flow) /\ RoleKept(p.raw, p.flow)
GraphBound(w, p) ==
  /\ Graph0(w, p) /\ Worded(p.flow) /\ Employed(w, p.cfg, p.raw)
  /\ \A r \in DOMAIN p.flow.roles : p.flow.roles[r] \in STRING
GraphFilled(w, p) == Graph0(w, p) /\ Clean(w, p) /\ Employed(w, p.cfg, p.raw)
GraphLoaded(w, p) ==
  /\ GraphFilled(w, p) /\ GraphStaff(p.flow.steps, p.agents)
  /\ Team(p.agents, p.cfg.seeds, w.dirs, p.cfg, <<>>, None, RolePairs(p.flow.steps))
GraphStarted(w, p) ==
  /\ GraphLoaded(w, p)
  /\ Informed(w, p.cfg, p.agents, p.guide, p.rules, p.skills, TRUE, FALSE)

NamedLoaded(w, p) ==
  /\ IsConfig(p.cfg) /\ w.cmd \in {"task", "chat"} /\ p.task = w.task
  /\ p.flow = [shape |-> w.cmd, steps |-> TaskSteps(w.agents)]
  /\ DOMAIN p.agents = ToSet(w.agents)
  /\ Team(p.agents, p.cfg.seeds, w.dirs, p.cfg, <<>>, None, {})
  /\ w.cmd = "chat" => \A id \in DOMAIN p.agents : p.agents[id].backend # "api"
NamedStarted(w, p) ==
  /\ NamedLoaded(w, p)
  /\ Informed(w, p.cfg, p.agents, p.guide, p.rules, p.skills, w.include, TRUE)

Stages == {"begin", "refused", "locate", "named", "preflight", "parse", "cascade", "substitute",
           "load", "overlay", "audit", "bind", "context", "graph bind", "graph substitute",
           "graph load", "graph context", "named context", "started", "failed"}

\* What a stage finds when its turn comes.
Found(st, w, p) ==
  /\ st = "locate" => IsConfig(p.cfg) /\ w.cmd = "run"
  /\ st = "named" => IsConfig(p.cfg) /\ w.cmd \in {"task", "chat"}
  /\ st = "preflight" => Located(w, p)
  /\ st = "parse" => Located(w, p) /\ Readable(w, p.raw) /\ p.raw.shape = "linear"
  /\ st = "cascade" => Parsed(w, p)
  /\ st = "substitute" => Cascaded(w, p)
  /\ st = "load" => Substituted(w, p)
  /\ st = "overlay" => Loaded(w, p)
  /\ st = "audit" => Layered(w, p)
  /\ st = "bind" => Audited(w, p)
  /\ st = "context" => BoundSteps(w, p)
  /\ st = "graph bind" => GraphFound(w, p)
  /\ st = "graph substitute" => GraphBound(w, p)
  /\ st = "graph load" => GraphFilled(w, p)
  /\ st = "graph context" => GraphLoaded(w, p)
  /\ st = "named context" => NamedLoaded(w, p)
  /\ st \in {"started", "failed"} => LinearStarted(w, p) \/ GraphStarted(w, p) \/ NamedStarted(w, p)

---------------------------------------------------------------------------
(* The call that was last made, as the plan has it.                         *)

Called(step, id, argv, seed) ==
  call = [step |-> step.id, agent |-> id, argv |-> argv, seed |-> seed]

AgentCalled(i) ==
  LET s == plan.flow.steps[i]
      agent == plan.agents[s.agent]
      model == IF s.model # <<>> THEN s.model ELSE agent.model
      backend == IF s.backend # None THEN s.backend ELSE agent.backend
  IN /\ ~IsShell(s) /\ ~IsConversation(s) /\ plan.flow.shape \in {"linear", "task"}
     /\ Called(s, s.agent, BuildCommand(backend, model, System(agent),
                                        BuildUserPrompt(plan.task, s),
                                        ResolveExtraArgs(s, agent, backend)), <<>>)

ShellCalled(i) ==
  LET s == plan.flow.steps[i]
  IN /\ plan.flow.shape \in {"linear", "graph"}
     /\ Called(s, None, Flags(<<"sh", "-c">>) \o Text(<<<<"run", s.run>>>>), <<>>)

ConversationCalled(i) ==
  LET s == plan.flow.steps[i]
  IN /\ ~IsShell(s) /\ IsConversation(s) /\ plan.flow.shape = "linear"
     /\ \E id \in ToSet(s.agents) :
           LET agent == plan.agents[id]
           IN /\ agent.backend = "claude-cli"
              /\ Called(s, id, BuildClaudeInteractive(agent.model, System(agent),
                                   ResolveExtraArgs(BareStep, agent, "claude-cli")),
                        BuildUserPrompt(plan.task, s))

StateCalled(i) ==
  LET s == plan.flow.steps[i]
      agent == plan.agents[s.agent]
  IN /\ plan.flow.shape = "graph" /\ Staffed(s)
     /\ \E prior \in {0} \cup D!Ids(plan.flow.steps) :
           Called(s, s.agent, BuildCommand(agent.backend, agent.model, System(agent),
                                           BuildStateUserPrompt(plan.task, s, prior),
                                           ResolveExtraArgs(s, agent, agent.backend)), <<>>)

ChatCalled ==
  LET s == plan.flow.steps[1]
      agent == plan.agents[s.agent]
  IN /\ plan.flow.shape = "chat"
     /\ Called(s, s.agent, BuildChat(agent.backend, agent.model, System(agent),
                                     ResolveExtraArgs(s, agent, agent.backend)), <<>>)

CallIs ==
  \/ call = NoCall \/ ChatCalled
  \/ \E i \in DOMAIN plan.flow.steps :
        AgentCalled(i) \/ ShellCalled(i) \/ ConversationCalled(i) \/ StateCalled(i)

\* The inductive invariant.
SetupInv ==
  /\ world \in Worlds /\ DOMAIN plan = PlanFields /\ stage \in Stages
  /\ Found(stage, W, plan)
  /\ IF stage \in {"started", "failed"} THEN CallIs ELSE call = NoCall

---------------------------------------------------------------------------
(* Stage by stage.                                                          *)

LEMMA WorldIs ==
  ASSUME world \in Worlds
  PROVE  IsWorld(W)
  BY WorldAssumption DEF W

\* A stage that does not refuse the command adds to the plan.
LEMMA StageAdds ==
  ASSUME NEW from, NEW result, NEW to, Stage(from, result, to), stage' # "refused",
         DOMAIN plan = PlanFields, DOMAIN result.val \subseteq PlanFields
  PROVE  /\ stage = from /\ stage' = to /\ result.ok /\ world' = world /\ call' = call
         /\ DOMAIN plan' = PlanFields
         /\ \A f \in PlanFields : plan'[f] = IF f \in DOMAIN result.val THEN result.val[f]
                                             ELSE plan[f]
  BY DEF Stage, Over

LEMMA OverBrings ==
  ASSUME NEW f, NEW g, NEW kind, NEW B, Brings(f, kind, B), Brings(g, kind, B)
  PROVE  Brings(Over(f, g), kind, B)
  BY DEF Brings, Over

LEMMA ValuesBring ==
  ASSUME NEW values, \A v \in DOMAIN values : values[v] \in Texts, NEW kind, NEW B,
         FromValues(kind, values) \subseteq B
  PROVE  Brings(values, kind, B)
  BY DEF Brings, FromValues

LEMMA LoadProjectKeeps ==
  ASSUME world \in Worlds, DOMAIN plan = PlanFields, LoadProject, stage' # "refused"
  PROVE  /\ DOMAIN plan' = PlanFields /\ IsConfig(plan'.cfg) /\ world' = world /\ call' = call
         /\ stage = "begin" /\ stage' = IF W.cmd = "run" THEN "locate" ELSE "named"
  <1> DEFINE cfg == LoadOptional(W.files, W.dirs)
             result == IF cfg.ok THEN Ok([cfg |-> cfg.val]) ELSE Err
             to == IF W.cmd = "run" THEN "locate" ELSE "named"
  <1>1. Stage("begin", result, to)
    BY DEF LoadProject
  <1>2. result.ok
    BY <1>1 DEF Stage
  <1>3. cfg.ok /\ result = Ok([cfg |-> cfg.val])
    BY <1>2 DEF Err
  <1>4. DOMAIN result.val = {"cfg"} /\ result.val.cfg = cfg.val
    BY <1>3 DEF Ok
  <1>5. IsConfig(cfg.val)
    <2>1. DOMAIN W.files = 1 .. 3 /\ \A i \in 1 .. 3 : IsRawConfig(W.files[i])
      BY WorldIs DEF IsWorld
    <2> QED BY <1>3, <2>1, ConfigIs
  <1> HIDE DEF result, cfg, to
  <1>6. DOMAIN result.val \subseteq PlanFields /\ "cfg" \in PlanFields
    BY <1>4 DEF PlanFields
  <1>7. /\ stage = "begin" /\ stage' = to /\ result.ok /\ world' = world /\ call' = call
        /\ DOMAIN plan' = PlanFields
        /\ \A f \in PlanFields : plan'[f] = IF f \in DOMAIN result.val THEN result.val[f]
                                            ELSE plan[f]
    BY <1>1, <1>6, StageAdds
  <1> QED BY <1>4, <1>5, <1>6, <1>7 DEF to

LEMMA FlowsAre ==
  ASSUME IsWorld(W), IsConfig(plan.cfg), NEW f \in FlowsOf(W.source)
  PROVE  IsRawFlow(f)
  <1>1. /\ W.source.kind \in {"file", "name", "auto"} /\ IsRawFlow(W.source.flow)
        /\ \A p \in DOMAIN W.dirs : \A x \in DOMAIN W.dirs[p].flows : IsRawFlow(W.dirs[p].flows[x])
    BY DEF IsWorld, IsCommand
  <1>2. IsSeeds(Seeds)
    BY DEF IsConfig, Seeds
  <1>3. CASE W.source.kind = "file"
    BY <1>1, <1>3 DEF FlowsOf
  <1>4. CASE W.source.kind = "name"
    <2> DEFINE name == W.source.name
               Having(ext) == {p \in DOMAIN W.dirs : <<name, ext>> \in DOMAIN W.dirs[p].flows}
               At(ext) == Find(Seeds, Having(ext))
               Flow(ext) == W.dirs[Seeds[At(ext).val].path].flows[<<name, ext>>]
    <2>1. f \in NamedFlow(name)
      BY <1>4 DEF FlowsOf
    <2>2. PICK ext \in {"yaml", "md"} : At(ext).ok /\ At(ext).val # 0 /\ f = Flow(ext)
      BY Zenon, <2>1 DEF NamedFlow
    <2>3. Seeds[At(ext).val].path \in Having(ext)
      <3> HIDE DEF Having
      <3> QED BY <1>2, <2>2, FindIs
    <2> QED BY Zenon, <1>1, <2>2, <2>3
  <1>5. CASE W.source.kind = "auto"
    <2> DEFINE in == [i \in {j \in DOMAIN Seeds : /\ Seeds[j].kind = "local"
                                                 /\ Seeds[j].path \in DOMAIN W.dirs}
                        |-> W.dirs[Seeds[i].path].flows]
               names == UNION {{x[1] : x \in DOMAIN in[i]} : i \in DOMAIN in}
               having == {i \in DOMAIN in : DOMAIN in[i] # {}}
               first == CHOOSE i \in having : \A j \in having : i <= j
    <2>1. /\ Cardinality(names) = 1 /\ \E x \in DOMAIN in[first] : f = in[first][x]
      BY Zenon, <1>5 DEF FlowsOf, OnlyFlow
    <2>2. having # {}
      <3> SUFFICES ASSUME having = {} PROVE FALSE
        OBVIOUS
      <3>1. names = {}
        OBVIOUS
      <3>2. Cardinality({}) = 0
        BY FS_EmptySet
      <3>3. Cardinality(names) = 1
        BY Zenon, <2>1
      <3> HIDE DEF names
      <3> QED BY ONLY <3>1, <3>2, <3>3
    <2>3. having \subseteq Nat
      BY <1>2 DEF IsSeeds
    <2>4. first \in having
      <3> HIDE DEF having
      <3> QED BY <2>2, <2>3, Least
    <2>5. \A i \in DOMAIN in : Seeds[i].path \in DOMAIN W.dirs /\ in[i] = W.dirs[Seeds[i].path].flows
      OBVIOUS
    <2>6. first \in DOMAIN in
      BY Zenon, <2>4
    <2> HIDE DEF in, first
    <2> QED BY <1>1, <2>1, <2>5, <2>6
  <1> QED BY <1>1, <1>3, <1>4, <1>5

LEMMA FindNone ==
  ASSUME NEW seeds, NEW having, Find(seeds, having).ok, Find(seeds, having).val = 0,
         IsSeeds(seeds)
  PROVE  \A j \in DOMAIN seeds : seeds[j].path \notin having
  <1> DEFINE stops == {i \in DOMAIN seeds : seeds[i].kind = "remote" \/ seeds[i].path \in having}
             first == CHOOSE i \in stops : \A j \in stops : i <= j
  <1>1. DOMAIN seeds = 1 .. Len(seeds) /\ Len(seeds) \in Nat
    BY DEF IsSeeds
  <1>2. \A i : i \in stops <=> i \in DOMAIN seeds
                                /\ (seeds[i].kind = "remote" \/ seeds[i].path \in having)
    OBVIOUS
  <1>3. stops # {} => Find(seeds, having).val = first
    BY DEF Find, Ok, Err
  <1>4. stops \subseteq Nat
    BY <1>1
  <1> HIDE DEF stops
  <1>5. stops # {} => first \in stops
    BY Zenon, <1>4, Least
  <1> HIDE DEF first
  <1> QED BY <1>1, <1>2, <1>3, <1>5

LEMMA NamedInIs ==
  ASSUME IsConfig(plan.cfg), NEW f \in FlowsOf(W.source)
  PROVE  NamedIn(W, plan.cfg, f)
  <1> SUFFICES ASSUME W.source.kind = "name" PROVE NamedIn(W, plan.cfg, f)
    BY Zenon DEF NamedIn
  <1> DEFINE name == W.source.name
             Having(ext) == {p \in DOMAIN W.dirs : <<name, ext>> \in DOMAIN W.dirs[p].flows}
             At(ext) == Find(Seeds, Having(ext))
             Flow(ext) == W.dirs[Seeds[At(ext).val].path].flows[<<name, ext>>]
  <1>1. IsSeeds(Seeds) /\ Seeds = plan.cfg.seeds
    BY DEF IsConfig, Seeds
  <1>2. f \in NamedFlow(name)
    BY DEF FlowsOf
  <1>3. PICK ext \in {"yaml", "md"} :
           /\ At(ext).ok /\ At(ext).val # 0 /\ f = Flow(ext)
           /\ ext = "md" => At("yaml").ok /\ At("yaml").val = 0
    <2>1. \/ At("yaml").ok /\ At("yaml").val # 0 /\ f = Flow("yaml")
          \/ /\ At("md").ok /\ At("md").val # 0 /\ f = Flow("md")
             /\ At("yaml").ok /\ At("yaml").val = 0
      BY Zenon, <1>2 DEF NamedFlow
    <2> HIDE DEF At, Flow
    <2> QED BY <2>1
  <1>4. \A e, j : HasFlow(W, Seeds, j, name, e) <=> Seeds[j].path \in Having(e)
    BY DEF HasFlow
  <1>5. f = W.dirs[Seeds[At(ext).val].path].flows[<<name, ext>>]
    BY Zenon, <1>3
  <1> HIDE DEF Having, Flow
  <1> DEFINE k == At(ext).val
  <1>6. /\ k \in DOMAIN Seeds /\ Seeds[k].kind = "local" /\ Seeds[k].path \in Having(ext)
        /\ \A j \in 1 .. k - 1 : Seeds[j].kind = "local" /\ Seeds[j].path \notin Having(ext)
    BY <1>1, <1>3, FindIs
  <1>7. ext = "md" => \A j \in DOMAIN Seeds : Seeds[j].path \notin Having("yaml")
    BY <1>1, <1>3, FindNone
  <1>8. FoundAt(W, Seeds, name, ext, k)
    BY <1>4, <1>6 DEF FoundAt
  <1>9. ext = "md" => \A j \in DOMAIN Seeds : ~HasFlow(W, Seeds, j, name, "yaml")
    BY <1>4, <1>7
  <1> HIDE DEF k, At
  <1> QED BY ZenonT(40), <1>1, <1>5, <1>6, <1>8, <1>9 DEF NamedIn, k

LEMMA LocateKeeps ==
  ASSUME world \in Worlds, DOMAIN plan = PlanFields, IsConfig(plan.cfg), W.cmd = "run",
         Locate, stage' # "refused"
  PROVE  /\ DOMAIN plan' = PlanFields /\ Located(W, plan') /\ world' = world /\ call' = call
         /\ stage = "locate" /\ stage' = "preflight"
  <1>1. PICK f \in FlowsOf(W.source) :
           Stage("locate", Ok([raw |-> f, vars |-> Over(W.vars, plan.cfg.vars)]), "preflight")
    BY DEF Locate, Stage, Err
  <1> DEFINE vars == Over(W.vars, plan.cfg.vars)
             result == Ok([raw |-> f, vars |-> vars])
             B == VarsBrought(W, plan.cfg)
  <1>2. IsRawFlow(f)
    BY WorldIs, FlowsAre
  <1>3. Brings(vars, "var", B)
    <2>1. /\ \A v \in DOMAIN W.vars : W.vars[v] \in Texts
          /\ \A v \in DOMAIN plan.cfg.vars : plan.cfg.vars[v] \in Texts
      BY WorldIs DEF IsWorld, IsCommand, IsConfig
    <2>2. FromValues("var", W.vars) \subseteq B /\ FromValues("var", plan.cfg.vars) \subseteq B
      BY DEF VarsBrought
    <2> HIDE DEF B
    <2>3. Brings(W.vars, "var", B) /\ Brings(plan.cfg.vars, "var", B)
      BY <2>1, <2>2, ValuesBring
    <2> QED BY <2>3, OverBrings
  <1>4. DOMAIN result.val = {"raw", "vars"} /\ result.val.raw = f /\ result.val.vars = vars
    BY DEF Ok
  <1> HIDE DEF result, vars, B
  <1>5. DOMAIN result.val \subseteq PlanFields /\ {"cfg", "raw", "vars"} \subseteq PlanFields
    BY <1>4 DEF PlanFields
  <1>6. /\ stage = "locate" /\ stage' = "preflight" /\ world' = world /\ call' = call
        /\ DOMAIN plan' = PlanFields
        /\ \A x \in PlanFields : plan'[x] = IF x \in DOMAIN result.val THEN result.val[x]
                                            ELSE plan[x]
    BY <1>1, <1>5, StageAdds DEF result, vars
  <1>7. plan'.cfg = plan.cfg /\ plan'.raw = f /\ plan'.vars = vars
    BY <1>4, <1>5, <1>6
  <1>8. NamedIn(W, plan.cfg, f)
    BY NamedInIs
  <1> QED BY <1>2, <1>3, <1>6, <1>7, <1>8 DEF Located, B

\* What prompts in files of their own leave alone.
SameBut(raw, flow) ==
  /\ DOMAIN flow = FlowFields /\ DOMAIN flow.steps = DOMAIN raw.steps
  /\ \A x \in FlowFields \ {"prompt", "steps"} : flow[x] = raw[x]
  /\ \A i \in DOMAIN raw.steps :
        /\ DOMAIN flow.steps[i] = StepFields
        /\ \A x \in StepFields \ {"task"} : flow.steps[i][x] = raw.steps[i][x]

LEMMA PromptIs ==
  ASSUME NEW near, \A f \in DOMAIN near : near[f].text \in Texts, NEW value \in Texts, NEW file,
         ResolvePromptField(value, file, near).ok
  PROVE  ResolvePromptField(value, file, near).val \in Texts
  BY DEF ResolvePromptField, Ok, Err

LEMMA PromptsAre ==
  ASSUME NEW raw, IsRawFlow(raw), NEW near, \A f \in DOMAIN near : near[f].text \in Texts,
         ResolveExternalPrompts(raw, near).ok
  PROVE  /\ SameBut(raw, ResolveExternalPrompts(raw, near).val)
         /\ Worded(ResolveExternalPrompts(raw, near).val)
  <1> DEFINE prompt == ResolvePromptField(raw.prompt, raw.promptFile, near)
             Task(i) == ResolvePromptField(raw.steps[i].task, raw.steps[i].taskFile, near)
             steps == [i \in DOMAIN raw.steps |-> [raw.steps[i] EXCEPT !.task = Task(i).val]]
             flow == [raw EXCEPT !.prompt = prompt.val, !.steps = steps]
  <1>1. /\ prompt.ok /\ \A i \in DOMAIN raw.steps : Task(i).ok
        /\ ResolveExternalPrompts(raw, near).val = flow
    BY DEF ResolveExternalPrompts, Ok, Err
  <1>2. /\ DOMAIN raw = FlowFields /\ raw.prompt \in Texts
        /\ \A i \in DOMAIN raw.steps : /\ DOMAIN raw.steps[i] = StepFields
                                       /\ raw.steps[i].task \in Texts /\ raw.steps[i].run \in Texts
    BY DEF IsRawFlow, IsRawStep, FlowFields, StepFields
  <1>3. prompt.val \in Texts /\ \A i \in DOMAIN raw.steps : Task(i).val \in Texts
    BY <1>1, <1>2, PromptIs
  <1>4. {"prompt", "steps"} \subseteq FlowFields /\ {"task", "run"} \subseteq StepFields
    BY DEF FlowFields, StepFields
  <1> HIDE DEF prompt, Task
  <1>5. /\ DOMAIN steps = DOMAIN raw.steps
        /\ \A i \in DOMAIN raw.steps :
              /\ DOMAIN steps[i] = StepFields /\ steps[i].task = Task(i).val
              /\ \A x \in StepFields \ {"task"} : steps[i][x] = raw.steps[i][x]
    BY <1>2, <1>4
  <1> HIDE DEF steps
  <1>6. /\ DOMAIN flow = FlowFields /\ flow.prompt = prompt.val /\ flow.steps = steps
        /\ \A x \in FlowFields \ {"prompt", "steps"} : flow[x] = raw[x]
    BY <1>2, <1>4
  <1> HIDE DEF flow
  <1>7. SameBut(raw, flow)
    BY <1>5, <1>6 DEF SameBut
  <1>8. \A i \in DOMAIN raw.steps : steps[i].run = raw.steps[i].run
    BY <1>4, <1>5
  <1>9. Worded(flow)
    BY <1>2, <1>3, <1>5, <1>6, <1>8 DEF Worded
  <1> QED BY <1>1, <1>7, <1>9

LEMMA SteadyIs ==
  ASSUME NEW raw, NEW flow, SameBut(raw, flow)
  PROVE  Steady(raw, flow)
  <1>1. /\ "shape" \in FlowFields \ {"prompt", "steps"}
        /\ {"id", "extra", "agents", "input"} \subseteq StepFields \ {"task"}
    BY DEF FlowFields, StepFields
  <1> QED BY <1>1 DEF SameBut, Steady

LEMMA RoleKeptIs ==
  ASSUME NEW raw, NEW flow, SameBut(raw, flow)
  PROVE  RoleKept(raw, flow)
  <1>1. {"role", "final", "human", "run"} \subseteq StepFields \ {"task"}
    BY DEF StepFields
  <1>2. \A i \in DOMAIN raw.steps :
           /\ flow.steps[i].role = raw.steps[i].role /\ flow.steps[i].run = raw.steps[i].run
           /\ flow.steps[i].final = raw.steps[i].final
           /\ flow.steps[i].human = raw.steps[i].human
    BY <1>1 DEF SameBut
  <1> QED BY <1>2 DEF RoleKept, Staffed, IsShell

LEMMA PreflightKeeps ==
  ASSUME world \in Worlds, DOMAIN plan = PlanFields, Located(W, plan),
         Preflight, stage' # "refused"
  PROVE  /\ DOMAIN plan' = PlanFields /\ world' = world /\ call' = call /\ stage = "preflight"
         /\ \/ stage' = "graph bind" /\ GraphFound(W, plan')
            \/ /\ stage' = "parse" /\ Located(W, plan') /\ Readable(W, plan'.raw)
               /\ plan'.raw.shape = "linear"
  <1> DEFINE raw == plan.raw
             any == LoadAnyFromPath(raw, W.near)
             result == IF any.ok THEN Ok([flow |-> any.val]) ELSE Err
             to == IF Shape(raw) = "graph" THEN "graph bind" ELSE "parse"
  <1>1. Stage("preflight", result, to)
    BY Zenon DEF Preflight
  <1>2. result.ok
    BY Zenon, <1>1 DEF Stage
  <1>3. any.ok /\ result = Ok([flow |-> any.val])
    BY <1>2 DEF Err
  <1>4. DOMAIN result.val = {"flow"} /\ result.val.flow = any.val
    BY <1>3 DEF Ok
  <1>5. /\ IsRawFlow(raw) /\ (raw.ext = "md" => raw.shape = "graph")
        /\ \A f \in DOMAIN W.near : W.near[f].text \in Texts
    BY Zenon, WorldIs DEF Located, IsRawFlow, IsWorld
  <1>6. Shape(raw) = raw.shape
    BY <1>5 DEF Shape
  <1>7. ASSUME raw.shape = "graph" PROVE SameBut(raw, any.val) /\ Worded(any.val)
    <2>1. any = LoadGraph(raw, W.near)
      BY <1>7 DEF LoadAnyFromPath
    <2>2. any.val = raw \/ (/\ ResolveExternalPrompts(raw, W.near).ok
                            /\ any.val = ResolveExternalPrompts(raw, W.near).val)
      BY <1>3, <2>1 DEF LoadGraph, Ok, Err
    <2>3. SameBut(raw, raw) /\ Worded(raw)
      BY <1>5 DEF IsRawFlow, IsRawStep, SameBut, Worded, FlowFields, StepFields
    <2> HIDE DEF raw, any
    <2> QED BY <1>5, <2>2, <2>3, PromptsAre
  <1>8. raw.shape # "graph" => raw.shape = "linear"
    BY <1>3, <1>5 DEF LoadAnyFromPath, Err
  <1>15. Readable(W, raw)
    BY <1>3 DEF Readable
  <1> HIDE DEF result, to, any
  <1>9. DOMAIN result.val \subseteq PlanFields /\ {"cfg", "raw", "vars", "flow"} \subseteq PlanFields
    BY <1>4 DEF PlanFields
  <1>10. /\ stage = "preflight" /\ stage' = to /\ world' = world /\ call' = call
         /\ DOMAIN plan' = PlanFields
         /\ \A x \in PlanFields : plan'[x] = IF x \in DOMAIN result.val THEN result.val[x]
                                             ELSE plan[x]
    BY <1>1, <1>9, StageAdds
  <1>11. /\ plan'.cfg = plan.cfg /\ plan'.raw = raw /\ plan'.vars = plan.vars
         /\ plan'.flow = any.val
    BY <1>4, <1>9, <1>10
  <1>12. Located(W, plan')
    BY <1>11 DEF Located
  <1>13. CASE raw.shape = "graph"
    <2>1. Steady(raw, any.val) /\ RoleKept(raw, any.val)
      BY <1>7, <1>13, SteadyIs, RoleKeptIs
    <2> HIDE DEF raw
    <2>2. GraphFound(W, plan') /\ to = "graph bind"
      BY <1>6, <1>7, <1>11, <1>12, <1>13, <1>15, <2>1 DEF GraphFound, Graph0, to
    <2> QED BY Zenon, <1>10, <2>2
  <1>14. CASE raw.shape # "graph"
    <2>1. to = "parse"
      BY <1>6, <1>14 DEF to
    <2> QED BY <1>8, <1>10, <1>11, <1>12, <1>14, <1>15, <2>1
  <1> QED BY Zenon, <1>13, <1>14

---------------------------------------------------------------------------
(* Layers upon layers: the first that says something, of the first list that *)
(* has one.                                                                  *)

LEMMA FirstOfJoined ==
  ASSUME NEW S, NEW a \in Seq(S), NEW b \in Seq(S), NEW unset
  PROVE  /\ (\A i \in 1 .. Len(a) : a[i] = unset) => FirstOf(a \o b, unset) = FirstOf(b, unset)
         /\ (\E i \in 1 .. Len(a) : a[i] # unset) => /\ FirstOf(a \o b, unset) = FirstOf(a, unset)
                                                     /\ FirstOf(a, unset) # unset
  <1> DEFINE M == Len(a)
             N == Len(b)
             c == a \o b
  <1>1. /\ M \in Nat /\ N \in Nat /\ DOMAIN a = 1 .. M /\ DOMAIN b = 1 .. N
        /\ DOMAIN c = 1 .. M + N /\ M + N \in Nat
        /\ \A i \in 1 .. M + N : c[i] = IF i <= M THEN a[i] ELSE b[i - M]
    BY ConcatProperties, LenProperties
  <1> HIDE DEF M, N, c
  <1>2. /\ (\A i \in 1 .. M + N : c[i] = unset) => FirstOf(c, unset) = unset
        /\ \A i \in 1 .. M + N : c[i] # unset /\ (\A j \in 1 .. i - 1 : c[j] = unset)
              => FirstOf(c, unset) = c[i]
    BY <1>1, FirstOfIs
  <1>3. /\ (\A i \in 1 .. N : b[i] = unset) => FirstOf(b, unset) = unset
        /\ \A i \in 1 .. N : b[i] # unset /\ (\A j \in 1 .. i - 1 : b[j] = unset)
              => FirstOf(b, unset) = b[i]
    BY <1>1, FirstOfIs
  <1>4. \A i \in 1 .. M : a[i] # unset /\ (\A j \in 1 .. i - 1 : a[j] = unset)
              => FirstOf(a, unset) = a[i]
    BY <1>1, FirstOfIs
  <1>5. ASSUME \A i \in 1 .. M : a[i] = unset
        PROVE  FirstOf(c, unset) = FirstOf(b, unset)
    <2> DEFINE T == {i \in 1 .. N : b[i] # unset}
    <2>1. CASE T = {}
      <3>1. \A i \in 1 .. N : b[i] = unset
        BY <2>1
      <3>2. \A i \in 1 .. M + N : c[i] = unset
        <4> SUFFICES ASSUME NEW i \in 1 .. M + N PROVE c[i] = unset
          OBVIOUS
        <4>1. CASE i <= M
          BY <1>1, <1>5, <4>1
        <4>2. CASE i > M
          <5>1. i - M \in 1 .. N
            BY <1>1, <4>2
          <5> QED BY <1>1, <3>1, <4>2, <5>1
        <4> QED BY <1>1, <4>1, <4>2
      <3> QED BY <1>2, <1>3, <3>1, <3>2
    <2>2. CASE T # {}
      <3>1. T \subseteq Nat
        BY <1>1
      <3>2. PICK k \in T : \A m \in T : k <= m
        BY <2>2, <3>1, Least
      <3>3. k \in 1 .. N /\ b[k] # unset /\ \A j \in 1 .. k - 1 : b[j] = unset
        <4>1. k \in 1 .. N /\ b[k] # unset
          BY <3>2
        <4>2. ASSUME NEW j \in 1 .. k - 1, b[j] # unset PROVE FALSE
          <5>1. j \in T /\ j < k
            BY <1>1, <4>1, <4>2
          <5> QED BY <3>1, <3>2, <5>1
        <4> QED BY <4>1, <4>2
      <3>4. M + k \in 1 .. M + N /\ c[M + k] = b[k]
        <4>1. M + k \in 1 .. M + N /\ ~ (M + k <= M) /\ (M + k) - M = k
          BY <1>1, <3>3
        <4> QED BY <1>1, <4>1
      <3>5. \A j \in 1 .. (M + k) - 1 : c[j] = unset
        <4> SUFFICES ASSUME NEW j \in 1 .. (M + k) - 1 PROVE c[j] = unset
          OBVIOUS
        <4>0. j \in 1 .. M + N
          BY <1>1, <3>3
        <4>1. CASE j <= M
          BY <1>1, <1>5, <4>0, <4>1
        <4>2. CASE j > M
          <5>1. j - M \in 1 .. k - 1
            BY <1>1, <3>3, <4>2
          <5> QED BY <1>1, <3>3, <4>0, <4>2, <5>1
        <4> QED BY <1>1, <4>1, <4>2
      <3>6. FirstOf(c, unset) = c[M + k]
        BY <1>2, <3>3, <3>4, <3>5
      <3> QED BY <1>3, <3>3, <3>4, <3>6
    <2> QED BY <2>1, <2>2
  <1>6. ASSUME \E i \in 1 .. M : a[i] # unset
        PROVE  FirstOf(c, unset) = FirstOf(a, unset) /\ FirstOf(a, unset) # unset
    <2> DEFINE T == {i \in 1 .. M : a[i] # unset}
    <2>1. T \subseteq Nat /\ T # {}
      BY <1>1, <1>6
    <2>2. PICK k \in T : \A m \in T : k <= m
      BY <2>1, Least
    <2>3. k \in 1 .. M /\ a[k] # unset /\ \A j \in 1 .. k - 1 : a[j] = unset
      <3>1. k \in 1 .. M /\ a[k] # unset
        BY <2>2
      <3>2. ASSUME NEW j \in 1 .. k - 1, a[j] # unset PROVE FALSE
        <4>1. j \in T /\ j < k
          BY <1>1, <3>1, <3>2
        <4> QED BY <2>1, <2>2, <4>1
      <3> QED BY <3>1, <3>2
    <2>4. k \in 1 .. M + N /\ c[k] = a[k]
      BY <1>1, <2>3
    <2>5. \A j \in 1 .. k - 1 : c[j] = unset
      BY <1>1, <2>3
    <2> QED BY <1>2, <1>4, <2>3, <2>4, <2>5
  <1> QED BY <1>5, <1>6 DEF M, c

\* Where a list says something.
Said(s, unset, given) == \A i : i \in given <=> i \in 1 .. Len(s) /\ s[i] # unset

LEMMA FirstOfReversed ==
  ASSUME NEW S, NEW s \in Seq(S), NEW unset, NEW given, Said(s, unset, given)
  PROVE  /\ Reverse(s) \in Seq(S) /\ Len(Reverse(s)) = Len(s)
         /\ FirstOf(Reverse(s), unset) = IF given = {} THEN unset ELSE s[Max(given)]
         /\ (\A i \in 1 .. Len(Reverse(s)) : Reverse(s)[i] = unset) <=> given = {}
  <1> DEFINE n == Len(s)
             r == Reverse(s)
  <1>1. n \in Nat /\ DOMAIN s = 1 .. n /\ \A i \in 1 .. n : s[i] \in S
    BY LenProperties
  <1>2. r = [i \in 1 .. n |-> s[(n - i) + 1]]
    BY DEF Reverse
  <1>3. DOMAIN r = 1 .. n /\ \A i \in 1 .. n : r[i] = s[(n - i) + 1]
    BY <1>2
  <1>4. r \in Seq(S) /\ Len(r) = n
    <2>1. r \in [1 .. n -> S]
      BY <1>1, <1>2
    <2> HIDE DEF r
    <2> QED BY <1>1, <2>1, LenProperties
  <1>0. \A i : i \in given <=> i \in 1 .. n /\ s[i] # unset
    BY DEF Said
  <1>5. given \subseteq 1 .. n
    BY <1>0
  <1> HIDE DEF n, r
  <1>6. /\ (\A i \in 1 .. n : r[i] = unset) => FirstOf(r, unset) = unset
        /\ \A i \in 1 .. n : r[i] # unset /\ (\A j \in 1 .. i - 1 : r[j] = unset)
              => FirstOf(r, unset) = r[i]
    <2>1. n \in Nat /\ DOMAIN r = 1 .. n
      BY <1>1, <1>3
    <2> QED BY ONLY <2>1, FirstOfIs
  <1>7. CASE given = {}
    <2>1. \A i \in 1 .. n : r[i] = unset
      <3> SUFFICES ASSUME NEW i \in 1 .. n PROVE r[i] = unset
        OBVIOUS
      <3>1. (n - i) + 1 \in 1 .. n
        BY <1>1
      <3> QED BY <1>0, <1>3, <1>7, <3>1
    <2> QED BY <1>4, <1>6, <1>7, <2>1 DEF n, r
  <1>8. CASE given # {}
    <2> DEFINE m == Max(given)
    <2>1. m \in given /\ \A k \in given : m >= k
      BY <1>1, <1>5, <1>8, MaxIs
    <2>2. m \in 1 .. n /\ s[m] # unset
      BY <1>0, <2>1
    <2> HIDE DEF m
    <2> DEFINE i == (n - m) + 1
    <2>3. i \in 1 .. n /\ (n - i) + 1 = m
      BY <1>1, <2>2
    <2>4. r[i] = s[m]
      BY <1>3, <2>3
    <2>5. \A j \in 1 .. i - 1 : r[j] = unset
      <3> SUFFICES ASSUME NEW j \in 1 .. i - 1, r[j] # unset PROVE FALSE
        OBVIOUS
      <3>1. j \in 1 .. n /\ (n - j) + 1 \in 1 .. n /\ (n - j) + 1 > m
        BY <1>1, <2>2, <2>3
      <3>2. (n - j) + 1 \in given
        BY <1>0, <1>3, <3>1
      <3> QED BY <1>1, <2>1, <2>2, <3>1, <3>2
    <2>6. FirstOf(r, unset) = s[m]
      BY <1>6, <2>2, <2>3, <2>4, <2>5
    <2> QED BY <1>4, <1>8, <2>2, <2>3, <2>4, <2>6 DEF n, r, m
  <1> QED BY <1>7, <1>8

\* Overrides as the command line has them.
IsOverrides(overrides) ==
  overrides \in Seq([role : STRING, agent : STRING, model : Seq(STRING),
                     backend : Policies \cup {None}])

LEMMA ListIs ==
  ASSUME NEW S, NEW n \in Nat, NEW f \in [1 .. n -> S]
  PROVE  f \in Seq(S) /\ Len(f) = n
  BY LenProperties

LEMMA LayersAre ==
  ASSUME NEW overrides, IsOverrides(overrides), NEW role
  PROVE  /\ AgentLayers(overrides, role) \in Seq(Word)
         /\ ModelLayers(overrides, role) \in Seq(Seq(Word))
         /\ BackendLayers(overrides, role) \in Seq(Policies \cup {None})
         /\ Len(AgentLayers(overrides, role)) = Len(overrides)
         /\ Len(ModelLayers(overrides, role)) = Len(overrides)
         /\ Len(BackendLayers(overrides, role)) = Len(overrides)
         /\ Len(overrides) \in Nat /\ DOMAIN overrides = 1 .. Len(overrides)
         /\ \A i \in 1 .. Len(overrides) :
               /\ overrides[i].agent \in STRING /\ overrides[i].model \in Seq(Word)
               /\ overrides[i].backend \in Policies \cup {None}
               /\ AgentLayers(overrides, role)[i]
                    = IF overrides[i].role = role THEN overrides[i].agent ELSE None
               /\ ModelLayers(overrides, role)[i]
                    = IF overrides[i].role = role THEN overrides[i].model ELSE <<>>
               /\ BackendLayers(overrides, role)[i]
                    = IF overrides[i].role = role THEN overrides[i].backend ELSE None
  <1> DEFINE n == Len(overrides)
             a == AgentLayers(overrides, role)
             m == ModelLayers(overrides, role)
             b == BackendLayers(overrides, role)
  <1>1. /\ n \in Nat /\ DOMAIN overrides = 1 .. n
        /\ \A i \in 1 .. n : overrides[i] \in [role : STRING, agent : STRING, model : Seq(STRING),
                                               backend : Policies \cup {None}]
    BY LenProperties DEF IsOverrides
  <1>2. STRING \subseteq Word /\ None \in Word
    BY DEF Word, None
  <1>3. \A s \in Seq(STRING) : s \in Seq(Word)
    BY <1>2, Widen
  <1>4. \A i \in 1 .. n : /\ overrides[i].agent \in STRING /\ overrides[i].model \in Seq(Word)
                          /\ overrides[i].backend \in Policies \cup {None}
    BY <1>1, <1>3
  <1>5. <<>> \in Seq(Word)
    BY EmptySeq
  <1> HIDE DEF n
  <1>6. /\ a \in [1 .. n -> Word] /\ m \in [1 .. n -> Seq(Word)]
        /\ b \in [1 .. n -> Policies \cup {None}]
    BY <1>1, <1>2, <1>4, <1>5 DEF AgentLayers, ModelLayers, BackendLayers
  <1>7. \A i \in 1 .. n :
           /\ a[i] = IF overrides[i].role = role THEN overrides[i].agent ELSE None
           /\ m[i] = IF overrides[i].role = role THEN overrides[i].model ELSE <<>>
           /\ b[i] = IF overrides[i].role = role THEN overrides[i].backend ELSE None
    BY <1>1 DEF AgentLayers, ModelLayers, BackendLayers
  <1> HIDE DEF a, m, b
  <1>8. /\ a \in Seq(Word) /\ m \in Seq(Seq(Word)) /\ b \in Seq(Policies \cup {None})
        /\ Len(a) = n /\ Len(m) = n /\ Len(b) = n
    BY <1>1, <1>6, ListIs
  <1> QED BY <1>1, <1>4, <1>7, <1>8 DEF n, a, m, b

LEMMA GivenAre ==
  ASSUME NEW overrides, IsOverrides(overrides), NEW role
  PROVE  /\ AgentGiven(overrides, role) \in STRING \cup {None}
         /\ AgentGiven(overrides, role) = FirstOf(AgentLayers(overrides, role), None)
         /\ (\A i \in 1 .. Len(AgentLayers(overrides, role)) :
                AgentLayers(overrides, role)[i] = None) <=> AgentGiven(overrides, role) = None
         /\ Reverse(ModelLayers(overrides, role)) \in Seq(Seq(Word))
         /\ ModelGiven(overrides, role) \in Seq(Word)
         /\ ModelGiven(overrides, role) = FirstOf(Reverse(ModelLayers(overrides, role)), <<>>)
         /\ (\A i \in 1 .. Len(Reverse(ModelLayers(overrides, role))) :
                Reverse(ModelLayers(overrides, role))[i] = <<>>)
               <=> ModelGiven(overrides, role) = <<>>
         /\ Reverse(BackendLayers(overrides, role)) \in Seq(Policies \cup {None})
         /\ BackendGiven(overrides, role) \in Policies \cup {None}
         /\ BackendGiven(overrides, role) = FirstOf(Reverse(BackendLayers(overrides, role)), None)
         /\ (\A i \in 1 .. Len(Reverse(BackendLayers(overrides, role))) :
                Reverse(BackendLayers(overrides, role))[i] = None)
               <=> BackendGiven(overrides, role) = None
  <1> DEFINE n == Len(overrides)
             a == AgentLayers(overrides, role)
             m == ModelLayers(overrides, role)
             b == BackendLayers(overrides, role)
             A == {i \in Given(overrides, role) : overrides[i].agent # None}
             M == {i \in Given(overrides, role) : overrides[i].model # <<>>}
             B == {i \in Given(overrides, role) : overrides[i].backend # None}
  <1>1. /\ a \in Seq(Word) /\ m \in Seq(Seq(Word)) /\ b \in Seq(Policies \cup {None})
        /\ Len(a) = n /\ Len(m) = n /\ Len(b) = n
        /\ n \in Nat /\ DOMAIN overrides = 1 .. n
        /\ \A i \in 1 .. n :
              /\ overrides[i].agent \in STRING /\ overrides[i].model \in Seq(Word)
              /\ overrides[i].backend \in Policies \cup {None}
              /\ a[i] = IF overrides[i].role = role THEN overrides[i].agent ELSE None
              /\ m[i] = IF overrides[i].role = role THEN overrides[i].model ELSE <<>>
              /\ b[i] = IF overrides[i].role = role THEN overrides[i].backend ELSE None
    BY SMTT(40), LayersAre
  <1>2. /\ \A i : i \in A <=> i \in 1 .. n /\ overrides[i].role = role /\ overrides[i].agent # None
        /\ \A i : i \in M <=> i \in 1 .. n /\ overrides[i].role = role /\ overrides[i].model # <<>>
        /\ \A i : i \in B <=> i \in 1 .. n /\ overrides[i].role = role
                                /\ overrides[i].backend # None
    BY <1>1 DEF Given
  <1>3. /\ AgentGiven(overrides, role) = IF A = {} THEN None ELSE overrides[Min(A)].agent
        /\ ModelGiven(overrides, role) = IF M = {} THEN <<>> ELSE overrides[Max(M)].model
        /\ BackendGiven(overrides, role) = IF B = {} THEN None ELSE overrides[Max(B)].backend
    BY DEF AgentGiven, ModelGiven, BackendGiven
  <1> HIDE DEF n, a, m, b, A, M, B
  <1>4. /\ \A i : i \in A <=> i \in 1 .. Len(a) /\ a[i] # None
        /\ \A i : i \in M <=> i \in 1 .. Len(m) /\ m[i] # <<>>
        /\ \A i : i \in B <=> i \in 1 .. Len(b) /\ b[i] # None
    <2>1. /\ Len(a) = n /\ Len(m) = n /\ Len(b) = n
          /\ \A i \in 1 .. n :
                /\ a[i] = IF overrides[i].role = role THEN overrides[i].agent ELSE None
                /\ m[i] = IF overrides[i].role = role THEN overrides[i].model ELSE <<>>
                /\ b[i] = IF overrides[i].role = role THEN overrides[i].backend ELSE None
      BY <1>1
    <2>2. \A i : i \in A <=> i \in 1 .. Len(a) /\ a[i] # None
      BY ONLY <1>2, <2>1
    <2>3. \A i : i \in M <=> i \in 1 .. Len(m) /\ m[i] # <<>>
      BY ONLY <1>2, <2>1
    <2>4. \A i : i \in B <=> i \in 1 .. Len(b) /\ b[i] # None
      BY ONLY <1>2, <2>1
    <2> QED BY ONLY <2>2, <2>3, <2>4
  <1>5. /\ Reverse(m) \in Seq(Seq(Word))
        /\ FirstOf(Reverse(m), <<>>) = (IF M = {} THEN <<>> ELSE m[Max(M)])
        /\ (\A i \in 1 .. Len(Reverse(m)) : Reverse(m)[i] = <<>>) <=> M = {}
    <2>1. Said(m, <<>>, M)
      BY <1>4 DEF Said
    <2>2. m \in Seq(Seq(Word))
      BY <1>1
    <2> QED BY ONLY <2>1, <2>2, FirstOfReversed
  <1>6. /\ Reverse(b) \in Seq(Policies \cup {None})
        /\ FirstOf(Reverse(b), None) = (IF B = {} THEN None ELSE b[Max(B)])
        /\ (\A i \in 1 .. Len(Reverse(b)) : Reverse(b)[i] = None) <=> B = {}
    <2>1. Said(b, None, B)
      BY <1>4 DEF Said
    <2>2. b \in Seq(Policies \cup {None})
      BY <1>1
    <2> QED BY ONLY <2>1, <2>2, FirstOfReversed
  <1>7. /\ M # {} => Max(M) \in M
        /\ B # {} => Max(B) \in B
        /\ A # {} => Min(A) \in A
    <2>1. M \subseteq 1 .. n /\ B \subseteq 1 .. n /\ A \subseteq Nat
      BY <1>1, <1>2
    <2> QED BY <1>1, <2>1, MinIs, MaxIs
  <1>8. /\ ModelGiven(overrides, role) = FirstOf(Reverse(m), <<>>)
        /\ ModelGiven(overrides, role) \in Seq(Word)
        /\ (M = {} <=> ModelGiven(overrides, role) = <<>>)
    <2>1. <<>> \in Seq(Word)
      BY EmptySeq
    <2> QED BY <1>1, <1>2, <1>3, <1>5, <1>7, <2>1
  <1>9. /\ BackendGiven(overrides, role) = FirstOf(Reverse(b), None)
        /\ BackendGiven(overrides, role) \in Policies \cup {None}
        /\ (B = {} <=> BackendGiven(overrides, role) = None)
    BY <1>1, <1>2, <1>3, <1>6, <1>7
  <1>10. /\ AgentGiven(overrides, role) = FirstOf(a, None)
         /\ AgentGiven(overrides, role) \in STRING \cup {None}
         /\ (A = {} <=> AgentGiven(overrides, role) = None)
         /\ (\A i \in 1 .. Len(a) : a[i] = None) <=> A = {}
    <2> DEFINE given == {i \in DOMAIN a : a[i] # None}
    <2>1. FirstOf(a, None) = IF given = {} THEN None ELSE a[Min(given)]
      BY DEF FirstOf
    <2>2. given = A
      BY <1>1, <1>4, LenProperties
    <2> HIDE DEF given
    <2> QED BY ZenonT(40), <1>1, <1>2, <1>3, <1>4, <1>7, <2>1, <2>2
  <1> QED BY <1>5, <1>6, <1>8, <1>9, <1>10 DEF a, m, b

---------------------------------------------------------------------------
(* Who plays a role.                                                        *)

LEMMA PlayerIs ==
  ASSUME NEW w, IsCommand(w), NEW raw, IsRawFlow(raw), NEW cfg, IsConfig(cfg),
         NEW r \in DOMAIN raw.roles \cup DOMAIN cfg.roles
  PROVE  /\ Declared(w, raw, cfg, r) \in STRING \ {None}
         /\ Player(w, raw, cfg, r)
              = ResolveRoleAgent(r, Declared(w, raw, cfg, r), cfg, w.overrides)
         /\ Player(w, raw, cfg, r) \in STRING
  <1> DEFINE a == AgentLayers(w.overrides, r)
             x == IF r \in DOMAIN w.bare /\ r \in DOMAIN raw.roles THEN w.bare[r][1][2] ELSE None
             y == IF r \in DOMAIN raw.roles THEN raw.roles[r] ELSE None
             z == ProjectRole(cfg, r).agent
             d == Declared(w, raw, cfg, r)
             g == AgentGiven(w.overrides, r)
  <1>1. IsOverrides(w.overrides)
    BY DEF IsCommand, IsOverrides
  <1>2. \A k \in DOMAIN w.bare : w.bare[k][1][2] \in STRING \ {None}
    <2> SUFFICES ASSUME NEW k \in DOMAIN w.bare PROVE w.bare[k][1][2] \in STRING \ {None}
      OBVIOUS
    <2>1. w.bare[k] \in Texts /\ w.bare[k] # <<>> /\ w.bare[k][1][2] # None
      BY DEF IsCommand
    <2> DEFINE t == w.bare[k]
    <2>2. /\ t \in Seq(Tokens) /\ Len(t) \in Nat /\ \A i \in 1 .. Len(t) : t[i] \in Tokens
      BY <2>1, TextIs
    <2>3. Len(t) # 0
      BY <2>1, <2>2, EmptySeq
    <2>4. t[1] \in Tokens
      BY <2>2, <2>3
    <2> QED BY <2>1, <2>4 DEF Tokens
  <1>3. \A q \in DOMAIN raw.roles : raw.roles[q] \in STRING \ {None}
    BY DEF IsRawFlow
  <1>4. \A q \in DOMAIN cfg.roles : cfg.roles[q].agent \in STRING \ {None}
    BY DEF IsConfig, IsRole
  <1>5. z = IF r \in DOMAIN cfg.roles THEN cfg.roles[r].agent ELSE None
    BY DEF ProjectRole, NoRole
  <1>6. /\ d = IF x # None THEN x ELSE IF y # None THEN y ELSE IF z # None THEN z ELSE None
        /\ d \in STRING \ {None}
    BY <1>2, <1>3, <1>4, <1>5 DEF Declared
  <1>7. STRING \subseteq Word /\ None \in Word
    BY DEF Word, None
  <1>8. x \in Word /\ y \in Word /\ z \in Word
    BY <1>2, <1>3, <1>4, <1>5, <1>7
  <1>9. Player(w, raw, cfg, r) = FirstOf(a \o <<x, y, z>>, None)
    BY DEF Player
  <1> HIDE DEF x, y, z
  <1>10. <<x, y, z>> \in Seq(Word)
    BY <1>8
  <1>11. FirstOf(<<x, y, z>>, None) = d
    <2>1. FirstOf(<<x, y, z>>, None)
            = IF x # None THEN x ELSE IF y # None THEN y ELSE IF z # None THEN z ELSE None
      BY FirstOf3
    <2> HIDE DEF d
    <2> QED BY <1>6, <2>1
  <1>12. /\ a \in Seq(Word) /\ g = FirstOf(a, None) /\ g \in STRING \cup {None}
         /\ (\A i \in 1 .. Len(a) : a[i] = None) <=> g = None
    BY <1>1, LayersAre, GivenAre
  <1>13. ResolveRoleAgent(r, d, cfg, w.overrides) = IF g # None THEN g ELSE d
    BY <1>6 DEF ResolveRoleAgent
  <1> DEFINE b == <<x, y, z>>
  <1> HIDE DEF a, b, d, g
  <1>14. /\ (\A i \in 1 .. Len(a) : a[i] = None) => FirstOf(a \o b, None) = FirstOf(b, None)
         /\ (\E i \in 1 .. Len(a) : a[i] # None) => /\ FirstOf(a \o b, None) = FirstOf(a, None)
                                                     /\ FirstOf(a, None) # None
    <2>1. a \in Seq(Word) /\ b \in Seq(Word)
      BY <1>10, <1>12 DEF b
    <2> QED BY ONLY <2>1, FirstOfJoined
  <1> QED BY <1>6, <1>9, <1>11, <1>12, <1>13, <1>14 DEF b, d

LEMMA ResolveIs ==
  ASSUME NEW raw, IsRawFlow(raw), NEW f, SameBut(raw, f), Worded(f), NEW overrides, NEW project,
         NEW v, v = ValidateAndResolve(f, overrides, project), v.ok
  PROVE  /\ Steady(raw, v.val) /\ RoleBound(raw, v.val) /\ Own(raw, v.val) /\ Worded(v.val)
         /\ Filled(v.val.model, v.val.backend, raw.model, raw.backend)
         /\ DOMAIN v.val.roles \subseteq DOMAIN raw.roles \cup DOMAIN project
         /\ \A r \in DOMAIN v.val.roles :
               v.val.roles[r] = IF r \notin DOMAIN raw.roles THEN project[r]
                                ELSE IF r \in DOMAIN overrides THEN overrides[r]
                                ELSE raw.roles[r]
  <1> DEFINE own == [r \in DOMAIN f.roles |-> IF r \in DOMAIN overrides THEN overrides[r]
                                              ELSE f.roles[r]]
             used == {f.steps[i].role : i \in DOMAIN f.steps} \ {None}
             more == (used \ DOMAIN own) \cap DOMAIN project
             roles == [r \in DOMAIN own \cup more |->
                         IF r \in DOMAIN own THEN own[r] ELSE project[r]]
             steps == [i \in DOMAIN f.steps |->
                         IF f.steps[i].role = None THEN f.steps[i]
                         ELSE [f.steps[i] EXCEPT !.agent = roles[f.steps[i].role]]]
             new == [f EXCEPT
                      !.roles = roles,
                      !.model = IF @ = <<>> THEN DefaultModel ELSE @,
                      !.backend = IF @ = None THEN DefaultBackend ELSE @,
                      !.steps = steps]
  <1>1. /\ \A i \in DOMAIN f.steps : StepOk(f.steps[i], DOMAIN roles)
        /\ v.val = new
    BY Zenon DEF ValidateAndResolve, Ok, Err
  <1>2. /\ DOMAIN f = FlowFields /\ DOMAIN f.steps = DOMAIN raw.steps
        /\ \A x \in FlowFields \ {"prompt", "steps"} : f[x] = raw[x]
        /\ \A i \in DOMAIN raw.steps :
              /\ DOMAIN f.steps[i] = StepFields
              /\ \A x \in StepFields \ {"task"} : f.steps[i][x] = raw.steps[i][x]
    BY DEF SameBut
  <1>3. /\ {"roles", "model", "backend", "shape"} \subseteq FlowFields \ {"prompt", "steps"}
        /\ "prompt" \in FlowFields /\ "steps" \in FlowFields
    BY DEF FlowFields
  <1>4. /\ {"id", "extra", "agents", "input", "role", "model", "backend"}
             \subseteq StepFields \ {"task"}
        /\ "agent" \in StepFields /\ "task" \in StepFields /\ "run" \in StepFields
    BY DEF StepFields
  <1>5. /\ DOMAIN new = FlowFields /\ new.roles = roles /\ new.steps = steps
        /\ new.prompt = f.prompt /\ new.shape = f.shape
        /\ new.model = (IF f.model = <<>> THEN DefaultModel ELSE f.model)
        /\ new.backend = (IF f.backend = None THEN DefaultBackend ELSE f.backend)
    <2> HIDE DEF roles, steps
    <2> QED BY <1>2, <1>3
  <1>6. \A i \in DOMAIN f.steps : f.steps[i].role # None =>
           f.steps[i].agents = <<>> /\ f.steps[i].role \in DOMAIN roles
    <2> HIDE DEF roles
    <2> QED BY Zenon, <1>1 DEF StepOk, ConversationOk
  <1>7. /\ DOMAIN steps = DOMAIN f.steps
        /\ \A i \in DOMAIN f.steps :
              /\ DOMAIN steps[i] = StepFields
              /\ steps[i].id = f.steps[i].id /\ steps[i].extra = f.steps[i].extra
              /\ steps[i].agents = f.steps[i].agents /\ steps[i].input = f.steps[i].input
              /\ steps[i].role = f.steps[i].role /\ steps[i].model = f.steps[i].model
              /\ steps[i].backend = f.steps[i].backend /\ steps[i].task = f.steps[i].task
              /\ steps[i].run = f.steps[i].run
              /\ f.steps[i].role # None => steps[i].agent = roles[f.steps[i].role]
    <2> HIDE DEF roles
    <2> QED BY <1>2, <1>4
  <1>8. /\ DOMAIN roles \subseteq DOMAIN f.roles \cup DOMAIN project
        /\ \A r \in DOMAIN roles :
              roles[r] = IF r \notin DOMAIN f.roles THEN project[r]
                         ELSE IF r \in DOMAIN overrides THEN overrides[r] ELSE f.roles[r]
    OBVIOUS
  <1> HIDE DEF new, steps, roles, own, more, used
  <1>9. /\ f.roles = raw.roles /\ f.model = raw.model /\ f.backend = raw.backend
        /\ f.shape = raw.shape
    BY <1>2, <1>3
  <1>10. \A i \in DOMAIN raw.steps :
            /\ f.steps[i].id = raw.steps[i].id /\ f.steps[i].extra = raw.steps[i].extra
            /\ f.steps[i].agents = raw.steps[i].agents /\ f.steps[i].input = raw.steps[i].input
            /\ f.steps[i].role = raw.steps[i].role /\ f.steps[i].model = raw.steps[i].model
            /\ f.steps[i].backend = raw.steps[i].backend
    BY <1>2, <1>4
  <1>11. Steady(raw, new)
    BY <1>2, <1>5, <1>7, <1>9, <1>10 DEF Steady
  <1>12. RoleBound(raw, new)
    BY <1>2, <1>5, <1>6, <1>7, <1>10 DEF RoleBound
  <1>13. Own(raw, new)
    BY <1>2, <1>5, <1>7, <1>10 DEF Own
  <1>14. Worded(new)
    BY <1>5, <1>7 DEF Worded
  <1>15. Filled(new.model, new.backend, raw.model, raw.backend)
    <2>1. raw.model \in Seq(STRING) /\ raw.backend \in Backends \cup {None}
      BY DEF IsRawFlow
    <2>2. raw.model \in Seq(Word)
      BY <2>1, Widen DEF Word
    <2> QED BY <1>5, <1>9, <2>1, <2>2 DEF Filled
  <1> QED BY <1>1, <1>5, <1>8, <1>9, <1>11, <1>12, <1>13, <1>14, <1>15

LEMMA ParseKeeps ==
  ASSUME world \in Worlds, DOMAIN plan = PlanFields, Located(W, plan), Readable(W, plan.raw),
         plan.raw.shape = "linear", Parse, stage' # "refused"
  PROVE  /\ DOMAIN plan' = PlanFields /\ world' = world /\ call' = call
         /\ stage = "parse" /\ stage' = "cascade" /\ Parsed(W, plan')
  <1> DEFINE raw == plan.raw
             rebinds == DOMAIN W.bare \cap DOMAIN raw.roles
             args == [k \in DOMAIN W.bare \ rebinds |-> W.bare[k]]
             legacy == [k \in rebinds |-> W.bare[k][1][2]]
             warned == args = NoArgs \/ ValidateAndResolve(raw, NoArgs, NoArgs).ok
             project == RoleAgentMap(plan.cfg)
             flow == LoadLinear(raw, W.near, legacy, project)
             vars == Over(plan.vars, args)
             result == IF warned /\ flow.ok
                       THEN Ok([flow |-> flow.val, args |-> args, vars |-> vars]) ELSE Err
             B == VarsBrought(W, plan.cfg)
             in == ResolveExternalPrompts(raw, W.near)
  <1>1. Stage("parse", result, "cascade")
    BY DEF Parse
  <1>2. result.ok
    BY <1>1 DEF Stage
  <1>3. flow.ok /\ result = Ok([flow |-> flow.val, args |-> args, vars |-> vars])
    <2> HIDE DEF flow, args, vars, warned
    <2> QED BY <1>2 DEF Err
  <1>4. /\ DOMAIN result.val = {"flow", "args", "vars"} /\ result.val.flow = flow.val
        /\ result.val.args = args /\ result.val.vars = vars
    <2> HIDE DEF flow, args, vars, warned
    <2> QED BY <1>3 DEF Ok
  <1>5. in.ok /\ flow = ValidateAndResolve(in.val, legacy, project)
    <2> HIDE DEF legacy, project
    <2> QED BY <1>3 DEF LoadLinear, Err
  <1>6. /\ IsRawFlow(raw) /\ IsConfig(plan.cfg) /\ IsCommand(W)
        /\ \A f \in DOMAIN W.near : W.near[f].text \in Texts
    BY WorldIs DEF Located, IsWorld
  <1>7. SameBut(raw, in.val) /\ Worded(in.val)
    BY <1>5, <1>6, PromptsAre
  <1>8. /\ DOMAIN legacy = rebinds /\ \A k \in rebinds : legacy[k] = W.bare[k][1][2]
        /\ DOMAIN project = DOMAIN plan.cfg.roles
        /\ \A r \in DOMAIN plan.cfg.roles : project[r] = plan.cfg.roles[r].agent
        /\ DOMAIN args = DOMAIN W.bare \ rebinds
        /\ \A k \in DOMAIN args : args[k] = W.bare[k]
    BY DEF RoleAgentMap
  <1>9. \A r : r \in rebinds <=> r \in DOMAIN W.bare /\ r \in DOMAIN raw.roles
    OBVIOUS
  <1> HIDE DEF result, warned, in, legacy, project, args, flow, rebinds, raw
  <1>10. /\ Steady(raw, flow.val) /\ RoleBound(raw, flow.val) /\ Own(raw, flow.val)
         /\ Worded(flow.val)
         /\ Filled(flow.val.model, flow.val.backend, raw.model, raw.backend)
         /\ DOMAIN flow.val.roles \subseteq DOMAIN raw.roles \cup DOMAIN project
         /\ \A r \in DOMAIN flow.val.roles :
               flow.val.roles[r] = IF r \notin DOMAIN raw.roles THEN project[r]
                                   ELSE IF r \in DOMAIN legacy THEN legacy[r]
                                   ELSE raw.roles[r]
    BY <1>3, <1>5, <1>6, <1>7, ResolveIs
  <1>11. DeclaredRoles(W, raw, plan.cfg, flow.val)
    <2> SUFFICES ASSUME NEW r \in DOMAIN flow.val.roles
                 PROVE  /\ flow.val.roles[r] = Declared(W, raw, plan.cfg, r)
                        /\ flow.val.roles[r] \in STRING \ {None}
                        /\ r \in DOMAIN raw.roles \cup DOMAIN plan.cfg.roles
      BY DEF DeclaredRoles
    <2>1. r \in DOMAIN raw.roles \cup DOMAIN plan.cfg.roles
      BY <1>8, <1>10
    <2>2. Declared(W, raw, plan.cfg, r) \in STRING \ {None}
      BY <1>6, <2>1, PlayerIs
    <2>3. flow.val.roles[r] = Declared(W, raw, plan.cfg, r)
      BY <1>8, <1>9, <1>10, <2>1 DEF Declared
    <2> QED BY <2>1, <2>2, <2>3
  <1>12. /\ Brings(args, "var", B) /\ Brings(args, "role", RolesBrought(W))
    <2>1. \A v \in DOMAIN W.bare : W.bare[v] \in Texts
      BY <1>6 DEF IsCommand
    <2>2. FromValues("var", W.bare) \subseteq B
      BY DEF VarsBrought
    <2> HIDE DEF B
    <2>3. Brings(W.bare, "var", B) /\ Brings(W.bare, "role", RolesBrought(W))
      BY <2>1, <2>2, ValuesBring DEF RolesBrought
    <2> QED BY <1>8, <2>3 DEF Brings
  <1>13. Brings(vars, "var", B)
    <2>1. Brings(plan.vars, "var", B)
      BY DEF Located
    <2> HIDE DEF B
    <2> QED BY <1>12, <2>1, OverBrings
  <1> HIDE DEF vars, B
  <1>14. DOMAIN result.val \subseteq PlanFields
         /\ {"cfg", "raw", "vars", "flow", "args"} \subseteq PlanFields
    BY <1>4 DEF PlanFields
  <1>15. /\ stage = "parse" /\ stage' = "cascade" /\ world' = world /\ call' = call
         /\ DOMAIN plan' = PlanFields
         /\ \A x \in PlanFields : plan'[x] = IF x \in DOMAIN result.val THEN result.val[x]
                                             ELSE plan[x]
    BY <1>1, <1>14, StageAdds
  <1>16. /\ plan'.cfg = plan.cfg /\ plan'.raw = plan.raw /\ plan'.vars = vars
         /\ plan'.flow = flow.val /\ plan'.args = args
    BY <1>4, <1>14, <1>15
  <1>17. Located(W, plan')
    BY <1>13, <1>16 DEF Located, B
  <1>18. LinearFlow(W, plan')
    BY <1>10, <1>16, <1>17 DEF LinearFlow, raw
  <1> QED BY <1>10, <1>11, <1>12, <1>15, <1>16, <1>18 DEF Parsed, raw, B

LEMMA CascadeKeeps ==
  ASSUME world \in Worlds, DOMAIN plan = PlanFields, Parsed(W, plan), Cascade, stage' # "refused"
  PROVE  /\ DOMAIN plan' = PlanFields /\ world' = world /\ call' = call
         /\ stage = "cascade" /\ stage' = "substitute" /\ Cascaded(W, plan')
  <1> DEFINE f == plan.flow
             raw == plan.raw
             cfg == plan.cfg
             decided == [r \in DOMAIN f.roles |->
                           ResolveRoleAgent(r, f.roles[r], cfg, W.overrides)]
             steps == [i \in DOMAIN f.steps |->
                         IF f.steps[i].role \in DOMAIN decided
                         THEN [f.steps[i] EXCEPT !.agent = decided[f.steps[i].role]]
                         ELSE f.steps[i]]
             new == [f EXCEPT !.roles = decided, !.steps = steps]
             ok == ValidateRoleOverrides(W.overrides, plan.flow, plan.cfg)
             result == IF ok THEN Ok([flow |-> new]) ELSE Err
  <1>1. new = ApplyRoleAgentOverrides(plan.flow, plan.cfg, W.overrides)
    BY DEF ApplyRoleAgentOverrides
  <1>2. DOMAIN decided = DOMAIN f.roles
    OBVIOUS
  <1>3. /\ DOMAIN f = FlowFields /\ f.shape = raw.shape /\ DOMAIN f.steps = DOMAIN raw.steps
        /\ \A i \in DOMAIN raw.steps : DOMAIN f.steps[i] = StepFields
    BY DEF Parsed, LinearFlow, Steady
  <1>4. \A r \in DOMAIN f.roles :
           /\ decided[r] = Player(W, raw, cfg, r) /\ decided[r] \in STRING
           /\ r \in DOMAIN raw.roles \cup DOMAIN cfg.roles
    <2> SUFFICES ASSUME NEW r \in DOMAIN f.roles
                 PROVE  /\ decided[r] = Player(W, raw, cfg, r) /\ decided[r] \in STRING
                        /\ r \in DOMAIN raw.roles \cup DOMAIN cfg.roles
      OBVIOUS
    <2>1. /\ f.roles[r] = Declared(W, raw, cfg, r) /\ r \in DOMAIN raw.roles \cup DOMAIN cfg.roles
      BY DEF Parsed, DeclaredRoles
    <2>2. IsRawFlow(raw) /\ IsConfig(cfg) /\ IsCommand(W)
      BY WorldIs DEF Parsed, LinearFlow, Located, IsWorld
    <2>3. /\ Player(W, raw, cfg, r)
               = ResolveRoleAgent(r, Declared(W, raw, cfg, r), cfg, W.overrides)
          /\ Player(W, raw, cfg, r) \in STRING
      BY SMTT(40), <2>1, <2>2, PlayerIs
    <2> QED BY <2>1, <2>3
  <1>5. Stage("cascade", result, "substitute")
    BY <1>1 DEF Cascade
  <1> HIDE DEF decided
  <1>6. /\ "roles" \in FlowFields /\ "steps" \in FlowFields /\ "agent" \in StepFields
        /\ {"shape", "prompt", "model", "backend"} \subseteq FlowFields \ {"roles", "steps"}
        /\ {"id", "extra", "agents", "input", "role", "model", "backend", "task", "run"}
             \subseteq StepFields \ {"agent"}
    BY DEF FlowFields, StepFields
  <1>7. /\ DOMAIN steps = DOMAIN f.steps
        /\ \A i \in DOMAIN f.steps :
              /\ DOMAIN steps[i] = StepFields
              /\ \A x \in StepFields \ {"agent"} : steps[i][x] = f.steps[i][x]
              /\ f.steps[i].role \in DOMAIN decided => steps[i].agent = decided[f.steps[i].role]
    BY <1>3, <1>6
  <1> HIDE DEF steps
  <1>8. /\ DOMAIN new = FlowFields /\ new.roles = decided /\ new.steps = steps
        /\ \A x \in FlowFields \ {"roles", "steps"} : new[x] = f[x]
    BY <1>3, <1>6
  <1>9. \A i \in DOMAIN f.steps :
           /\ steps[i].id = f.steps[i].id /\ steps[i].extra = f.steps[i].extra
           /\ steps[i].agents = f.steps[i].agents /\ steps[i].input = f.steps[i].input
           /\ steps[i].role = f.steps[i].role /\ steps[i].model = f.steps[i].model
           /\ steps[i].backend = f.steps[i].backend /\ steps[i].task = f.steps[i].task
           /\ steps[i].run = f.steps[i].run
    BY <1>6, <1>7
  <1>10. /\ new.shape = f.shape /\ new.prompt = f.prompt /\ new.model = f.model
         /\ new.backend = f.backend
    BY <1>6, <1>8
  <1> HIDE DEF new, ok
  <1>11. result.ok
    BY <1>5 DEF Stage
  <1>12. DOMAIN result.val = {"flow"} /\ result.val.flow = new
    BY <1>11 DEF Ok, Err
  <1> HIDE DEF result
  <1>13. DOMAIN result.val \subseteq PlanFields
         /\ {"cfg", "raw", "vars", "flow", "args"} \subseteq PlanFields
    BY <1>12 DEF PlanFields
  <1>14. /\ stage = "cascade" /\ stage' = "substitute" /\ world' = world /\ call' = call
         /\ DOMAIN plan' = PlanFields
         /\ \A x \in PlanFields : plan'[x] = IF x \in DOMAIN result.val THEN result.val[x]
                                             ELSE plan[x]
    BY <1>5, <1>13, StageAdds
  <1>15. /\ plan'.cfg = plan.cfg /\ plan'.raw = plan.raw /\ plan'.vars = plan.vars
         /\ plan'.flow = new /\ plan'.args = plan.args
    BY <1>12, <1>13, <1>14
  <1>16. Steady(raw, new)
    BY SMTT(40), <1>3, <1>7, <1>8, <1>9, <1>10 DEF Parsed, LinearFlow, Steady
  <1>17. RoleBound(raw, new)
    BY <1>2, <1>3, <1>7, <1>8, <1>9 DEF Parsed, LinearFlow, RoleBound
  <1>18. PlayedRoles(W, raw, cfg, new)
    BY <1>2, <1>4, <1>8 DEF PlayedRoles
  <1>19. Worded(new) /\ Own(raw, new)
    BY <1>3, <1>7, <1>8, <1>9, <1>10 DEF Parsed, Worded, Own
  <1>20. LinearFlow(W, plan')
    BY <1>15, <1>16, <1>17 DEF Parsed, LinearFlow, Located
  <1> QED BY <1>10, <1>14, <1>15, <1>18, <1>19, <1>20 DEF Parsed, Cascaded

LEMMA SubstituteKeeps ==
  ASSUME world \in Worlds, DOMAIN plan = PlanFields, Cascaded(W, plan), Substitute,
         stage' # "refused"
  PROVE  /\ DOMAIN plan' = PlanFields /\ world' = world /\ call' = call
         /\ stage = "substitute" /\ stage' = "load" /\ Substituted(W, plan')
  <1> DEFINE f == plan.flow
             raw == plan.raw
             cfg == plan.cfg
             B == VarsBrought(W, cfg)
             Text1(text) == Fill(text, plan.vars, f.roles)
             Run(text) == FillCommand(text, plan.vars, f.roles)
             all == /\ Text1(f.prompt).ok
                    /\ \A i \in DOMAIN f.steps : Text1(f.steps[i].task).ok /\ Run(f.steps[i].run).ok
             task == ResolveTask(W.task, Text1(f.prompt).val, plan.args, plan.vars, f.roles)
             steps == [i \in DOMAIN f.steps |->
                         [f.steps[i] EXCEPT !.task = Text1(f.steps[i].task).val,
                                            !.run = Run(f.steps[i].run).val]]
             new == [f EXCEPT !.prompt = Text1(f.prompt).val, !.steps = steps]
             result == IF ~all THEN Err ELSE IF ~task.ok THEN Err
                       ELSE Ok([flow |-> new, task |-> task.val])
  <1>1. Stage("substitute", result, "load")
    BY Zenon DEF Substitute
  <1>2. /\ DOMAIN f = FlowFields /\ f.shape = raw.shape /\ DOMAIN f.steps = DOMAIN raw.steps
        /\ \A i \in DOMAIN raw.steps : DOMAIN f.steps[i] = StepFields
    BY DEF Cascaded, LinearFlow, Steady
  <1>3. /\ f.prompt \in Texts
        /\ \A i \in DOMAIN f.steps : f.steps[i].task \in Texts /\ f.steps[i].run \in Texts
        /\ Brings(plan.vars, "var", B) /\ Brings(plan.args, "var", B)
        /\ Brings(plan.args, "role", RolesBrought(W))
        /\ \A r \in DOMAIN f.roles : f.roles[r] \in STRING
        /\ W.task \in Texts
    BY WorldIs DEF Cascaded, LinearFlow, Located, Worded, PlayedRoles, IsWorld, IsCommand
  <1> HIDE DEF B
  <1>4. result.ok
    BY Zenon, <1>1 DEF Stage
  <1>5. all /\ task.ok /\ DOMAIN result.val = {"flow", "task"} /\ result.val.flow = new
        /\ result.val.task = task.val
    <2> HIDE DEF all, task, new
    <2> QED BY <1>4 DEF Ok, Err
  <1>6. /\ Text1(f.prompt).val \in Texts /\ Names("var", Text1(f.prompt).val) \subseteq B
        /\ Names("role", Text1(f.prompt).val) = {}
    BY Zenon, <1>3, <1>5, FillClean
  <1>7. \A i \in DOMAIN f.steps :
           /\ Names("var", Text1(f.steps[i].task).val) \subseteq B
           /\ Names("role", Text1(f.steps[i].task).val) = {}
           /\ Names("var", Run(f.steps[i].run).val) \subseteq B
           /\ Names("role", Run(f.steps[i].run).val) = {}
    <2> SUFFICES ASSUME NEW i \in DOMAIN f.steps
                 PROVE  /\ Names("var", Text1(f.steps[i].task).val) \subseteq B
                        /\ Names("role", Text1(f.steps[i].task).val) = {}
                        /\ Names("var", Run(f.steps[i].run).val) \subseteq B
                        /\ Names("role", Run(f.steps[i].run).val) = {}
      OBVIOUS
    <2>1. Text1(f.steps[i].task).ok /\ Run(f.steps[i].run).ok
      BY Zenon, <1>5
    <2>2. /\ Text1(f.steps[i].task).val \in Texts
          /\ Names("var", Text1(f.steps[i].task).val) \subseteq B
          /\ Names("role", Text1(f.steps[i].task).val) = {}
      BY <1>3, <2>1, FillClean
    <2>3. /\ Run(f.steps[i].run).val \in Texts
          /\ Names("var", Run(f.steps[i].run).val) \subseteq B
          /\ Names("role", Run(f.steps[i].run).val) = {}
      BY <1>3, <2>1, FillCommandClean
    <2> QED BY <2>2, <2>3
  <1>8. /\ task.val \in Texts /\ Names("var", task.val) \subseteq B
        /\ Names("role", task.val) \subseteq RolesBrought(W)
    <2> HIDE DEF Text1
    <2>1. task.ok /\ W.task \in Texts /\ Text1(f.prompt).val \in Texts
      BY Zenon, <1>3, <1>5, <1>6
    <2> QED BY <1>3, <1>6, <2>1, ResolveTaskClean
  <1> HIDE DEF Text1, Run, all, task
  <1>9. /\ "prompt" \in FlowFields /\ "steps" \in FlowFields
        /\ {"task", "run"} \subseteq StepFields
        /\ {"shape", "roles", "model", "backend"} \subseteq FlowFields \ {"prompt", "steps"}
        /\ {"id", "extra", "agents", "input", "role", "model", "backend", "agent"}
             \subseteq StepFields \ {"task", "run"}
    BY DEF FlowFields, StepFields
  <1>10. /\ DOMAIN steps = DOMAIN f.steps
         /\ \A i \in DOMAIN f.steps :
               /\ DOMAIN steps[i] = StepFields
               /\ \A x \in StepFields \ {"task", "run"} : steps[i][x] = f.steps[i][x]
               /\ steps[i].task = Text1(f.steps[i].task).val
               /\ steps[i].run = Run(f.steps[i].run).val
    BY Zenon, <1>2, <1>9
  <1> HIDE DEF steps
  <1>11. /\ DOMAIN new = FlowFields /\ new.steps = steps
         /\ \A x \in FlowFields \ {"prompt", "steps"} : new[x] = f[x]
    BY <1>2, <1>9
  <1>12. \A i \in DOMAIN f.steps :
            /\ steps[i].id = f.steps[i].id /\ steps[i].extra = f.steps[i].extra
            /\ steps[i].agents = f.steps[i].agents /\ steps[i].input = f.steps[i].input
            /\ steps[i].role = f.steps[i].role /\ steps[i].model = f.steps[i].model
            /\ steps[i].backend = f.steps[i].backend /\ steps[i].agent = f.steps[i].agent
    BY <1>9, <1>10
  <1>13. /\ new.shape = f.shape /\ new.roles = f.roles /\ new.model = f.model
         /\ new.backend = f.backend
    BY <1>9, <1>11
  <1> HIDE DEF new, result
  <1>14. DOMAIN result.val \subseteq PlanFields
         /\ {"cfg", "raw", "vars", "flow", "task"} \subseteq PlanFields
    BY <1>5 DEF PlanFields
  <1>15. /\ stage = "substitute" /\ stage' = "load" /\ world' = world /\ call' = call
         /\ DOMAIN plan' = PlanFields
         /\ \A x \in PlanFields : plan'[x] = IF x \in DOMAIN result.val THEN result.val[x]
                                             ELSE plan[x]
    BY <1>1, <1>14, StageAdds
  <1>16. /\ plan'.cfg = plan.cfg /\ plan'.raw = plan.raw /\ plan'.vars = plan.vars
         /\ plan'.flow = new /\ plan'.task = task.val
    BY <1>5, <1>14, <1>15
  <1>17. Steady(raw, new)
    BY SMTT(40), <1>2, <1>10, <1>11, <1>12, <1>13 DEF Cascaded, LinearFlow, Steady
  <1>18. RoleBound(raw, new)
    BY <1>2, <1>10, <1>11, <1>12, <1>13 DEF Cascaded, LinearFlow, RoleBound
  <1>19. PlayedRoles(W, raw, cfg, new)
    BY <1>13 DEF Cascaded, PlayedRoles
  <1>20. Own(raw, new)
    BY <1>2, <1>10, <1>11, <1>12 DEF Cascaded, Own
  <1>21. LinearFlow(W, plan')
    BY <1>16, <1>17, <1>18 DEF Cascaded, LinearFlow, Located
  <1>22. Clean(W, plan')
    <2>1. \A i \in DOMAIN new.steps :
             /\ Names("var", new.steps[i].task) \subseteq B
             /\ Names("var", new.steps[i].run) \subseteq B
             /\ Names("role", new.steps[i].task) = {} /\ Names("role", new.steps[i].run) = {}
      BY <1>7, <1>10, <1>11
    <2>2. B = VarsBrought(W, plan'.cfg)
      BY <1>16 DEF B
    <2> QED BY ONLY <1>8, <1>16, <2>1, <2>2 DEF Clean
  <1> QED BY <1>13, <1>15, <1>16, <1>19, <1>20, <1>21, <1>22 DEF Cascaded, Substituted

LEMMA DirsAre ==
  ASSUME world \in Worlds
  PROVE  IsDirs(W.dirs)
  BY WorldIs DEF IsWorld, IsDirs

LEMMA LoadKeeps ==
  ASSUME world \in Worlds, DOMAIN plan = PlanFields, Substituted(W, plan), Load,
         stage' # "refused"
  PROVE  /\ DOMAIN plan' = PlanFields /\ world' = world /\ call' = call
         /\ stage = "load" /\ stage' = "overlay" /\ Loaded(W, plan')
  <1> DEFINE flow == plan.flow
             ids == AgentsOfFlow(flow)
             agents == LoadAgents(ids, Seeds, W.dirs, flow.model, flow.backend, plan.cfg)
             result == IF agents.ok THEN Ok([agents |-> agents.val]) ELSE Err
  <1>1. Stage("load", result, "overlay")
    BY DEF Load
  <1>2. result.ok
    BY <1>1 DEF Stage
  <1>3. agents.ok /\ DOMAIN result.val = {"agents"} /\ result.val.agents = agents.val
    <2> HIDE DEF agents
    <2> QED BY <1>2 DEF Ok, Err
  <1>4. /\ IsSeeds(Seeds) /\ IsConfig(plan.cfg) /\ Seeds = plan.cfg.seeds
        /\ Filled(flow.model, flow.backend, plan.raw.model, plan.raw.backend)
    BY DEF Substituted, LinearFlow, Located, IsConfig, Seeds
  <1>5. /\ DOMAIN agents.val = ids
        /\ Team(agents.val, Seeds, W.dirs, plan.cfg, plan.raw.model, plan.raw.backend, {})
    <2>1. IsDirs(W.dirs) /\ agents.ok
      BY <1>3, DirsAre
    <2> HIDE DEF ids, flow
    <2> QED BY <1>4, <2>1, TeamLoaded
  <1> HIDE DEF agents, result
  <1>6. Staff(flow.steps, agents.val)
    BY <1>5 DEF Staff, AgentsOfFlow
  <1>7. DOMAIN result.val \subseteq PlanFields
        /\ {"cfg", "raw", "vars", "flow", "task", "agents"} \subseteq PlanFields
    BY <1>3 DEF PlanFields
  <1>8. /\ stage = "load" /\ stage' = "overlay" /\ world' = world /\ call' = call
        /\ DOMAIN plan' = PlanFields
        /\ \A x \in PlanFields : plan'[x] = IF x \in DOMAIN result.val THEN result.val[x]
                                            ELSE plan[x]
    BY <1>1, <1>7, StageAdds
  <1>9. /\ plan'.cfg = plan.cfg /\ plan'.raw = plan.raw /\ plan'.vars = plan.vars
        /\ plan'.flow = plan.flow /\ plan'.task = plan.task /\ plan'.agents = agents.val
    BY <1>3, <1>7, <1>8
  <1>10. Substituted(W, plan')
    BY <1>9 DEF Substituted, LinearFlow, Located, Clean
  <1>11. Crew(W, plan', {})
    BY <1>4, <1>5, <1>6, <1>9 DEF Crew
  <1> QED BY <1>8, <1>10, <1>11 DEF Loaded

LEMMA OverlayKeeps ==
  ASSUME world \in Worlds, DOMAIN plan = PlanFields, Loaded(W, plan), Overlay,
         stage' # "refused"
  PROVE  /\ DOMAIN plan' = PlanFields /\ world' = world /\ call' = call
         /\ stage = "overlay" /\ stage' = "audit" /\ Layered(W, plan')
  <1> DEFINE pairs == RolePairs(plan.flow.steps)
             result == ApplyRoleOverlays(plan.agents, pairs, plan.cfg)
  <1>1. Stage("overlay", result, "audit")
    BY DEF Overlay
  <1>2. result.ok
    BY <1>1 DEF Stage
  <1>3. /\ IsConfig(plan.cfg)
        /\ Team(plan.agents, plan.cfg.seeds, W.dirs, plan.cfg, plan.raw.model, plan.raw.backend, {})
        /\ Staff(plan.flow.steps, plan.agents)
    BY DEF Loaded, Substituted, LinearFlow, Located, Crew
  <1> HIDE DEF pairs
  <1>4. /\ DOMAIN result.val = {"agents", "summaries"}
        /\ DOMAIN result.val.agents = DOMAIN plan.agents
        /\ Team(result.val.agents, plan.cfg.seeds, W.dirs, plan.cfg, plan.raw.model,
                plan.raw.backend, pairs)
    BY <1>2, <1>3, TeamOverlaid
  <1> HIDE DEF result
  <1>5. DOMAIN result.val \subseteq PlanFields
        /\ {"cfg", "raw", "vars", "flow", "task", "agents"} \subseteq PlanFields
    BY <1>4 DEF PlanFields
  <1>6. /\ stage = "overlay" /\ stage' = "audit" /\ world' = world /\ call' = call
        /\ DOMAIN plan' = PlanFields
        /\ \A x \in PlanFields : plan'[x] = IF x \in DOMAIN result.val THEN result.val[x]
                                            ELSE plan[x]
    BY <1>1, <1>5, StageAdds
  <1>7. /\ plan'.cfg = plan.cfg /\ plan'.raw = plan.raw /\ plan'.vars = plan.vars
        /\ plan'.flow = plan.flow /\ plan'.task = plan.task /\ plan'.agents = result.val.agents
    BY <1>4, <1>5, <1>6
  <1>8. Substituted(W, plan')
    BY <1>7 DEF Loaded, Substituted, LinearFlow, Located, Clean
  <1>9. Crew(W, plan', RolePairs(plan'.flow.steps))
    BY <1>3, <1>4, <1>7 DEF Crew, Staff, pairs
  <1> QED BY <1>6, <1>8, <1>9 DEF Layered

LEMMA AuditKeeps ==
  ASSUME world \in Worlds, DOMAIN plan = PlanFields, Layered(W, plan), Audit,
         stage' # "refused"
  PROVE  /\ DOMAIN plan' = PlanFields /\ world' = world /\ call' = call
         /\ stage = "audit" /\ stage' = "bind" /\ Audited(W, plan')
  <1> DEFINE flow == plan.flow
             Cas(r) == ResolveCascade(r, flow.roles[r], plan.agents[flow.roles[r]], plan.cfg,
                                      W.overrides)
             audit == [r \in UsedRoles(flow) |-> Cas(r)]
             result == Ok([audit |-> audit])
  <1>1. Stage("audit", result, "bind")
    BY DEF Audit, BuildResolvedRoles
  <1>2. DOMAIN result.val = {"audit"} /\ result.val.audit = audit
    <2> HIDE DEF audit
    <2> QED BY SMTT(40) DEF Ok
  <1>3. \A i \in DOMAIN plan.raw.steps :
           plan.raw.steps[i].role # None => /\ plan.raw.steps[i].role \in UsedRoles(flow)
                                            /\ audit[plan.raw.steps[i].role]
                                                 = Cas(plan.raw.steps[i].role)
    <2>1. /\ DOMAIN flow.steps = DOMAIN plan.raw.steps
          /\ \A i \in DOMAIN plan.raw.steps : flow.steps[i].role = plan.raw.steps[i].role
      BY DEF Layered, Substituted, LinearFlow, Steady, RoleBound
    <2> HIDE DEF Cas
    <2> QED BY <2>1 DEF UsedRoles
  <1> HIDE DEF result, audit
  <1>4. DOMAIN result.val \subseteq PlanFields
        /\ {"cfg", "raw", "vars", "flow", "task", "agents", "audit"} \subseteq PlanFields
    BY <1>2 DEF PlanFields
  <1>5. /\ stage = "audit" /\ stage' = "bind" /\ world' = world /\ call' = call
        /\ DOMAIN plan' = PlanFields
        /\ \A x \in PlanFields : plan'[x] = IF x \in DOMAIN result.val THEN result.val[x]
                                            ELSE plan[x]
    BY <1>1, <1>4, StageAdds
  <1>6. /\ plan'.cfg = plan.cfg /\ plan'.raw = plan.raw /\ plan'.vars = plan.vars
        /\ plan'.flow = plan.flow /\ plan'.task = plan.task /\ plan'.agents = plan.agents
        /\ plan'.audit = audit
    BY <1>2, <1>4, <1>5
  <1>7. Substituted(W, plan')
    BY <1>6 DEF Layered, Substituted, LinearFlow, Located, Clean
  <1>8. Crew(W, plan', RolePairs(plan'.flow.steps))
    BY <1>6 DEF Layered, Crew
  <1>9. Audits(W, plan')
    BY Zenon, <1>3, <1>6 DEF Audits
  <1> QED BY <1>5, <1>7, <1>8, <1>9 DEF Audited, Layered

LEMMA BindKeeps ==
  ASSUME world \in Worlds, DOMAIN plan = PlanFields, Audited(W, plan), Bind,
         stage' # "refused"
  PROVE  /\ DOMAIN plan' = PlanFields /\ world' = world /\ call' = call
         /\ stage = "bind" /\ stage' = "context" /\ BoundSteps(W, plan')
  <1> DEFINE f == plan.flow
             raw == plan.raw
             audit == plan.audit
             steps == [i \in DOMAIN f.steps |->
                         IF f.steps[i].role = None THEN f.steps[i]
                         ELSE [f.steps[i] EXCEPT
                               !.model = IF @ = <<>> THEN audit[f.steps[i].role].model ELSE @,
                               !.backend = IF @ = None THEN audit[f.steps[i].role].backend
                                           ELSE @]]
             new == [f EXCEPT !.steps = steps]
             ok == Len(D!Kahn(f.steps)) = Len(f.steps)
             result == IF ok THEN Ok([flow |-> new]) ELSE Err
  <1>0. new = ApplyResolvedRolesToSteps(plan.flow, plan.audit)
    BY DEF ApplyResolvedRolesToSteps
  <1>1. Stage("bind", result, "context")
    BY Zenon, <1>0 DEF Bind
  <1>2. /\ DOMAIN f = FlowFields /\ DOMAIN f.steps = DOMAIN raw.steps
        /\ \A i \in DOMAIN raw.steps :
              /\ DOMAIN f.steps[i] = StepFields
              /\ f.steps[i].role = raw.steps[i].role
              /\ f.steps[i].model = raw.steps[i].model
              /\ f.steps[i].backend = raw.steps[i].backend
    BY DEF Audited, Layered, Substituted, LinearFlow, Steady, RoleBound, Own
  <1>3. /\ "steps" \in FlowFields /\ {"model", "backend"} \subseteq StepFields
        /\ {"shape", "roles"} \subseteq FlowFields \ {"steps"}
        /\ {"id", "extra", "agents", "input", "role", "agent", "task", "run"}
             \subseteq StepFields \ {"model", "backend"}
    BY DEF FlowFields, StepFields
  <1>4. /\ DOMAIN steps = DOMAIN f.steps
        /\ \A i \in DOMAIN f.steps :
              /\ DOMAIN steps[i] = StepFields
              /\ \A x \in StepFields \ {"model", "backend"} : steps[i][x] = f.steps[i][x]
              /\ steps[i].model = IF f.steps[i].role # None /\ f.steps[i].model = <<>>
                                  THEN audit[f.steps[i].role].model ELSE f.steps[i].model
              /\ steps[i].backend = IF f.steps[i].role # None /\ f.steps[i].backend = None
                                    THEN audit[f.steps[i].role].backend ELSE f.steps[i].backend
    BY ZenonT(30), <1>2, <1>3
  <1> HIDE DEF steps
  <1>5. /\ DOMAIN new = FlowFields /\ new.steps = steps
        /\ \A x \in FlowFields \ {"steps"} : new[x] = f[x]
    BY <1>2, <1>3
  <1>6. \A i \in DOMAIN f.steps :
           /\ steps[i].id = f.steps[i].id /\ steps[i].extra = f.steps[i].extra
           /\ steps[i].agents = f.steps[i].agents /\ steps[i].input = f.steps[i].input
           /\ steps[i].role = f.steps[i].role /\ steps[i].agent = f.steps[i].agent
           /\ steps[i].task = f.steps[i].task /\ steps[i].run = f.steps[i].run
    BY <1>3, <1>4
  <1>7. new.shape = f.shape /\ new.roles = f.roles
    BY <1>3, <1>5
  <1> HIDE DEF new, ok
  <1>8. result.ok
    BY <1>1 DEF Stage
  <1>9. DOMAIN result.val = {"flow"} /\ result.val.flow = new
    BY <1>8 DEF Ok, Err
  <1> HIDE DEF result
  <1>10. DOMAIN result.val \subseteq PlanFields
         /\ {"cfg", "raw", "vars", "flow", "task", "agents", "audit"} \subseteq PlanFields
    BY <1>9 DEF PlanFields
  <1>11. /\ stage = "bind" /\ stage' = "context" /\ world' = world /\ call' = call
         /\ DOMAIN plan' = PlanFields
         /\ \A x \in PlanFields : plan'[x] = IF x \in DOMAIN result.val THEN result.val[x]
                                             ELSE plan[x]
    BY <1>1, <1>10, StageAdds
  <1>12. /\ plan'.cfg = plan.cfg /\ plan'.raw = plan.raw /\ plan'.vars = plan.vars
         /\ plan'.flow = new /\ plan'.task = plan.task /\ plan'.agents = plan.agents
         /\ plan'.audit = plan.audit
    BY SMTT(40), <1>9, <1>10, <1>11
  <1>13. Steady(raw, new)
    BY <1>2, <1>4, <1>5, <1>6, <1>7 DEF Audited, Layered, Substituted, LinearFlow, Steady
  <1>14. RoleBound(raw, new)
    BY <1>2, <1>5, <1>6, <1>7 DEF Audited, Layered, Substituted, LinearFlow, RoleBound
  <1>15. PlayedRoles(W, raw, plan.cfg, new)
    BY <1>7 DEF Audited, Layered, Substituted, PlayedRoles
  <1>16. LinearFlow(W, plan')
    BY <1>12, <1>13, <1>14 DEF Audited, Layered, Substituted, LinearFlow, Located
  <1>17. Clean(W, plan')
    <2>1. Clean(W, plan)
      BY DEF Audited, Layered, Substituted
    <2>2. /\ DOMAIN new.steps = DOMAIN f.steps /\ new.shape = f.shape
          /\ \A i \in DOMAIN new.steps : /\ new.steps[i].task = f.steps[i].task
                                         /\ new.steps[i].run = f.steps[i].run
      BY <1>4, <1>5, <1>6, <1>7
    <2> QED BY ONLY <1>12, <2>1, <2>2 DEF Clean, f
  <1>18. RolePairs(new.steps) = RolePairs(f.steps)
    BY <1>4, <1>5, <1>6 DEF RolePairs
  <1>19. Crew(W, plan', RolePairs(plan'.flow.steps))
    <2>1. Crew(W, plan, RolePairs(f.steps))
      BY DEF Audited, Layered
    <2>2. Staff(new.steps, plan.agents)
      BY SMTT(40), <1>4, <1>5, <1>6, <2>1 DEF Crew, Staff, IsShell, IsConversation
    <2> QED BY <1>12, <1>18, <2>1, <2>2 DEF Crew
  <1>20. Audits(W, plan')
    BY ZenonT(30), <1>7, <1>12 DEF Audited, Audits
  <1>21. BoundBy(raw, new, audit)
    BY <1>2, <1>4, <1>5 DEF BoundBy
  <1> QED BY <1>11, <1>12, <1>15, <1>16, <1>17, <1>19, <1>20, <1>21 DEF BoundSteps

LEMMA GatheredKeeps ==
  ASSUME NEW guided \in BOOLEAN, NEW skilled \in BOOLEAN, NEW from, DOMAIN plan = PlanFields,
         IsConfig(plan.cfg),
         Stage(from, Gathered(LoadGuideForTask(Seeds, W.dirs, guided), skilled), "started"),
         stage' # "refused"
  PROVE  /\ DOMAIN plan' = PlanFields /\ world' = world /\ call' = call
         /\ stage = from /\ stage' = "started"
         /\ \A x \in PlanFields \ {"guide", "rules", "skills"} : plan'[x] = plan[x]
         /\ Informed(W, plan.cfg, plan.agents, plan'.guide, plan'.rules, plan'.skills,
                     guided, skilled)
  <1> DEFINE guide == LoadGuideForTask(Seeds, W.dirs, guided)
             rules == LoadRules(plan.agents, Seeds, W.dirs)
             skills == IF skilled THEN LoadSkills(plan.agents, W.skills) ELSE Ok(NoArgs)
             result == Gathered(guide, skilled)
  <1>1. Stage(from, result, "started")
    OBVIOUS
  <1>2. result = IF guide.ok /\ rules.ok /\ skills.ok
                 THEN Ok([guide |-> guide.val, rules |-> rules.val, skills |-> skills.val])
                 ELSE Err
    BY DEF Gathered
  <1>3. result.ok
    BY <1>1 DEF Stage
  <1>4. Seeds = plan.cfg.seeds
    BY DEF Seeds
  <1>5. /\ guide.ok /\ rules.ok /\ skills.ok
        /\ DOMAIN result.val = {"guide", "rules", "skills"} /\ result.val.guide = guide.val
        /\ result.val.rules = rules.val /\ result.val.skills = skills.val
    <2> HIDE DEF result, guide, rules, skills
    <2> QED BY <1>2, <1>3 DEF Ok, Err
  <1>6. Informed(W, plan.cfg, plan.agents, guide.val, rules.val, skills.val, guided, skilled)
    <2>1. /\ guide = LoadGuideForTask(plan.cfg.seeds, W.dirs, guided) /\ guide.ok
          /\ rules = LoadRules(plan.agents, plan.cfg.seeds, W.dirs) /\ rules.ok
          /\ skills = (IF skilled THEN LoadSkills(plan.agents, W.skills) ELSE Ok(NoArgs))
          /\ skills.ok
      BY <1>4, <1>5
    <2> HIDE DEF guide, rules, skills
    <2> QED BY <2>1, GatheredIs
  <1> HIDE DEF guide, rules, skills, result
  <1>7. DOMAIN result.val \subseteq PlanFields
        /\ {"guide", "rules", "skills"} \subseteq PlanFields
    BY <1>5 DEF PlanFields
  <1>8. /\ stage = from /\ stage' = "started" /\ world' = world /\ call' = call
        /\ DOMAIN plan' = PlanFields
        /\ \A x \in PlanFields : plan'[x] = IF x \in DOMAIN result.val THEN result.val[x]
                                            ELSE plan[x]
    BY <1>1, <1>7, StageAdds
  <1> QED BY <1>5, <1>6, <1>7, <1>8

LEMMA ContextKeeps ==
  ASSUME world \in Worlds, DOMAIN plan = PlanFields, BoundSteps(W, plan), Context,
         stage' # "refused"
  PROVE  /\ DOMAIN plan' = PlanFields /\ world' = world /\ call' = call
         /\ stage = "context" /\ stage' = "started" /\ LinearStarted(W, plan')
  <1>1. Stage("context", Gathered(LoadGuideForTask(Seeds, W.dirs, TRUE), TRUE), "started")
    BY DEF Context, LoadGuideForTask
  <1>2. IsConfig(plan.cfg)
    BY DEF BoundSteps, LinearFlow, Located
  <1>3. /\ DOMAIN plan' = PlanFields /\ world' = world /\ call' = call
        /\ stage = "context" /\ stage' = "started"
        /\ \A x \in PlanFields \ {"guide", "rules", "skills"} : plan'[x] = plan[x]
        /\ Informed(W, plan.cfg, plan.agents, plan'.guide, plan'.rules, plan'.skills, TRUE, TRUE)
    BY <1>1, <1>2, GatheredKeeps
  <1>4. {"cfg", "raw", "vars", "flow", "task", "agents", "audit"}
          \subseteq PlanFields \ {"guide", "rules", "skills"}
    BY DEF PlanFields
  <1>5. /\ plan'.cfg = plan.cfg /\ plan'.raw = plan.raw /\ plan'.vars = plan.vars
        /\ plan'.flow = plan.flow /\ plan'.task = plan.task /\ plan'.agents = plan.agents
        /\ plan'.audit = plan.audit
    BY <1>3, <1>4
  <1>6. LinearFlow(W, plan') /\ Clean(W, plan') /\ Audits(W, plan')
    BY Zenon, <1>5 DEF BoundSteps, LinearFlow, Located, Clean, Audits
  <1>7. BoundSteps(W, plan')
    BY <1>5, <1>6 DEF BoundSteps, Crew
  <1> QED BY <1>3, <1>5, <1>7 DEF LinearStarted

---------------------------------------------------------------------------
(* Graph flows, and agents by name.                                         *)

LEMMA GraphRolesAre ==
  ASSUME NEW cfg, IsConfig(cfg), NEW overrides, IsOverrides(overrides), NEW used,
         \A r \in used : ResolveRoleAgent(r, None, cfg, overrides) # None,
         NEW named,
         \A r \in named : \E i \in Given(overrides, r) : overrides[i].agent # None,
         NEW roles,
         roles = Over([r \in named |-> overrides[Max({i \in Given(overrides, r) :
                                                        overrides[i].agent # None})].agent],
                      Over([r \in used |-> ResolveRoleAgent(r, None, cfg, overrides)],
                           RoleAgentMap(cfg)))
  PROVE  \A r \in DOMAIN roles : roles[r] \in STRING
  <1> DEFINE Naming(r) == {i \in Given(overrides, r) : overrides[i].agent # None}
             a == [r \in named |-> overrides[Max(Naming(r))].agent]
             b == [r \in used |-> ResolveRoleAgent(r, None, cfg, overrides)]
             c == RoleAgentMap(cfg)
  <1>1. \A r \in named : a[r] \in STRING
    <2> SUFFICES ASSUME NEW r \in named PROVE overrides[Max(Naming(r))].agent \in STRING
      OBVIOUS
    <2>1. /\ Len(overrides) \in Nat /\ DOMAIN overrides = 1 .. Len(overrides)
          /\ \A i \in 1 .. Len(overrides) : overrides[i].agent \in STRING
      BY LayersAre
    <2>2. Naming(r) # {} /\ Naming(r) \subseteq 1 .. Len(overrides)
      BY <2>1 DEF Given
    <2> HIDE DEF Naming
    <2>3. Max(Naming(r)) \in 1 .. Len(overrides)
      BY <2>1, <2>2, MaxIs
    <2> QED BY <2>1, <2>3
  <1>2. \A r \in DOMAIN c : c[r] \in STRING
    BY DEF RoleAgentMap, IsConfig, IsRole
  <1>3. \A r \in used : b[r] \in STRING
    <2> SUFFICES ASSUME NEW r \in used PROVE ResolveRoleAgent(r, None, cfg, overrides) \in STRING
      OBVIOUS
    <2>1. AgentGiven(overrides, r) \in STRING \cup {None}
      BY GivenAre
    <2>2. r \in DOMAIN cfg.roles => cfg.roles[r].agent \in STRING
      BY DEF IsConfig, IsRole
    <2>3. ResolveRoleAgent(r, None, cfg, overrides) # None
      OBVIOUS
    <2> QED BY <2>1, <2>2, <2>3 DEF ResolveRoleAgent
  <1>4. DOMAIN a = named /\ DOMAIN b = used /\ roles = Over(a, Over(b, c))
    OBVIOUS
  <1> HIDE DEF a, b, c, Naming
  <1> QED BY <1>1, <1>2, <1>3, <1>4 DEF Over

LEMMA GraphBindKeeps ==
  ASSUME world \in Worlds, DOMAIN plan = PlanFields, GraphFound(W, plan), GraphBind,
         stage' # "refused"
  PROVE  /\ DOMAIN plan' = PlanFields /\ world' = world /\ call' = call
         /\ stage = "graph bind" /\ stage' = "graph substitute" /\ GraphBound(W, plan')
  <1> DEFINE f == plan.flow
             staffed == {i \in DOMAIN f.steps : Staffed(f.steps[i])}
             Agent(r) == ResolveRoleAgent(r, None, plan.cfg, W.overrides)
             used == {f.steps[i].role : i \in staffed}
             Naming(r) == {i \in Given(W.overrides, r) : W.overrides[i].agent # None}
             named == {r \in {W.overrides[i].role : i \in DOMAIN W.overrides} : Naming(r) # {}}
             roles == Over([r \in named |-> W.overrides[Max(Naming(r))].agent],
                           Over([r \in used |-> Agent(r)], RoleAgentMap(plan.cfg)))
             steps == [i \in DOMAIN f.steps |->
                         IF i \in staffed
                         THEN [f.steps[i] EXCEPT !.agent = Agent(f.steps[i].role)]
                         ELSE [f.steps[i] EXCEPT !.role = None]]
             new == [f EXCEPT !.roles = roles, !.steps = steps]
             ok == \A r \in used : r # None /\ Agent(r) # None
             result == IF ok THEN Ok([flow |-> new]) ELSE Err
  <1>1. Stage("graph bind", result, "graph substitute")
    BY ZenonT(40) DEF GraphBind
  <1>2. result.ok
    BY Zenon, <1>1 DEF Stage
  <1>3. ok /\ DOMAIN result.val = {"flow"} /\ result.val.flow = new
    <2> HIDE DEF ok, new
    <2> QED BY <1>2 DEF Ok, Err
  <1>4. /\ DOMAIN f = FlowFields /\ DOMAIN f.steps = DOMAIN plan.raw.steps
        /\ \A i \in DOMAIN f.steps : DOMAIN f.steps[i] = StepFields
    BY DEF GraphFound, Graph0, Steady
  <1>5. \A r \in DOMAIN roles : roles[r] \in STRING
    <2>1. IsConfig(plan.cfg) /\ IsOverrides(W.overrides)
      BY WorldIs DEF GraphFound, Graph0, Located, IsWorld, IsCommand, IsOverrides
    <2>2. \A r \in named : \E i \in Given(W.overrides, r) : W.overrides[i].agent # None
      OBVIOUS
    <2>3. \A r \in used : ResolveRoleAgent(r, None, plan.cfg, W.overrides) # None
      BY Zenon, <1>3
    <2>4. roles = Over([r \in named |-> W.overrides[Max({i \in Given(W.overrides, r) :
                                                        W.overrides[i].agent # None})].agent],
                      Over([r \in used |-> ResolveRoleAgent(r, None, plan.cfg, W.overrides)],
                           RoleAgentMap(plan.cfg)))
      OBVIOUS
    <2> HIDE DEF named, used, roles
    <2> QED BY ONLY <2>1, <2>2, <2>3, <2>4, GraphRolesAre
  <1> HIDE DEF ok, roles, staffed, named, used, Naming, Agent, result
  <1>6. /\ "roles" \in FlowFields /\ "steps" \in FlowFields
        /\ {"agent", "role"} \subseteq StepFields
        /\ {"shape", "prompt"} \subseteq FlowFields \ {"roles", "steps"}
        /\ {"id", "extra", "agents", "input", "task", "run"}
             \subseteq StepFields \ {"agent", "role"}
    BY DEF FlowFields, StepFields
  <1>7. /\ DOMAIN steps = DOMAIN f.steps
        /\ \A i \in DOMAIN f.steps :
              /\ DOMAIN steps[i] = StepFields
              /\ \A x \in StepFields \ {"agent", "role"} : steps[i][x] = f.steps[i][x]
    BY <1>4, <1>6
  <1> HIDE DEF steps
  <1>8. /\ DOMAIN new = FlowFields /\ new.steps = steps /\ new.roles = roles
        /\ \A x \in FlowFields \ {"roles", "steps"} : new[x] = f[x]
    BY <1>4, <1>6
  <1>9. /\ new.shape = f.shape /\ new.prompt = f.prompt
        /\ \A i \in DOMAIN f.steps :
              /\ steps[i].id = f.steps[i].id /\ steps[i].extra = f.steps[i].extra
              /\ steps[i].agents = f.steps[i].agents /\ steps[i].input = f.steps[i].input
              /\ steps[i].task = f.steps[i].task /\ steps[i].run = f.steps[i].run
    BY <1>6, <1>7, <1>8
  <1> HIDE DEF new
  <1>10. DOMAIN result.val \subseteq PlanFields
         /\ {"cfg", "raw", "vars", "flow"} \subseteq PlanFields
    BY <1>3 DEF PlanFields
  <1>11. /\ stage = "graph bind" /\ stage' = "graph substitute" /\ world' = world /\ call' = call
         /\ DOMAIN plan' = PlanFields
         /\ \A x \in PlanFields : plan'[x] = IF x \in DOMAIN result.val THEN result.val[x]
                                             ELSE plan[x]
    BY Zenon, <1>1, <1>10, StageAdds
  <1>12. /\ plan'.cfg = plan.cfg /\ plan'.raw = plan.raw /\ plan'.vars = plan.vars
         /\ plan'.flow = new
    BY Zenon, <1>3, <1>10, <1>11
  <1>13. Steady(plan.raw, new) /\ Worded(new)
    BY <1>4, <1>7, <1>8, <1>9 DEF GraphFound, Graph0, Steady, Worded
  <1>14. Graph0(W, plan')
    BY <1>12, <1>13 DEF GraphFound, Graph0, Located
  <1>15. Employed(W, plan'.cfg, plan'.raw)
    <2>1. \A i \in DOMAIN plan.raw.steps :
             /\ f.steps[i].role = plan.raw.steps[i].role
             /\ Staffed(f.steps[i]) <=> Staffed(plan.raw.steps[i])
      BY DEF GraphFound, RoleKept
    <2>2. \A i \in DOMAIN plan.raw.steps : Staffed(f.steps[i]) => f.steps[i].role \in used
      BY <1>4 DEF used, staffed
    <2>3. \A r \in used : \/ AgentGiven(W.overrides, r) # None
                          \/ r \in DOMAIN plan.cfg.roles
      BY <1>3 DEF ok, Agent, ResolveRoleAgent
    <2> HIDE DEF f
    <2> QED BY <1>12, <2>1, <2>2, <2>3 DEF Employed
  <1> QED BY ZenonT(40), <1>5, <1>8, <1>11, <1>12, <1>13, <1>14, <1>15 DEF GraphBound

LEMMA GraphSubstituteKeeps ==
  ASSUME world \in Worlds, DOMAIN plan = PlanFields, GraphBound(W, plan), GraphSubstitute,
         stage' # "refused"
  PROVE  /\ DOMAIN plan' = PlanFields /\ world' = world /\ call' = call
         /\ stage = "graph substitute" /\ stage' = "graph load" /\ GraphFilled(W, plan')
  <1> DEFINE f == plan.flow
             raw == plan.raw
             B == VarsBrought(W, plan.cfg)
             Text1(text) == Fill(text, plan.vars, f.roles)
             Run(text) == SubstituteVars(text, plan.vars)
             all == /\ Text1(f.prompt).ok
                    /\ \A i \in DOMAIN f.steps : Text1(f.steps[i].task).ok /\ Run(f.steps[i].run).ok
             text == IF W.task # <<>> THEN W.task ELSE f.prompt
             task == IF W.task # <<>> THEN Text1(W.task) ELSE Text1(f.prompt)
             steps == [i \in DOMAIN f.steps |->
                         [f.steps[i] EXCEPT !.task = Text1(f.steps[i].task).val,
                                            !.run = Run(f.steps[i].run).val]]
             new == [f EXCEPT !.steps = steps]
             result == IF ~all THEN Err ELSE IF ~task.ok THEN Err
                       ELSE Ok([flow |-> new, task |-> task.val])
  <1>1. Stage("graph substitute", result, "graph load")
    BY Zenon DEF GraphSubstitute
  <1>2. /\ DOMAIN f = FlowFields /\ f.shape = "graph" /\ raw.shape = "graph"
        /\ DOMAIN f.steps = DOMAIN raw.steps
        /\ \A i \in DOMAIN raw.steps : DOMAIN f.steps[i] = StepFields
    BY DEF GraphBound, GraphFound, Graph0, Steady
  <1>3. /\ f.prompt \in Texts
        /\ \A i \in DOMAIN f.steps : f.steps[i].task \in Texts /\ f.steps[i].run \in Texts
        /\ Brings(plan.vars, "var", B)
        /\ \A r \in DOMAIN f.roles : f.roles[r] \in STRING
        /\ W.task \in Texts
    BY WorldIs DEF GraphBound, GraphFound, Graph0, Located, Worded, IsWorld, IsCommand
  <1> HIDE DEF B
  <1>4. result.ok
    BY ZenonT(40), <1>1 DEF Stage
  <1>5. all /\ task.ok /\ DOMAIN result.val = {"flow", "task"} /\ result.val.flow = new
        /\ result.val.task = task.val
    <2> HIDE DEF all, task, new
    <2> QED BY <1>4 DEF Ok, Err
  <1>6. task.val \in Texts /\ Names("var", task.val) \subseteq B /\ Names("role", task.val) = {}
    <2>1. text \in Texts /\ task = Fill(text, plan.vars, f.roles)
      BY <1>3
    <2> HIDE DEF text, task
    <2> QED BY Zenon, <1>3, <1>5, <2>1, FillClean
  <1>7. \A i \in DOMAIN f.steps :
           /\ Names("var", Text1(f.steps[i].task).val) \subseteq B
           /\ Names("role", Text1(f.steps[i].task).val) = {}
           /\ Names("var", Run(f.steps[i].run).val) \subseteq B
    <2> SUFFICES ASSUME NEW i \in DOMAIN f.steps
                 PROVE  /\ Names("var", Text1(f.steps[i].task).val) \subseteq B
                        /\ Names("role", Text1(f.steps[i].task).val) = {}
                        /\ Names("var", Run(f.steps[i].run).val) \subseteq B
      OBVIOUS
    <2>1. Text1(f.steps[i].task).ok /\ Run(f.steps[i].run).ok
      BY Zenon, <1>5
    <2>2. /\ Text1(f.steps[i].task).val \in Texts
          /\ Names("var", Text1(f.steps[i].task).val) \subseteq B
          /\ Names("role", Text1(f.steps[i].task).val) = {}
      BY <1>3, <2>1, FillClean
    <2>3. /\ Run(f.steps[i].run).val \in Texts
          /\ Names("var", Run(f.steps[i].run).val) \subseteq B
      <3>1. \A v \in DOMAIN plan.vars :
               plan.vars[v] \in Texts /\ Names("var", plan.vars[v]) \subseteq B
        BY <1>3 DEF Brings
      <3> QED BY <1>3, <2>1, <3>1, SubstituteVarsClean
    <2> QED BY <2>2, <2>3
  <1> HIDE DEF Text1, Run, all, task
  <1>9. /\ "steps" \in FlowFields /\ {"task", "run"} \subseteq StepFields
        /\ "shape" \in FlowFields \ {"steps"}
        /\ {"id", "extra", "agents", "input"} \subseteq StepFields \ {"task", "run"}
    BY DEF FlowFields, StepFields
  <1>10. /\ DOMAIN steps = DOMAIN f.steps
         /\ \A i \in DOMAIN f.steps :
               /\ DOMAIN steps[i] = StepFields
               /\ \A x \in StepFields \ {"task", "run"} : steps[i][x] = f.steps[i][x]
               /\ steps[i].task = Text1(f.steps[i].task).val
               /\ steps[i].run = Run(f.steps[i].run).val
    BY Zenon, <1>2, <1>9
  <1> HIDE DEF steps
  <1>11. /\ DOMAIN new = FlowFields /\ new.steps = steps
         /\ \A x \in FlowFields \ {"steps"} : new[x] = f[x]
    BY <1>2, <1>9
  <1>12. \A i \in DOMAIN f.steps :
            /\ steps[i].id = f.steps[i].id /\ steps[i].extra = f.steps[i].extra
            /\ steps[i].agents = f.steps[i].agents /\ steps[i].input = f.steps[i].input
    BY <1>9, <1>10
  <1>13. new.shape = f.shape
    BY <1>9, <1>11
  <1> HIDE DEF new, result
  <1>14. DOMAIN result.val \subseteq PlanFields
         /\ {"cfg", "raw", "vars", "flow", "task"} \subseteq PlanFields
    BY <1>5 DEF PlanFields
  <1>15. /\ stage = "graph substitute" /\ stage' = "graph load" /\ world' = world
         /\ call' = call /\ DOMAIN plan' = PlanFields
         /\ \A x \in PlanFields : plan'[x] = IF x \in DOMAIN result.val THEN result.val[x]
                                             ELSE plan[x]
    BY Zenon, <1>1, <1>14, StageAdds
  <1>16. /\ plan'.cfg = plan.cfg /\ plan'.raw = plan.raw /\ plan'.vars = plan.vars
         /\ plan'.flow = new /\ plan'.task = task.val
    BY Zenon, <1>5, <1>14, <1>15
  <1>17. Steady(raw, new)
    BY <1>2, <1>10, <1>11, <1>12, <1>13 DEF GraphBound, GraphFound, Graph0, Steady
  <1>18. Graph0(W, plan')
    BY <1>16, <1>17 DEF GraphBound, GraphFound, Graph0, Located
  <1>22. Clean(W, plan')
    <2>1. \A i \in DOMAIN new.steps :
             /\ Names("var", new.steps[i].task) \subseteq B
             /\ Names("var", new.steps[i].run) \subseteq B
             /\ Names("role", new.steps[i].task) = {}
      <3>1. \A i \in DOMAIN f.steps :
               /\ Names("var", steps[i].task) \subseteq B
               /\ Names("var", steps[i].run) \subseteq B
               /\ Names("role", steps[i].task) = {}
        BY ONLY <1>7, <1>10
      <3> QED BY ONLY <1>10, <1>11, <3>1
    <2>2. B = VarsBrought(W, plan'.cfg)
      BY <1>16 DEF B
    <2>3. new.shape # "linear"
      BY <1>2, <1>13
    <2> QED BY ONLY <1>6, <1>16, <2>1, <2>2, <2>3 DEF Clean
  <1>23. Employed(W, plan'.cfg, plan'.raw)
    BY <1>16 DEF GraphBound
  <1> QED BY ZenonT(40), <1>15, <1>18, <1>22, <1>23 DEF GraphFilled

LEMMA PlainlyFilled == Filled(DefaultModel, DefaultBackend, <<>>, None)
  <1>1. <<>> \in Seq(Word)
    BY EmptySeq
  <1> QED BY <1>1, DefaultsAre DEF Filled

LEMMA GraphLoadKeeps ==
  ASSUME world \in Worlds, DOMAIN plan = PlanFields, GraphFilled(W, plan), GraphLoad,
         stage' # "refused"
  PROVE  /\ DOMAIN plan' = PlanFields /\ world' = world /\ call' = call
         /\ stage = "graph load" /\ stage' = "graph context" /\ GraphLoaded(W, plan')
  <1> DEFINE steps == plan.flow.steps
             pairs == RolePairs(steps)
             ids == {steps[i].agent : i \in {j \in DOMAIN steps : Staffed(steps[j])}}
             agents == LoadAgents(ids, Seeds, W.dirs, DefaultModel, DefaultBackend, plan.cfg)
             over == ApplyRoleOverlays(agents.val, pairs, plan.cfg)
             result == IF agents.ok THEN over ELSE Err
  <1>1. Stage("graph load", result, "graph context")
    BY Zenon DEF GraphLoad
  <1>2. result.ok
    BY Zenon, <1>1 DEF Stage
  <1>3. agents.ok /\ result = over
    <2> HIDE DEF agents, over
    <2> QED BY <1>2 DEF Err
  <1>4. IsSeeds(Seeds) /\ IsConfig(plan.cfg) /\ Seeds = plan.cfg.seeds
    BY DEF GraphFilled, Graph0, Located, IsConfig, Seeds
  <1>5. DOMAIN agents.val = ids /\ Team(agents.val, Seeds, W.dirs, plan.cfg, <<>>, None, {})
    <2>1. IsDirs(W.dirs) /\ agents.ok
      BY <1>3, DirsAre
    <2> HIDE DEF ids
    <2> QED BY <1>4, <2>1, PlainlyFilled, TeamLoaded
  <1> DEFINE crew == agents.val
  <1> HIDE DEF pairs, agents
  <1>6. /\ DOMAIN result.val = {"agents", "summaries"}
        /\ DOMAIN result.val.agents = ids
        /\ Team(result.val.agents, Seeds, W.dirs, plan.cfg, <<>>, None, pairs)
    <2>1. Team(crew, Seeds, W.dirs, plan.cfg, <<>>, None, {}) /\ over.ok /\ DOMAIN crew = ids
      BY <1>2, <1>3, <1>5
    <2>2. over = ApplyRoleOverlays(crew, pairs, plan.cfg)
      OBVIOUS
    <2> HIDE DEF crew, ids, over
    <2>3. IsConfig(plan.cfg) /\ ApplyRoleOverlays(crew, pairs, plan.cfg).ok
      BY <1>4, <2>1, <2>2
    <2>4. /\ DOMAIN ApplyRoleOverlays(crew, pairs, plan.cfg).val = {"agents", "summaries"}
          /\ DOMAIN ApplyRoleOverlays(crew, pairs, plan.cfg).val.agents = DOMAIN crew
          /\ Team(ApplyRoleOverlays(crew, pairs, plan.cfg).val.agents,
                  Seeds, W.dirs, plan.cfg, <<>>, None, pairs)
      BY ONLY <2>1, <2>3, TeamOverlaid
    <2> QED BY <1>3, <2>1, <2>2, <2>4
  <1> HIDE DEF over, result
  <1>7. GraphStaff(steps, result.val.agents)
    BY <1>6 DEF GraphStaff
  <1>8. DOMAIN result.val \subseteq PlanFields
        /\ {"cfg", "raw", "vars", "flow", "task", "agents"} \subseteq PlanFields
    BY <1>6 DEF PlanFields
  <1>9. /\ stage = "graph load" /\ stage' = "graph context" /\ world' = world /\ call' = call
        /\ DOMAIN plan' = PlanFields
        /\ \A x \in PlanFields : plan'[x] = IF x \in DOMAIN result.val THEN result.val[x]
                                            ELSE plan[x]
    BY Zenon, <1>1, <1>8, StageAdds
  <1>10. /\ plan'.cfg = plan.cfg /\ plan'.raw = plan.raw /\ plan'.vars = plan.vars
         /\ plan'.flow = plan.flow /\ plan'.task = plan.task /\ plan'.agents = result.val.agents
    BY Zenon, <1>6, <1>8, <1>9
  <1>11. GraphFilled(W, plan')
    BY <1>10 DEF GraphFilled, Graph0, Located, Clean
  <1> QED BY Zenon, <1>4, <1>6, <1>7, <1>9, <1>10, <1>11 DEF GraphLoaded, pairs

LEMMA GraphContextKeeps ==
  ASSUME world \in Worlds, DOMAIN plan = PlanFields, GraphLoaded(W, plan), GraphContext,
         stage' # "refused"
  PROVE  /\ DOMAIN plan' = PlanFields /\ world' = world /\ call' = call
         /\ stage = "graph context" /\ stage' = "started" /\ GraphStarted(W, plan')
  <1>1. Stage("graph context", Gathered(LoadGuideForTask(Seeds, W.dirs, TRUE), FALSE), "started")
    BY Zenon DEF GraphContext, LoadGuideForTask
  <1>2. IsConfig(plan.cfg)
    BY DEF GraphLoaded, GraphFilled, Graph0, Located
  <1>3. /\ DOMAIN plan' = PlanFields /\ world' = world /\ call' = call
        /\ stage = "graph context" /\ stage' = "started"
        /\ \A x \in PlanFields \ {"guide", "rules", "skills"} : plan'[x] = plan[x]
        /\ Informed(W, plan.cfg, plan.agents, plan'.guide, plan'.rules, plan'.skills, TRUE, FALSE)
    BY Zenon, <1>1, <1>2, GatheredKeeps
  <1>4. {"cfg", "raw", "vars", "flow", "task", "agents"}
          \subseteq PlanFields \ {"guide", "rules", "skills"}
    BY DEF PlanFields
  <1>5. /\ plan'.cfg = plan.cfg /\ plan'.raw = plan.raw /\ plan'.vars = plan.vars
        /\ plan'.flow = plan.flow /\ plan'.task = plan.task /\ plan'.agents = plan.agents
    BY Zenon, <1>3, <1>4
  <1>6. GraphFilled(W, plan')
    BY <1>5 DEF GraphLoaded, GraphFilled, Graph0, Located, Clean
  <1>7. GraphLoaded(W, plan')
    BY <1>5, <1>6 DEF GraphLoaded
  <1> QED BY Zenon, <1>3, <1>5, <1>7 DEF GraphStarted

LEMMA NamedKeeps ==
  ASSUME world \in Worlds, DOMAIN plan = PlanFields, IsConfig(plan.cfg),
         W.cmd \in {"task", "chat"}, Named, stage' # "refused"
  PROVE  /\ DOMAIN plan' = PlanFields /\ world' = world /\ call' = call
         /\ stage = "named" /\ stage' = "named context" /\ NamedLoaded(W, plan')
  <1> DEFINE ids == ToSet(W.agents)
             agents == LoadAgents(ids, Seeds, W.dirs, DefaultModel, DefaultBackend, plan.cfg)
             ready == /\ agents.ok
                      /\ W.cmd = "chat" =>
                            \A id \in DOMAIN agents.val : agents.val[id].backend # "api"
             flow == [shape |-> W.cmd, steps |-> TaskSteps(W.agents)]
             result == IF ready THEN Ok([agents |-> agents.val, task |-> W.task, flow |-> flow])
                       ELSE Err
  <1>1. Stage("named", result, "named context")
    BY Zenon DEF Named
  <1>2. result.ok
    BY Zenon, <1>1 DEF Stage
  <1>3. /\ ready /\ DOMAIN result.val = {"agents", "task", "flow"} /\ result.val.flow = flow
        /\ result.val.agents = agents.val /\ result.val.task = W.task
    <2> HIDE DEF ready, flow, agents
    <2> QED BY <1>2 DEF Ok, Err
  <1>4. IsSeeds(Seeds) /\ Seeds = plan.cfg.seeds
    BY DEF IsConfig, Seeds
  <1>5. DOMAIN agents.val = ids /\ Team(agents.val, Seeds, W.dirs, plan.cfg, <<>>, None, {})
    <2>1. IsDirs(W.dirs) /\ agents.ok
      BY <1>3, DirsAre
    <2> HIDE DEF ids
    <2> QED BY SMTT(40), <1>4, <2>1, PlainlyFilled, TeamLoaded
  <1> HIDE DEF agents, result, flow
  <1>6. DOMAIN result.val \subseteq PlanFields
        /\ {"cfg", "flow", "task", "agents"} \subseteq PlanFields
    BY <1>3 DEF PlanFields
  <1>7. /\ stage = "named" /\ stage' = "named context" /\ world' = world /\ call' = call
        /\ DOMAIN plan' = PlanFields
        /\ \A x \in PlanFields : plan'[x] = IF x \in DOMAIN result.val THEN result.val[x]
                                            ELSE plan[x]
    BY Zenon, <1>1, <1>6, StageAdds
  <1>8. /\ plan'.cfg = plan.cfg /\ plan'.flow = flow /\ plan'.task = W.task
        /\ plan'.agents = agents.val
    BY Zenon, <1>3, <1>6, <1>7
  <1> QED BY Zenon, <1>3, <1>4, <1>5, <1>7, <1>8 DEF NamedLoaded, flow

LEMMA NamedContextKeeps ==
  ASSUME world \in Worlds, DOMAIN plan = PlanFields, NamedLoaded(W, plan), NamedContext,
         stage' # "refused"
  PROVE  /\ DOMAIN plan' = PlanFields /\ world' = world /\ call' = call
         /\ stage = "named context" /\ stage' = "started" /\ NamedStarted(W, plan')
  <1>1. Stage("named context",
              Gathered(LoadGuideForTask(Seeds, W.dirs, W.include), TRUE), "started")
    BY Zenon DEF NamedContext
  <1>2. IsConfig(plan.cfg) /\ W.include \in BOOLEAN
    BY WorldIs DEF NamedLoaded, IsWorld, IsCommand
  <1>3. /\ DOMAIN plan' = PlanFields /\ world' = world /\ call' = call
        /\ stage = "named context" /\ stage' = "started"
        /\ \A x \in PlanFields \ {"guide", "rules", "skills"} : plan'[x] = plan[x]
        /\ Informed(W, plan.cfg, plan.agents, plan'.guide, plan'.rules, plan'.skills,
                    W.include, TRUE)
    BY Zenon, <1>1, <1>2, GatheredKeeps
  <1>4. {"cfg", "flow", "task", "agents"} \subseteq PlanFields \ {"guide", "rules", "skills"}
    BY DEF PlanFields
  <1>5. /\ plan'.cfg = plan.cfg /\ plan'.flow = plan.flow /\ plan'.task = plan.task
        /\ plan'.agents = plan.agents
    BY Zenon, <1>3, <1>4
  <1>7. NamedLoaded(W, plan')
    BY <1>5 DEF NamedLoaded
  <1> QED BY Zenon, <1>3, <1>5, <1>7 DEF NamedStarted

---------------------------------------------------------------------------
(* The invariant of all stages.                                             *)

LEMMA StageStep ==
  ASSUME SetupInv, stage \notin {"started", "failed"}, world' = world, call' = call,
         DOMAIN plan' = PlanFields, stage' \in Stages, Found(stage', W, plan')
  PROVE  SetupInv'
  <1>1. call = NoCall /\ world \in Worlds
    BY DEF SetupInv
  <1>2. W' = W
    BY DEF W
  <1>3. CallIs'
    BY <1>1 DEF CallIs, NoCall
  <1>4. call' = NoCall
    BY <1>1
  <1> QED BY <1>1, <1>2, <1>3, <1>4 DEF SetupInv, NoCall

LEMMA RefusedStep ==
  ASSUME SetupInv, stage \notin {"started", "failed"}, stage' = "refused",
         plan' = plan, world' = world, call' = call
  PROVE  SetupInv'
  <1>2. Found(stage', W, plan') /\ stage' \in Stages
    BY DEF Found, Stages
  <1>3. DOMAIN plan' = PlanFields
    BY DEF SetupInv
  <1> QED BY <1>2, <1>3, StageStep

\* A call changes nothing of what it was made from.
LEMMA CallStays ==
  ASSUME CallIs, plan' = plan, call' = call
  PROVE  CallIs'
  <1>1. CASE call = NoCall
    BY <1>1 DEF CallIs, NoCall
  <1>2. CASE ChatCalled
    BY <1>2 DEF CallIs, ChatCalled, Called, System
  <1>3. ASSUME NEW i \in DOMAIN plan.flow.steps, AgentCalled(i)
        PROVE  CallIs'
    BY ZenonT(40), <1>3 DEF CallIs, AgentCalled, Called, System
  <1>4. ASSUME NEW i \in DOMAIN plan.flow.steps, ShellCalled(i)
        PROVE  CallIs'
    BY Zenon, <1>4 DEF CallIs, ShellCalled, Called
  <1>5. ASSUME NEW i \in DOMAIN plan.flow.steps, ConversationCalled(i)
        PROVE  CallIs'
    BY <1>5 DEF CallIs, ConversationCalled, Called, System
  <1>6. ASSUME NEW i \in DOMAIN plan.flow.steps, StateCalled(i)
        PROVE  CallIs'
    BY ZenonT(40), <1>6 DEF CallIs, StateCalled, Called, System
  <1> QED BY <1>1, <1>2, <1>3, <1>4, <1>5, <1>6 DEF CallIs

LEMMA CallKeeps ==
  ASSUME SetupInv, Call
  PROVE  SetupInv'
  <1>0. /\ stage = "started" /\ CallIs /\ world \in Worlds /\ DOMAIN plan = PlanFields
        /\ LinearStarted(W, plan) \/ GraphStarted(W, plan) \/ NamedStarted(W, plan)
    BY DEF SetupInv, Call, Found
  <1>1. ASSUME plan' = plan, world' = world, stage' \in {"started", "failed"}, CallIs'
        PROVE  SetupInv'
    <2>1. W' = W
      BY <1>1 DEF W
    <2>2. stage' \in Stages
      BY Zenon, <1>1 DEF Stages
    <2>3. Found(stage', W', plan')
      BY Zenon, <1>0, <1>1, <2>1 DEF Found
    <2> QED BY <1>0, <1>1, <2>1, <2>2, <2>3 DEF SetupInv
  <1>2. CASE CallChat
    <2>1. ChatCalled'
      BY <1>2 DEF CallChat, ChatCalled, Calls, Called, System
    <2>2. plan' = plan /\ world' = world /\ stage' = stage
      BY <1>2 DEF CallChat
    <2> QED BY <1>0, <1>1, <2>1, <2>2 DEF CallIs
  <1>3. ASSUME NEW i \in DOMAIN plan.flow.steps, CallAgent(i)
        PROVE  SetupInv'
    <2>1. AgentCalled(i)'
      BY <1>3 DEF CallAgent, AgentCalled, Calls, Called, System
    <2>2. plan' = plan /\ world' = world /\ stage' = stage
      BY <1>3 DEF CallAgent
    <2> QED BY <1>0, <1>1, <2>1, <2>2 DEF CallIs
  <1>4. ASSUME NEW i \in DOMAIN plan.flow.steps, CallShell(i)
        PROVE  SetupInv'
    <2>1. ShellCalled(i)'
      BY <1>4 DEF CallShell, ShellCalled, Calls, Called
    <2>2. plan' = plan /\ world' = world /\ stage' = stage
      BY <1>4 DEF CallShell
    <2> QED BY <1>0, <1>1, <2>1, <2>2 DEF CallIs
  <1>5. ASSUME NEW i \in DOMAIN plan.flow.steps, CallConversation(i)
        PROVE  SetupInv'
    <2>1. plan' = plan /\ world' = world
      BY <1>5 DEF CallConversation
    <2>2. CASE \A id \in ToSet(plan.flow.steps[i].agents) :
                  plan.agents[id].backend = "claude-cli"
      <3>1. ConversationCalled(i)' /\ stage' = stage
        BY <1>5, <2>1, <2>2 DEF CallConversation, ConversationCalled, Calls, Called, System
      <3> QED BY <1>0, <1>1, <2>1, <3>1 DEF CallIs
    <2>3. CASE ~ \A id \in ToSet(plan.flow.steps[i].agents) :
                    plan.agents[id].backend = "claude-cli"
      <3>1. stage' = "failed" /\ call' = call
        BY <1>5, <2>3 DEF CallConversation
      <3> QED BY <1>0, <1>1, <2>1, <3>1, CallStays
    <2> QED BY <2>2, <2>3
  <1>6. ASSUME NEW i \in DOMAIN plan.flow.steps, CallState(i)
        PROVE  SetupInv'
    <2>1. plan' = plan /\ world' = world
      BY Zenon, <1>6 DEF CallState
    <2> DEFINE agent == plan.agents[plan.flow.steps[i].agent]
    <2>2. CASE agent.backend # "api"
      <3> DEFINE s == plan.flow.steps[i]
                 Argv(prior) == BuildCommand(agent.backend, agent.model, System(agent),
                                             BuildStateUserPrompt(plan.task, s, prior),
                                             ResolveExtraArgs(s, agent, agent.backend))
      <3>0. /\ plan.flow.shape = "graph" /\ Staffed(s) /\ stage' = stage
            /\ \E prior \in {0} \cup D!Ids(plan.flow.steps) :
                  call' = [step |-> s.id, agent |-> s.agent, argv |-> Argv(prior), seed |-> <<>>]
        BY ZenonT(40), <1>6, <2>2 DEF CallState, Calls
      <3>2. PICK prior \in {0} \cup D!Ids(plan.flow.steps) :
               call' = [step |-> s.id, agent |-> s.agent, argv |-> Argv(prior), seed |-> <<>>]
        BY Zenon, <3>0
      <3>3. Argv(prior)' = Argv(prior) /\ s' = s
        BY <2>1 DEF System
      <3>4. prior \in ({0} \cup D!Ids(plan.flow.steps))'
        BY <2>1
      <3>1. StateCalled(i)' /\ stage' = stage
        BY Zenon, <2>1, <3>0, <3>2, <3>3, <3>4 DEF StateCalled, Called
      <3> QED BY <1>0, <1>1, <2>1, <3>1 DEF CallIs
    <2>3. CASE agent.backend = "api"
      <3>1. stage' = "failed" /\ call' = call
        BY <1>6, <2>3 DEF CallState
      <3> QED BY <1>0, <1>1, <2>1, <3>1, CallStays
    <2> QED BY <2>2, <2>3
  <1> QED BY <1>2, <1>3, <1>4, <1>5, <1>6 DEF Call

LEMMA SetupInit ==
  ASSUME Init
  PROVE  SetupInv
  <1>1. DOMAIN plan = PlanFields /\ world \in Worlds /\ stage = "begin" /\ call = NoCall
    BY DEF Init
  <1>2. stage \in Stages /\ Found(stage, W, plan)
    BY <1>1 DEF Stages, Found
  <1> QED BY <1>1, <1>2 DEF SetupInv

LEMMA SetupStep ==
  ASSUME SetupInv, [Next]_setupVars
  PROVE  SetupInv'
  <1>0. world \in Worlds /\ DOMAIN plan = PlanFields /\ Found(stage, W, plan)
    BY DEF SetupInv
  <1>1. CASE UNCHANGED setupVars
    <2>1. world' = world /\ stage' = stage /\ plan' = plan /\ call' = call
      BY <1>1 DEF setupVars
    <2>2. W' = W
      BY <2>1 DEF W
    <2>3. CallIs => CallIs'
      BY <2>1, CallStays
    <2> QED BY <2>1, <2>2, <2>3 DEF SetupInv, NoCall
  <1>2. CASE LoadProject
    <2>1. stage = "begin"
      BY <1>2 DEF LoadProject, Stage
    <2>2. CASE stage' = "refused"
      <3>1. plan' = plan /\ world' = world /\ call' = call
        BY <1>2, <2>2 DEF LoadProject, Stage
      <3> QED BY <2>1, <2>2, <3>1, RefusedStep
    <2>3. CASE stage' # "refused"
      <3>1. /\ DOMAIN plan' = PlanFields /\ world' = world /\ call' = call
            /\ stage' \in Stages /\ Found(stage', W, plan')
        <4>1. /\ DOMAIN plan' = PlanFields /\ IsConfig(plan'.cfg) /\ world' = world
              /\ call' = call /\ stage' = IF W.cmd = "run" THEN "locate" ELSE "named"
          BY <1>0, <1>2, <2>3, LoadProjectKeeps
        <4>2. W.cmd \in {"run", "task", "chat"}
          BY <1>0, WorldIs DEF IsWorld, IsCommand
        <4> QED BY <4>1, <4>2 DEF Found, Stages
      <3> QED BY <2>1, <3>1, StageStep
    <2> QED BY <2>2, <2>3
  <1>3. CASE Locate
    <2>1. stage = "locate"
      BY <1>3 DEF Locate, Stage
    <2>2. CASE stage' = "refused"
      <3>1. plan' = plan /\ world' = world /\ call' = call
        BY <1>3, <2>2 DEF Locate, Stage
      <3> QED BY <2>1, <2>2, <3>1, RefusedStep
    <2>3. CASE stage' # "refused"
      <3>1. /\ DOMAIN plan' = PlanFields /\ world' = world /\ call' = call
            /\ stage' \in Stages /\ Found(stage', W, plan')
        BY Zenon, <1>0, <1>3, <2>1, <2>3, LocateKeeps DEF Found, Stages
      <3> QED BY <2>1, <3>1, StageStep
    <2> QED BY <2>2, <2>3
  <1>4. CASE Preflight
    <2>1. stage = "preflight"
      BY Zenon, <1>4 DEF Preflight, Stage
    <2>2. CASE stage' = "refused"
      <3>1. plan' = plan /\ world' = world /\ call' = call
        BY <1>4, <2>2 DEF Preflight, Stage
      <3> QED BY <2>1, <2>2, <3>1, RefusedStep
    <2>3. CASE stage' # "refused"
      <3>1. /\ DOMAIN plan' = PlanFields /\ world' = world /\ call' = call
            /\ stage' \in Stages /\ Found(stage', W, plan')
        BY Zenon, <1>0, <1>4, <2>1, <2>3, PreflightKeeps DEF Found, Stages
      <3> QED BY <2>1, <3>1, StageStep
    <2> QED BY <2>2, <2>3
  <1>5. CASE Parse
    <2>1. stage = "parse"
      BY <1>5 DEF Parse, Stage
    <2>2. CASE stage' = "refused"
      <3>1. plan' = plan /\ world' = world /\ call' = call
        BY <1>5, <2>2 DEF Parse, Stage
      <3> QED BY <2>1, <2>2, <3>1, RefusedStep
    <2>3. CASE stage' # "refused"
      <3>1. /\ DOMAIN plan' = PlanFields /\ world' = world /\ call' = call
            /\ stage' \in Stages /\ Found(stage', W, plan')
        BY Zenon, <1>0, <1>5, <2>1, <2>3, ParseKeeps DEF Found, Stages
      <3> QED BY <2>1, <3>1, StageStep
    <2> QED BY <2>2, <2>3
  <1>6. CASE Cascade
    <2>1. stage = "cascade"
      BY <1>6 DEF Cascade, Stage
    <2>2. CASE stage' = "refused"
      <3>1. plan' = plan /\ world' = world /\ call' = call
        BY <1>6, <2>2 DEF Cascade, Stage
      <3> QED BY <2>1, <2>2, <3>1, RefusedStep
    <2>3. CASE stage' # "refused"
      <3>1. /\ DOMAIN plan' = PlanFields /\ world' = world /\ call' = call
            /\ stage' \in Stages /\ Found(stage', W, plan')
        BY <1>0, <1>6, <2>1, <2>3, CascadeKeeps DEF Found, Stages
      <3> QED BY <2>1, <3>1, StageStep
    <2> QED BY <2>2, <2>3
  <1>7. CASE Substitute
    <2>1. stage = "substitute"
      BY Zenon, <1>7 DEF Substitute, Stage
    <2>2. CASE stage' = "refused"
      <3>1. plan' = plan /\ world' = world /\ call' = call
        BY <1>7, <2>2 DEF Substitute, Stage
      <3> QED BY SMTT(40), <2>1, <2>2, <3>1, RefusedStep
    <2>3. CASE stage' # "refused"
      <3>1. /\ DOMAIN plan' = PlanFields /\ world' = world /\ call' = call
            /\ stage' \in Stages /\ Found(stage', W, plan')
        BY <1>0, <1>7, <2>1, <2>3, SubstituteKeeps DEF Found, Stages
      <3> QED BY <2>1, <3>1, StageStep
    <2> QED BY <2>2, <2>3
  <1>8. CASE Load
    <2>1. stage = "load"
      BY <1>8 DEF Load, Stage
    <2>2. CASE stage' = "refused"
      <3>1. plan' = plan /\ world' = world /\ call' = call
        BY <1>8, <2>2 DEF Load, Stage
      <3> QED BY <2>1, <2>2, <3>1, RefusedStep
    <2>3. CASE stage' # "refused"
      <3>1. /\ DOMAIN plan' = PlanFields /\ world' = world /\ call' = call
            /\ stage' \in Stages /\ Found(stage', W, plan')
        BY <1>0, <1>8, <2>1, <2>3, LoadKeeps DEF Found, Stages
      <3> QED BY <2>1, <3>1, StageStep
    <2> QED BY <2>2, <2>3
  <1>9. CASE Overlay
    <2>1. stage = "overlay"
      BY <1>9 DEF Overlay, Stage
    <2>2. CASE stage' = "refused"
      <3>1. plan' = plan /\ world' = world /\ call' = call
        BY <1>9, <2>2 DEF Overlay, Stage
      <3> QED BY <2>1, <2>2, <3>1, RefusedStep
    <2>3. CASE stage' # "refused"
      <3>1. /\ DOMAIN plan' = PlanFields /\ world' = world /\ call' = call
            /\ stage' \in Stages /\ Found(stage', W, plan')
        BY <1>0, <1>9, <2>1, <2>3, OverlayKeeps DEF Found, Stages
      <3> QED BY <2>1, <3>1, StageStep
    <2> QED BY <2>2, <2>3
  <1>10. CASE Audit
    <2>1. stage = "audit"
      BY <1>10 DEF Audit, Stage
    <2>2. CASE stage' = "refused"
      <3>1. plan' = plan /\ world' = world /\ call' = call
        BY <1>10, <2>2 DEF Audit, Stage
      <3> QED BY <2>1, <2>2, <3>1, RefusedStep
    <2>3. CASE stage' # "refused"
      <3>1. /\ DOMAIN plan' = PlanFields /\ world' = world /\ call' = call
            /\ stage' \in Stages /\ Found(stage', W, plan')
        BY <1>0, <1>10, <2>1, <2>3, AuditKeeps DEF Found, Stages
      <3> QED BY <2>1, <3>1, StageStep
    <2> QED BY <2>2, <2>3
  <1>11. CASE Bind
    <2>1. stage = "bind"
      BY <1>11 DEF Bind, Stage
    <2>2. CASE stage' = "refused"
      <3>1. plan' = plan /\ world' = world /\ call' = call
        BY <1>11, <2>2 DEF Bind, Stage
      <3> QED BY <2>1, <2>2, <3>1, RefusedStep
    <2>3. CASE stage' # "refused"
      <3>1. /\ DOMAIN plan' = PlanFields /\ world' = world /\ call' = call
            /\ stage' \in Stages /\ Found(stage', W, plan')
        BY <1>0, <1>11, <2>1, <2>3, BindKeeps DEF Found, Stages
      <3> QED BY <2>1, <3>1, StageStep
    <2> QED BY <2>2, <2>3
  <1>12. CASE Context
    <2>1. stage = "context"
      BY <1>12 DEF Context, Stage
    <2>2. CASE stage' = "refused"
      <3>1. plan' = plan /\ world' = world /\ call' = call
        BY <1>12, <2>2 DEF Context, Stage
      <3> QED BY <2>1, <2>2, <3>1, RefusedStep
    <2>3. CASE stage' # "refused"
      <3>1. /\ DOMAIN plan' = PlanFields /\ world' = world /\ call' = call
            /\ stage' \in Stages /\ Found(stage', W, plan')
        BY <1>0, <1>12, <2>1, <2>3, ContextKeeps DEF Found, Stages
      <3> QED BY <2>1, <3>1, StageStep
    <2> QED BY <2>2, <2>3
  <1>13. CASE GraphBind
    <2>1. stage = "graph bind"
      BY Zenon, <1>13 DEF GraphBind, Stage
    <2>2. CASE stage' = "refused"
      <3>1. plan' = plan /\ world' = world /\ call' = call
        BY Zenon, <1>13, <2>2 DEF GraphBind, Stage
      <3> QED BY Zenon, <2>1, <2>2, <3>1, RefusedStep
    <2>3. CASE stage' # "refused"
      <3>1. /\ DOMAIN plan' = PlanFields /\ world' = world /\ call' = call
            /\ stage' \in Stages /\ Found(stage', W, plan')
        BY ZenonT(40), <1>0, <1>13, <2>1, <2>3, GraphBindKeeps DEF Found, Stages
      <3> QED BY Zenon, <2>1, <3>1, StageStep
    <2> QED BY <2>2, <2>3
  <1>14. CASE GraphSubstitute
    <2>1. stage = "graph substitute"
      BY Zenon, <1>14 DEF GraphSubstitute, Stage
    <2>2. CASE stage' = "refused"
      <3>1. plan' = plan /\ world' = world /\ call' = call
        BY Zenon, <1>14, <2>2 DEF GraphSubstitute, Stage
      <3> QED BY ZenonT(40), <2>1, <2>2, <3>1, RefusedStep
    <2>3. CASE stage' # "refused"
      <3>1. /\ DOMAIN plan' = PlanFields /\ world' = world /\ call' = call
            /\ stage' \in Stages /\ Found(stage', W, plan')
        BY Zenon, <1>0, <1>14, <2>1, <2>3, GraphSubstituteKeeps DEF Found, Stages
      <3> QED BY Zenon, <2>1, <3>1, StageStep
    <2> QED BY <2>2, <2>3
  <1>15. CASE GraphLoad
    <2>1. stage = "graph load"
      BY Zenon, <1>15 DEF GraphLoad, Stage
    <2>2. CASE stage' = "refused"
      <3>1. plan' = plan /\ world' = world /\ call' = call
        BY Zenon, <1>15, <2>2 DEF GraphLoad, Stage
      <3> QED BY Zenon, <2>1, <2>2, <3>1, RefusedStep
    <2>3. CASE stage' # "refused"
      <3>1. /\ DOMAIN plan' = PlanFields /\ world' = world /\ call' = call
            /\ stage' \in Stages /\ Found(stage', W, plan')
        BY Zenon, <1>0, <1>15, <2>1, <2>3, GraphLoadKeeps DEF Found, Stages
      <3> QED BY Zenon, <2>1, <3>1, StageStep
    <2> QED BY <2>2, <2>3
  <1>16. CASE GraphContext
    <2>1. stage = "graph context"
      BY Zenon, <1>16 DEF GraphContext, Stage
    <2>2. CASE stage' = "refused"
      <3>1. plan' = plan /\ world' = world /\ call' = call
        BY Zenon, <1>16, <2>2 DEF GraphContext, Stage
      <3> QED BY Zenon, <2>1, <2>2, <3>1, RefusedStep
    <2>3. CASE stage' # "refused"
      <3>1. /\ DOMAIN plan' = PlanFields /\ world' = world /\ call' = call
            /\ stage' \in Stages /\ Found(stage', W, plan')
        BY Zenon, <1>0, <1>16, <2>1, <2>3, GraphContextKeeps DEF Found, Stages
      <3> QED BY Zenon, <2>1, <3>1, StageStep
    <2> QED BY <2>2, <2>3
  <1>17. CASE Named
    <2>1. stage = "named"
      BY Zenon, <1>17 DEF Named, Stage
    <2>2. CASE stage' = "refused"
      <3>1. plan' = plan /\ world' = world /\ call' = call
        BY <1>17, <2>2 DEF Named, Stage
      <3> QED BY <2>1, <2>2, <3>1, RefusedStep
    <2>3. CASE stage' # "refused"
      <3>1. /\ DOMAIN plan' = PlanFields /\ world' = world /\ call' = call
            /\ stage' \in Stages /\ Found(stage', W, plan')
        BY Zenon, <1>0, <1>17, <2>1, <2>3, NamedKeeps DEF Found, Stages
      <3> QED BY <2>1, <3>1, StageStep
    <2> QED BY <2>2, <2>3
  <1>18. CASE NamedContext
    <2>1. stage = "named context"
      BY Zenon, <1>18 DEF NamedContext, Stage
    <2>2. CASE stage' = "refused"
      <3>1. plan' = plan /\ world' = world /\ call' = call
        BY Zenon, <1>18, <2>2 DEF NamedContext, Stage
      <3> QED BY Zenon, <2>1, <2>2, <3>1, RefusedStep
    <2>3. CASE stage' # "refused"
      <3>1. /\ DOMAIN plan' = PlanFields /\ world' = world /\ call' = call
            /\ stage' \in Stages /\ Found(stage', W, plan')
        BY Zenon, <1>0, <1>18, <2>1, <2>3, NamedContextKeeps DEF Found, Stages
      <3> QED BY Zenon, <2>1, <3>1, StageStep
    <2> QED BY <2>2, <2>3
  <1>19. CASE Call
    BY <1>19, CallKeeps
  <1> QED BY <1>1, <1>2, <1>3, <1>4, <1>5, <1>6, <1>7, <1>8, <1>9,
              <1>10, <1>11, <1>12, <1>13, <1>14, <1>15, <1>16, <1>17, <1>18, <1>19 DEF Next

(* What every stage leaves to the next stays so until the call: the         *)
(* configuration was read and accepted, the flow is the file that its name  *)
(* or path meant, every role is bound by a layer that says something, the   *)
(* agents, the rules, the skills and the guide are those of the first seeds *)
(* that have them, and the flow that runs is the flow that was bound        *)
(* (runner/mod.rs execute_flow, execute_graph_flow_setup; main.rs run_task; *)
(* chat.rs run_chat).                                                       *)
THEOREM SetupInvariant == Spec => []SetupInv
  <1>1. Init => SetupInv
    BY SetupInit
  <1>2. SetupInv /\ [Next]_setupVars => SetupInv'
    BY SetupStep
  <1> QED BY <1>1, <1>2, PTL DEF Spec

---------------------------------------------------------------------------
(* What a command line tells, and with what it runs.                        *)

Hear(argv) == UNION {ToSet(text) : text \in TextsOf(argv)}

LEMMA SpokenIs ==
  ASSUME NEW argv, NEW system, NEW S, Holds(system, S, S), NEW user, NEW U, Holds(user, U, U),
         Spoken(TextsOf(argv), system, user)
  PROVE  S \cup U \subseteq Hear(argv) /\ Hear(argv) \subseteq (S \cup U) \cup {<<"preamble">>}
  <1> DEFINE P == (S \cup U) \cup {<<"preamble">>}
             p == Preamble \o system
             both == system \o user
  <1>1. ToSet(system) = S /\ ToSet(user) = U
    BY DEF Holds
  <1>2. system \in Seq(P) /\ user \in Seq(P)
    <2>1. Holds(system, P, S) /\ Holds(user, P, U)
      BY HoldsIn
    <2> QED BY <2>1 DEF Holds
  <1>3. ToSet(p) = {<<"preamble">>} \cup S
    BY <1>1, <1>2, PreambleFirst
  <1>4. ToSet(both) = S \cup U
    BY <1>1, <1>2, Joined
  <1> HIDE DEF P, p, both
  <1>5. \/ TextsOf(argv) = {p, user} \/ TextsOf(argv) = {both} \/ TextsOf(argv) = {system, user}
    BY DEF Spoken, p, both
  <1>6. \/ Hear(argv) = ToSet(p) \cup ToSet(user) \/ Hear(argv) = ToSet(both)
        \/ Hear(argv) = ToSet(system) \cup ToSet(user)
    BY <1>5 DEF Hear
  <1> QED BY <1>1, <1>3, <1>4, <1>6

LEMMA HeardIs ==
  ASSUME NEW argv, NEW system, NEW S, Holds(system, S, S), Heard(TextsOf(argv), system)
  PROVE  S \subseteq Hear(argv) /\ Hear(argv) \subseteq S \cup {<<"preamble">>}
  <1> DEFINE P == S \cup {<<"preamble">>}
             p == Preamble \o system
  <1>1. ToSet(system) = S
    BY DEF Holds
  <1>2. system \in Seq(P)
    <2>1. Holds(system, P, S)
      BY HoldsIn
    <2> QED BY <2>1 DEF Holds
  <1>3. ToSet(p) = {<<"preamble">>} \cup S
    BY <1>1, <1>2, PreambleFirst
  <1> HIDE DEF P, p
  <1>5. TextsOf(argv) = {p} \/ TextsOf(argv) = {system}
    BY DEF Heard, p
  <1>6. Hear(argv) = ToSet(p) \/ Hear(argv) = ToSet(system)
    BY <1>5 DEF Hear
  <1> QED BY <1>1, <1>3, <1>6

\* The texts of a command line: the system prompt and, unless it goes another
\* way, what the step asks in U.
Voiced(texts, system, U) ==
  \/ Heard(texts, system)
  \/ \E user : Spoken(texts, system, user) /\ Holds(user, U, U)

LEMMA RunsStarts ==
  ASSUME NEW argv, NEW P, NEW backend, NEW model, NEW extra, Runs(argv, P, backend, model, extra),
         NEW meant, meant.backend = backend, meant.model = model, meant.extra = extra
  PROVE  Starts(argv, meant)
  <1>1. \A i \in DOMAIN argv : argv[i] \in ToSet(argv)
    BY DEF ToSet
  <1> QED BY <1>1 DEF Runs, Starts

\* A command line that says all of S and U and nothing else, and runs this.
Does(argv, system, S, U, backend, model, extra) ==
  /\ Voiced(TextsOf(argv), system, U)
  /\ S \cup U \subseteq Hear(argv) /\ Hear(argv) \subseteq (S \cup U) \cup {<<"preamble">>}
  /\ \A meant : meant.backend = backend /\ meant.model = model /\ meant.extra = extra
        => Starts(argv, meant)

LEMMA CommandDoes ==
  ASSUME NEW backend \in Backends, NEW model \in Seq(Word), NEW extra \in Seq(Word),
         NEW system, NEW S, Holds(system, S, S), NEW user, NEW U, Holds(user, U, U)
  PROVE  Does(BuildCommand(backend, model, system, user, extra), system, S, U, backend, model, extra)
  <1> DEFINE P == (S \cup U) \cup {<<"preamble">>}
             argv == BuildCommand(backend, model, system, user, extra)
  <1>1. system \in Seq(P) /\ user \in Seq(P) /\ <<"preamble">> \in P
    <2>1. Holds(system, P, S) /\ Holds(user, P, U)
      BY HoldsIn
    <2> QED BY <2>1 DEF Holds
  <1> HIDE DEF P
  <1>2. Runs(argv, P, backend, model, extra) /\ Spoken(TextsOf(argv), system, user)
    BY <1>1, BuildCommandIs
  <1> HIDE DEF argv
  <1>3. S \cup U \subseteq Hear(argv) /\ Hear(argv) \subseteq (S \cup U) \cup {<<"preamble">>}
    BY <1>2, SpokenIs
  <1>4. \A meant : meant.backend = backend /\ meant.model = model /\ meant.extra = extra
           => Starts(argv, meant)
    BY <1>2, RunsStarts
  <1>5. Voiced(TextsOf(argv), system, U)
    BY <1>2 DEF Voiced
  <1> QED BY <1>3, <1>4, <1>5 DEF Does, argv

LEMMA ChatDoes ==
  ASSUME NEW backend \in Backends, backend # "api", NEW model \in Seq(Word),
         NEW extra \in Seq(Word), NEW system, NEW S, Holds(system, S, S)
  PROVE  Does(BuildChat(backend, model, system, extra), system, S, {}, backend, model, extra)
  <1> DEFINE P == S \cup {<<"preamble">>}
             argv == BuildChat(backend, model, system, extra)
  <1>1. system \in Seq(P) /\ <<"preamble">> \in P
    <2>1. Holds(system, P, S)
      BY HoldsIn
    <2> QED BY <2>1 DEF Holds
  <1> HIDE DEF P
  <1>2. Runs(argv, P, backend, model, extra) /\ Heard(TextsOf(argv), system)
    BY <1>1, BuildChatIs
  <1> HIDE DEF argv
  <1>3. S \subseteq Hear(argv) /\ Hear(argv) \subseteq S \cup {<<"preamble">>}
    BY <1>2, HeardIs
  <1>4. \A meant : meant.backend = backend /\ meant.model = model /\ meant.extra = extra
           => Starts(argv, meant)
    BY <1>2, RunsStarts
  <1>5. Voiced(TextsOf(argv), system, {})
    BY <1>2 DEF Voiced
  <1> QED BY <1>3, <1>4, <1>5 DEF Does, argv

LEMMA SessionDoes ==
  ASSUME NEW model \in Seq(Word), NEW extra \in Seq(Word), NEW system, NEW S, Holds(system, S, S)
  PROVE  Does(BuildClaudeInteractive(model, system, extra), system, S, {}, "claude-cli", model, extra)
  <1> DEFINE P == S \cup {<<"preamble">>}
             argv == BuildClaudeInteractive(model, system, extra)
  <1>1. system \in Seq(P) /\ <<"preamble">> \in P
    <2>1. Holds(system, P, S)
      BY HoldsIn
    <2> QED BY <2>1 DEF Holds
  <1> HIDE DEF P
  <1>2. Runs(argv, P, "claude-cli", model, extra) /\ Heard(TextsOf(argv), system)
    BY <1>1, ClaudeInteractiveIs
  <1> HIDE DEF argv
  <1>3. S \subseteq Hear(argv) /\ Hear(argv) \subseteq S \cup {<<"preamble">>}
    BY <1>2, HeardIs
  <1>4. \A meant : meant.backend = "claude-cli" /\ meant.model = model /\ meant.extra = extra
           => Starts(argv, meant)
    BY <1>2, RunsStarts
  <1>5. Voiced(TextsOf(argv), system, {})
    BY <1>2 DEF Voiced
  <1> QED BY <1>3, <1>4, <1>5 DEF Does, argv

LEMMA ShellTells ==
  ASSUME NEW run
  PROVE  Hear(Flags(<<"sh", "-c">>) \o Text(<<<<"run", run>>>>)) = {<<"run", run>>}
  <1> DEFINE P == {<<"run", run>>}
             t == <<<<"run", run>>>>
             f == <<"sh", "-c">>
             m == <<>>
  <1>1. t \in Seq(P) /\ ToSet(t) = P
    BY Singleton DEF ToSet
  <1>2. f \in Seq(Word) /\ Len(f) > 0
    <2>1. "sh" \in Word /\ "-c" \in Word
      BY DEF Word
    <2> QED BY <2>1, Pair
  <1> HIDE DEF P, t, f, m
  <1>3. Opening(Flags(f), P, f[1], m, {})
    BY <1>2, OpeningFlags
  <1>4. Opening(Flags(f) \o Text(t), P, f[1], m, {} \cup {t})
    BY <1>1, <1>3, OpeningWithText
  <1>5. TextsOf(Flags(f) \o Text(t)) = {t}
    BY <1>4 DEF Opening
  <1>6. Hear(Flags(f) \o Text(t)) = ToSet(t)
    BY <1>5 DEF Hear
  <1> QED BY <1>1, <1>6 DEF P, t, f

---------------------------------------------------------------------------
(* Steps and agents as a run has them.                                      *)

StepTyped(s) == s.input \in Seq(Nat) /\ \A b \in DOMAIN s.extra : s.extra[b] \in Seq(Word)

LEMMA RawStepTyped ==
  ASSUME NEW raw, IsRawFlow(raw), NEW flow, Steady(raw, flow), NEW i \in DOMAIN flow.steps
  PROVE  StepTyped(flow.steps[i])
  <1>1. \A s \in Seq(STRING) : s \in Seq(Word)
    BY Widen DEF Word
  <1>2. /\ i \in DOMAIN raw.steps /\ IsRawStep(raw.steps[i])
        /\ flow.steps[i].extra = raw.steps[i].extra /\ flow.steps[i].input = raw.steps[i].input
    BY DEF Steady, IsRawFlow
  <1> QED BY <1>1, <1>2 DEF IsRawStep, IsExtra, StepTyped

LEMMA NamedStepIs ==
  ASSUME NEW names \in Seq(STRING), NEW i \in DOMAIN TaskSteps(names)
  PROVE  /\ StepTyped(TaskSteps(names)[i]) /\ i \in DOMAIN names
         /\ TaskSteps(names)[i].agent = names[i] /\ names[i] \in ToSet(names)
         /\ TaskSteps(names)[i].model = <<>> /\ TaskSteps(names)[i].backend = None
         /\ TaskSteps(names)[i].extra = NoArgs
  <1> DEFINE input == IF i = 1 THEN <<>> ELSE <<i - 1>>
             s == [BareStep EXCEPT !.id = i, !.agent = names[i], !.input = input]
  <1>1. i \in DOMAIN names /\ TaskSteps(names)[i] = s
    BY DEF TaskSteps
  <1>2. i \in Nat /\ i >= 1
    BY <1>1, LenProperties
  <1>3. input \in Seq(Nat)
    <2>1. <<>> \in Seq(Nat) /\ (i # 1 => i - 1 \in Nat)
      BY <1>2, EmptySeq
    <2> QED BY <2>1, Singleton
  <1>4. names[i] \in ToSet(names)
    BY <1>1 DEF ToSet
  <1> HIDE DEF input
  <1>5. /\ s.input = input /\ s.extra = NoArgs /\ s.agent = names[i] /\ s.model = <<>>
        /\ s.backend = None
    BY DEF BareStep
  <1>6. DOMAIN NoArgs = {}
    BY NoOverlayIs
  <1> HIDE DEF s
  <1> QED BY <1>1, <1>3, <1>4, <1>5, <1>6 DEF StepTyped

AgentTyped(a) ==
  /\ a.model \in Seq(Word) /\ a.backend \in Backends
  /\ a.rules \in Seq(Word) /\ a.skills \in Seq(Word)
  /\ \A b \in DOMAIN a.extra : a.extra[b] \in Seq(Word)

LEMMA ExtraArgsTyped ==
  ASSUME NEW s, StepTyped(s), NEW a, AgentTyped(a), NEW backend
  PROVE  ResolveExtraArgs(s, a, backend) \in Seq(Word)
  <1>1. <<>> \in Seq(Word)
    BY EmptySeq
  <1> QED BY <1>1 DEF StepTyped, AgentTyped, ResolveExtraArgs

LEMMA BareStepTyped == StepTyped(BareStep) /\ BareStep.extra = NoArgs
  <1>1. BareStep.input = <<>> /\ BareStep.extra = NoArgs
    BY DEF BareStep
  <1>2. <<>> \in Seq(Nat) /\ DOMAIN NoArgs = {}
    BY EmptySeq, NoOverlayIs
  <1> QED BY <1>1, <1>2 DEF StepTyped

LEMMA CascadeTyped ==
  ASSUME NEW a, AgentTyped(a), NEW cfg, IsConfig(cfg), NEW overrides, IsOverrides(overrides),
         NEW r, NEW flowAgent
  PROVE  /\ ResolveCascade(r, flowAgent, a, cfg, overrides).model \in Seq(Word)
         /\ ResolveCascade(r, flowAgent, a, cfg, overrides).backend \in Backends
  <1>1. ModelGiven(overrides, r) \in Seq(Word)
    BY GivenAre
  <1>2. ProjectRole(cfg, r).model \in Seq(Word)
    <2>1. <<>> \in Seq(Word)
      BY EmptySeq
    <2> QED BY <2>1 DEF ProjectRole, NoRole, IsConfig, IsRole
  <1>3. ResolveCascade(r, flowAgent, a, cfg, overrides).model
          = IF ModelGiven(overrides, r) # <<>> THEN ModelGiven(overrides, r)
            ELSE IF ProjectRole(cfg, r).model # <<>> THEN ProjectRole(cfg, r).model
            ELSE a.model
    BY DEF ResolveCascade
  <1>4. ResolveCascade(r, flowAgent, a, cfg, overrides).backend \in {"api", "claude-cli", a.backend}
    BY DEF ResolveCascade, ProjectBackendToRuntime
  <1> QED BY <1>1, <1>2, <1>3, <1>4 DEF AgentTyped, Backends

\* Which command has come this far.
LEMMA StartedIs ==
  ASSUME SetupInv, stage = "started"
  PROVE  \/ plan.flow.shape = "linear" /\ W.cmd = "run" /\ LinearStarted(W, plan)
         \/ plan.flow.shape = "graph" /\ W.cmd = "run" /\ GraphStarted(W, plan)
         \/ /\ plan.flow.shape \in {"task", "chat"} /\ W.cmd = plan.flow.shape
            /\ NamedStarted(W, plan)
  <1>1. LinearStarted(W, plan) \/ GraphStarted(W, plan) \/ NamedStarted(W, plan)
    BY DEF SetupInv, Found
  <1>2. LinearStarted(W, plan) => plan.flow.shape = "linear" /\ W.cmd = "run"
    BY DEF LinearStarted, BoundSteps, LinearFlow, Located, Steady
  <1>3. GraphStarted(W, plan) => plan.flow.shape = "graph" /\ W.cmd = "run"
    BY DEF GraphStarted, GraphLoaded, GraphFilled, Graph0, Located, Steady
  <1>4. NamedStarted(W, plan) => plan.flow.shape \in {"task", "chat"} /\ W.cmd = plan.flow.shape
    BY DEF NamedStarted, NamedLoaded
  <1> QED BY <1>1, <1>2, <1>3, <1>4

\* What agents run with when their files say nothing.
DefaultOf(p) == IF p.flow.shape = "linear" THEN [model |-> p.raw.model, backend |-> p.raw.backend]
                ELSE [model |-> <<>>, backend |-> None]

LEMMA CrewIs ==
  ASSUME SetupInv, stage = "started", NEW id \in DOMAIN plan.agents
  PROVE  /\ AgentIs(plan.agents[id], id, Seeds, W.dirs, plan.cfg, DefaultOf(plan).model,
                    DefaultOf(plan).backend, Overlaid(id))
         /\ AgentTyped(plan.agents[id])
  <1> DEFINE pairs == IF plan.flow.shape \in {"task", "chat"} THEN {}
                      ELSE RolePairs(plan.flow.steps)
             d == DefaultOf(plan)
  <1>1. Overlaid(id) = OverlaidBy(pairs, plan.cfg, id)
    BY DEF Overlaid
  <1>2. Team(plan.agents, Seeds, W.dirs, plan.cfg, d.model, d.backend, pairs)
    <2>1. CASE plan.flow.shape = "linear" /\ LinearStarted(W, plan)
      <3>1. Team(plan.agents, plan.cfg.seeds, W.dirs, plan.cfg, plan.raw.model,
                 plan.raw.backend, RolePairs(plan.flow.steps))
        BY <2>1 DEF LinearStarted, BoundSteps, Crew
      <3> QED BY <2>1, <3>1 DEF Seeds, DefaultOf
    <2>2. CASE plan.flow.shape = "graph" /\ GraphStarted(W, plan)
      <3>1. Team(plan.agents, plan.cfg.seeds, W.dirs, plan.cfg, <<>>, None,
                 RolePairs(plan.flow.steps))
        BY <2>2 DEF GraphStarted, GraphLoaded
      <3> QED BY <2>2, <3>1 DEF Seeds, DefaultOf
    <2>3. CASE plan.flow.shape \in {"task", "chat"} /\ NamedStarted(W, plan)
      <3>1. Team(plan.agents, plan.cfg.seeds, W.dirs, plan.cfg, <<>>, None, {})
        BY <2>3 DEF NamedStarted, NamedLoaded
      <3> QED BY <2>3, <3>1 DEF Seeds, DefaultOf
    <2> QED BY <2>1, <2>2, <2>3, StartedIs
  <1> HIDE DEF pairs, d
  <1>3. AgentIs(plan.agents[id], id, Seeds, W.dirs, plan.cfg, d.model, d.backend, Overlaid(id))
    BY <1>1, <1>2 DEF Team
  <1>4. AgentTyped(plan.agents[id])
    BY <1>3 DEF AgentIs, AgentTyped
  <1> QED BY <1>3, <1>4 DEF d

LEMMA CachesAre ==
  ASSUME SetupInv, stage = "started"
  PROVE  Informed(W, plan.cfg, plan.agents, plan.guide, plan.rules, plan.skills,
                  W.cmd = "run" \/ W.include, plan.flow.shape # "graph")
  <1>1. CASE plan.flow.shape = "linear" /\ W.cmd = "run" /\ LinearStarted(W, plan)
    <2>1. Informed(W, plan.cfg, plan.agents, plan.guide, plan.rules, plan.skills, TRUE, TRUE)
      BY <1>1 DEF LinearStarted
    <2> QED BY <1>1, <2>1 DEF Informed
  <1>2. CASE plan.flow.shape = "graph" /\ W.cmd = "run" /\ GraphStarted(W, plan)
    <2>1. Informed(W, plan.cfg, plan.agents, plan.guide, plan.rules, plan.skills, TRUE, FALSE)
      BY <1>2 DEF GraphStarted
    <2> QED BY <1>2, <2>1 DEF Informed
  <1>3. CASE /\ plan.flow.shape \in {"task", "chat"} /\ W.cmd = plan.flow.shape
             /\ NamedStarted(W, plan)
    <2>1. Informed(W, plan.cfg, plan.agents, plan.guide, plan.rules, plan.skills, W.include, TRUE)
      BY <1>3 DEF NamedStarted
    <2>2. W.include \in BOOLEAN
      BY WorldIs DEF SetupInv, IsWorld, IsCommand
    <2>3. (W.cmd = "run" \/ W.include) = W.include /\ (plan.flow.shape # "graph") = TRUE
      BY <1>3, <2>2
    <2> QED BY ONLY <2>1, <2>3
  <1> QED BY <1>1, <1>2, <1>3, StartedIs

SystemOf(id) == SystemParts(plan.agents[id], plan.guide, plan.rules, plan.skills)

LEMMA SystemHolds ==
  ASSUME SetupInv, stage = "started", NEW id \in DOMAIN plan.agents
  PROVE  Holds(System(plan.agents[id]), SystemOf(id), SystemOf(id))
  <1> DEFINE g == <<"guide", GuideSeed(plan.cfg.seeds, W.dirs)>>
  <1>1. plan.guide \in Seq({g})
    <2>1. plan.guide = <<g>> \/ plan.guide = <<>>
      BY CachesAre DEF Informed
    <2> HIDE DEF g
    <2>2. <<g>> \in Seq({g}) /\ <<>> \in Seq({g})
      BY Singleton, EmptySeq
    <2> QED BY <2>1, <2>2
  <1>2. plan.agents[id].rules \in Seq(Word) /\ plan.agents[id].skills \in Seq(Word)
    BY CrewIs DEF AgentTyped
  <1> HIDE DEF g
  <1> QED BY <1>1, <1>2, SystemIs DEF System, SystemOf

---------------------------------------------------------------------------
(* What a call runs and what its agent is told.                             *)

\* What a step asks of its agent.
Asks(p, i) ==
  \/ p = <<"task", plan.task>> \/ p = <<"step", plan.flow.steps[i].task>>
  \/ p[1] \in {"output of", "menu"}

LEMMA AsksAre ==
  ASSUME NEW i
  PROVE  /\ \A p \in UserParts(plan.task, plan.flow.steps[i]) : Asks(p, i)
         /\ \A prior : \A p \in StateParts(plan.task, plan.flow.steps[i], prior) : Asks(p, i)
  <1> DEFINE t == plan.task
             s == plan.flow.steps[i]
  <1>1. \A k, text, p : p \in TextParts(k, text) => p = <<k, text>>
    BY DEF TextParts
  <1>2. ASSUME NEW p \in UserParts(t, s) PROVE Asks(p, i)
    <2>1. \/ p = <<"task", t>> \/ p \in TextParts("step", s.task)
          \/ p \in {<<"output of", n>> : n \in ToSet(s.input)}
      BY Zenon, <1>2 DEF UserParts
    <2>2. ASSUME p \in {<<"output of", n>> : n \in ToSet(s.input)} PROVE p[1] = "output of"
      <3> DEFINE T == ToSet(s.input)
      <3> HIDE DEF T
      <3>1. PICK n \in T : p = <<"output of", n>>
        BY Zenon, <2>2 DEF T
      <3> QED BY Zenon, <3>1
    <2> QED BY Zenon, <1>1, <2>1, <2>2 DEF Asks
  <1>3. ASSUME NEW prior, NEW p \in StateParts(t, s, prior) PROVE Asks(p, i)
    <2>1. \/ p \in TextParts("task", t) \/ p \in TextParts("step", s.task)
          \/ p = <<"output of", prior>> \/ p = <<"menu">>
      BY Zenon, <1>3 DEF StateParts
    <2>2. <<"output of", prior>>[1] = "output of" /\ <<"menu">>[1] = "menu"
      OBVIOUS
    <2> QED BY Zenon, <1>1, <2>1, <2>2 DEF Asks
  <1> QED BY <1>2, <1>3

\* What a step runs with, when its agent says the rest.
ModelOf(s) == IF s.model # <<>> THEN s.model ELSE plan.agents[s.agent].model
BackendOf(s) == IF s.backend # None THEN s.backend ELSE plan.agents[s.agent].backend
ArgsOf(s) == ResolveExtraArgs(s, plan.agents[s.agent], BackendOf(s))

LEMMA LinearStepTyped ==
  ASSUME SetupInv, stage = "started", LinearStarted(W, plan), plan.flow.shape = "linear",
         NEW i \in DOMAIN plan.flow.steps, plan.flow.steps[i].agent \in DOMAIN plan.agents
  PROVE  /\ StepTyped(plan.flow.steps[i])
         /\ plan.flow.steps[i].model \in Seq(Word)
         /\ plan.flow.steps[i].backend \in Backends \cup {None}
  <1> DEFINE s == plan.flow.steps[i]
             t == plan.raw.steps[i]
             r == t.role
             a == plan.agents[s.agent]
             c == ResolveCascade(r, plan.flow.roles[r], a, plan.cfg, W.overrides)
  <1>1. /\ IsConfig(plan.cfg) /\ IsRawFlow(plan.raw) /\ Steady(plan.raw, plan.flow)
        /\ RoleBound(plan.raw, plan.flow) /\ Audits(W, plan) /\ BoundBy(plan.raw, plan.flow, plan.audit)
    BY DEF LinearStarted, BoundSteps, LinearFlow, Located
  <1>2. StepTyped(s)
    BY <1>1, RawStepTyped
  <1>3. \A x \in Seq(STRING) : x \in Seq(Word)
    BY Widen DEF Word
  <1>4. /\ i \in DOMAIN plan.raw.steps /\ t.model \in Seq(Word)
        /\ t.backend \in Backends \cup {None}
    BY <1>1, <1>3 DEF Steady, IsRawFlow, IsRawStep
  <1>5. AgentTyped(a)
    BY CrewIs
  <1>6. IsOverrides(W.overrides)
    BY WorldIs DEF IsWorld, IsCommand, IsOverrides, SetupInv
  <1>7. c.model \in Seq(Word) /\ c.backend \in Backends
    BY ZenonT(40), <1>1, <1>5, <1>6, CascadeTyped
  <1>8. r # None => plan.audit[r] = c
    BY ZenonT(30), <1>1, <1>4 DEF Audits, RoleBound
  <1> HIDE DEF c
  <1>9. /\ s.model = IF r # None /\ t.model = <<>> THEN plan.audit[r].model ELSE t.model
        /\ s.backend = IF r # None /\ t.backend = None THEN plan.audit[r].backend ELSE t.backend
    BY <1>1, <1>4 DEF BoundBy
  <1> QED BY <1>2, <1>4, <1>7, <1>8, <1>9

\* An agent at work on step i: all it is told is its system prompt, what the
\* step asks in U, and the preamble.
Working(i, id, U) ==
  /\ i \in DOMAIN plan.flow.steps /\ call.step = plan.flow.steps[i].id
  /\ call.agent = id /\ id \in DOMAIN plan.agents
  /\ SystemOf(id) \cup U \subseteq Told
  /\ Told \subseteq (SystemOf(id) \cup U) \cup {<<"preamble">>}
  /\ Voiced(TextsOf(call.argv), System(plan.agents[id]), U)
  /\ \A p \in U : Asks(p, i)
  /\ \A p \in ToSet(call.seed) : Asks(p, i)

LEMMA CalledIs ==
  ASSUME NEW step, NEW id, NEW argv, NEW seed, Called(step, id, argv, seed)
  PROVE  /\ call.step = step.id /\ call.agent = id /\ call.argv = argv /\ call.seed = seed
         /\ Told = Hear(argv)
  BY DEF Called, Told, Hear

LEMMA NoSeed == ToSet(<<>>) = {}
  BY DEF ToSet

LEMMA AgentAtWork ==
  ASSUME SetupInv, stage = "started", NEW i \in DOMAIN plan.flow.steps, AgentCalled(i)
  PROVE  /\ Working(i, plan.flow.steps[i].agent, UserParts(plan.task, plan.flow.steps[i]))
         /\ \A meant : /\ meant.backend = BackendOf(plan.flow.steps[i])
                       /\ meant.model = ModelOf(plan.flow.steps[i])
                       /\ meant.extra = ArgsOf(plan.flow.steps[i])
               => Starts(call.argv, meant)
  <1> DEFINE s == plan.flow.steps[i]
             a == plan.agents[s.agent]
             S == SystemOf(s.agent)
             U == UserParts(plan.task, s)
  <1>1. /\ ~IsShell(s) /\ ~IsConversation(s) /\ plan.flow.shape \in {"linear", "task"}
        /\ Called(s, s.agent, BuildCommand(BackendOf(s), ModelOf(s), System(a),
                                           BuildUserPrompt(plan.task, s), ArgsOf(s)), <<>>)
    BY Zenon DEF AgentCalled, ModelOf, BackendOf, ArgsOf
  <1>2. s.agent \in DOMAIN plan.agents
    <2>1. CASE plan.flow.shape = "linear" /\ LinearStarted(W, plan)
      <3>1. Staff(plan.flow.steps, plan.agents)
        BY <2>1 DEF LinearStarted, BoundSteps, Crew
      <3> QED BY <1>1, <3>1 DEF Staff
    <2>2. CASE plan.flow.shape = "task" /\ NamedStarted(W, plan)
      <3>1. /\ plan.flow.steps = TaskSteps(W.agents) /\ DOMAIN plan.agents = ToSet(W.agents)
            /\ W.agents \in Seq(STRING)
        BY <2>2, WorldIs DEF NamedStarted, NamedLoaded, SetupInv, IsWorld, IsCommand
      <3> QED BY <3>1, NamedStepIs
    <2> QED BY <1>1, <2>1, <2>2, StartedIs
  <1>3. /\ StepTyped(s) /\ s.model \in Seq(Word) /\ s.backend \in Backends \cup {None}
    <2>1. CASE plan.flow.shape = "linear" /\ LinearStarted(W, plan)
      BY <1>2, <2>1, LinearStepTyped
    <2>2. CASE plan.flow.shape = "task" /\ NamedStarted(W, plan)
      <3>1. plan.flow.steps = TaskSteps(W.agents) /\ W.agents \in Seq(STRING)
        BY <2>2, WorldIs DEF NamedStarted, NamedLoaded, SetupInv, IsWorld, IsCommand
      <3>2. <<>> \in Seq(Word)
        BY EmptySeq
      <3>3. StepTyped(s) /\ s.model = <<>> /\ s.backend = None
        BY <3>1, NamedStepIs
      <3> HIDE DEF s
      <3> QED BY <3>2, <3>3
    <2> QED BY <1>1, <2>1, <2>2, StartedIs
  <1>4. AgentTyped(a)
    BY SMTT(40), <1>2, CrewIs
  <1>5. BackendOf(s) \in Backends /\ ModelOf(s) \in Seq(Word) /\ ArgsOf(s) \in Seq(Word)
    <2>1. ArgsOf(s) \in Seq(Word)
      BY <1>3, <1>4, ExtraArgsTyped DEF ArgsOf
    <2> QED BY <1>3, <1>4, <2>1 DEF BackendOf, ModelOf, AgentTyped
  <1>6. Holds(System(a), S, S)
    BY <1>2, SystemHolds
  <1>7. Holds(BuildUserPrompt(plan.task, s), U, U)
    BY <1>3, UserIs DEF StepTyped
  <1>8. \A p \in U : Asks(p, i)
    BY AsksAre
  <1> HIDE DEF S, U, s
  <1>9. Does(BuildCommand(BackendOf(s), ModelOf(s), System(a), BuildUserPrompt(plan.task, s),
                          ArgsOf(s)), System(a), S, U, BackendOf(s), ModelOf(s), ArgsOf(s))
    BY <1>5, <1>6, <1>7, CommandDoes
  <1> DEFINE argv == BuildCommand(BackendOf(s), ModelOf(s), System(a),
                                  BuildUserPrompt(plan.task, s), ArgsOf(s))
  <1> HIDE DEF argv
  <1>10. /\ call.step = s.id /\ call.agent = s.agent /\ call.argv = argv /\ call.seed = <<>>
         /\ Told = Hear(argv)
    BY <1>1, CalledIs DEF argv
  <1>11. /\ S \cup U \subseteq Hear(argv) /\ Voiced(TextsOf(argv), System(a), U)
         /\ Hear(argv) \subseteq (S \cup U) \cup {<<"preamble">>}
         /\ \A meant : meant.backend = BackendOf(s) /\ meant.model = ModelOf(s)
                         /\ meant.extra = ArgsOf(s) => Starts(argv, meant)
    BY <1>9 DEF Does, argv
  <1>12. Working(i, s.agent, U)
    BY <1>2, <1>8, <1>10, <1>11, NoSeed DEF Working, S, s
  <1> QED BY <1>10, <1>11, <1>12 DEF U, s

LEMMA SessionAtWork ==
  ASSUME SetupInv, stage = "started", NEW i \in DOMAIN plan.flow.steps, ConversationCalled(i)
  PROVE  Working(i, call.agent, {})
  <1> DEFINE s == plan.flow.steps[i]
  <1>1. /\ ~IsShell(s) /\ IsConversation(s) /\ plan.flow.shape = "linear"
        /\ \E id \in ToSet(s.agents) :
              Called(s, id, BuildClaudeInteractive(plan.agents[id].model, System(plan.agents[id]),
                                ResolveExtraArgs(BareStep, plan.agents[id], "claude-cli")),
                     BuildUserPrompt(plan.task, s))
    BY DEF ConversationCalled
  <1>2. PICK id \in ToSet(s.agents) :
              Called(s, id, BuildClaudeInteractive(plan.agents[id].model, System(plan.agents[id]),
                                ResolveExtraArgs(BareStep, plan.agents[id], "claude-cli")),
                     BuildUserPrompt(plan.task, s))
    BY <1>1
  <1> DEFINE a == plan.agents[id]
             S == SystemOf(id)
             U == UserParts(plan.task, s)
             x == ResolveExtraArgs(BareStep, a, "claude-cli")
             argv == BuildClaudeInteractive(a.model, System(a), x)
  <1>3. LinearStarted(W, plan)
    BY <1>1, StartedIs
  <1>4. Staff(plan.flow.steps, plan.agents) /\ IsRawFlow(plan.raw) /\ Steady(plan.raw, plan.flow)
    BY <1>3 DEF LinearStarted, BoundSteps, Crew, LinearFlow, Located
  <1>5. id \in DOMAIN plan.agents
    BY <1>1, <1>4 DEF Staff
  <1>6. StepTyped(s)
    BY <1>4, RawStepTyped
  <1>7. AgentTyped(a)
    BY <1>5, CrewIs
  <1>8. x \in Seq(Word) /\ a.model \in Seq(Word)
    BY <1>7, BareStepTyped, ExtraArgsTyped DEF AgentTyped
  <1>9. Holds(System(a), S, S)
    BY <1>5, SystemHolds
  <1>10. Holds(BuildUserPrompt(plan.task, s), U, U)
    BY <1>6, UserIs DEF StepTyped
  <1>11. \A p \in U : Asks(p, i)
    BY AsksAre
  <1> HIDE DEF S, U, s, x, a
  <1>12. Does(argv, System(a), S, {}, "claude-cli", a.model, x)
    BY <1>8, <1>9, SessionDoes
  <1>13. /\ S \cup {} \subseteq Hear(argv) /\ Voiced(TextsOf(argv), System(a), {})
         /\ Hear(argv) \subseteq (S \cup {}) \cup {<<"preamble">>}
    BY <1>12 DEF Does
  <1>14. Called(s, id, argv, BuildUserPrompt(plan.task, s))
    BY <1>2 DEF a, x
  <1> HIDE DEF argv
  <1>15. /\ call.step = s.id /\ call.agent = id /\ call.argv = argv
         /\ call.seed = BuildUserPrompt(plan.task, s) /\ Told = Hear(argv)
    BY <1>14, CalledIs
  <1>16. \A p \in ToSet(call.seed) : Asks(p, i)
    BY <1>10, <1>11, <1>15 DEF Holds
  <1> QED BY <1>5, <1>13, <1>15, <1>16 DEF Working, S, s, a

LEMMA StateAtWork ==
  ASSUME SetupInv, stage = "started", NEW i \in DOMAIN plan.flow.steps, StateCalled(i)
  PROVE  \E U : Working(i, call.agent, U)
  <1> DEFINE s == plan.flow.steps[i]
             a == plan.agents[s.agent]
             S == SystemOf(s.agent)
             x == ResolveExtraArgs(s, a, a.backend)
  <1>1. PICK prior \in {0} \cup D!Ids(plan.flow.steps) :
           Called(s, s.agent, BuildCommand(a.backend, a.model, System(a),
                                           BuildStateUserPrompt(plan.task, s, prior), x), <<>>)
    BY ZenonT(30) DEF StateCalled
  <1> DEFINE U == StateParts(plan.task, s, prior)
             argv == BuildCommand(a.backend, a.model, System(a),
                                  BuildStateUserPrompt(plan.task, s, prior), x)
  <1>2. plan.flow.shape = "graph" /\ Staffed(s)
    BY DEF StateCalled
  <1>3. GraphStarted(W, plan)
    BY <1>2, StartedIs
  <1>4. /\ GraphStaff(plan.flow.steps, plan.agents) /\ IsRawFlow(plan.raw)
        /\ Steady(plan.raw, plan.flow)
    BY <1>3 DEF GraphStarted, GraphLoaded, GraphFilled, Graph0, Located
  <1>5. s.agent \in DOMAIN plan.agents
    BY <1>2, <1>4 DEF GraphStaff
  <1>6. StepTyped(s)
    BY <1>4, RawStepTyped
  <1>7. AgentTyped(a)
    BY <1>5, CrewIs
  <1>8. x \in Seq(Word) /\ a.model \in Seq(Word) /\ a.backend \in Backends
    BY Zenon, <1>6, <1>7, ExtraArgsTyped DEF AgentTyped
  <1>9. Holds(System(a), S, S)
    BY <1>5, SystemHolds
  <1>10. Holds(BuildStateUserPrompt(plan.task, s, prior), U, U)
    BY StateUserIs
  <1>11. \A p \in U : Asks(p, i)
    BY AsksAre
  <1> HIDE DEF S, U, s, x, a
  <1>12. Does(argv, System(a), S, U, a.backend, a.model, x)
    BY <1>8, <1>9, <1>10, CommandDoes
  <1>13. /\ S \cup U \subseteq Hear(argv) /\ Hear(argv) \subseteq (S \cup U) \cup {<<"preamble">>}
         /\ Voiced(TextsOf(argv), System(a), U)
    BY <1>12 DEF Does
  <1>14. Called(s, s.agent, argv, <<>>)
    BY <1>1
  <1> HIDE DEF argv
  <1>15. /\ call.step = s.id /\ call.agent = s.agent /\ call.argv = argv /\ call.seed = <<>>
         /\ Told = Hear(argv)
    BY <1>14, CalledIs
  <1>16. Working(i, s.agent, U)
    BY <1>5, <1>11, <1>13, <1>15, NoSeed DEF Working, S, s, a
  <1> QED BY <1>15, <1>16

LEMMA ChatAtWork ==
  ASSUME SetupInv, stage = "started", ChatCalled
  PROVE  Working(1, call.agent, {})
  <1> DEFINE s == plan.flow.steps[1]
             a == plan.agents[s.agent]
             S == SystemOf(s.agent)
             x == ResolveExtraArgs(s, a, a.backend)
             argv == BuildChat(a.backend, a.model, System(a), x)
  <1>1. plan.flow.shape = "chat" /\ Called(s, s.agent, argv, <<>>)
    BY Zenon DEF ChatCalled
  <1>2. W.cmd = "chat" /\ NamedStarted(W, plan)
    BY <1>1, StartedIs
  <1>3. /\ plan.flow.steps = TaskSteps(W.agents) /\ DOMAIN plan.agents = ToSet(W.agents)
        /\ W.agents \in Seq(STRING) /\ DOMAIN W.agents = {1}
        /\ \A id \in DOMAIN plan.agents : plan.agents[id].backend # "api"
    BY <1>2, WorldIs DEF NamedStarted, NamedLoaded, SetupInv, IsWorld, IsCommand
  <1>4. 1 \in DOMAIN plan.flow.steps /\ 1 \in DOMAIN TaskSteps(W.agents)
    BY <1>3 DEF TaskSteps
  <1>5. s.agent \in DOMAIN plan.agents /\ StepTyped(s)
    BY <1>3, <1>4, NamedStepIs
  <1>6. AgentTyped(a) /\ a.backend # "api"
    BY <1>3, <1>5, CrewIs
  <1>7. x \in Seq(Word) /\ a.model \in Seq(Word) /\ a.backend \in Backends
    BY Zenon, <1>5, <1>6, ExtraArgsTyped DEF AgentTyped
  <1>8. Holds(System(a), S, S)
    BY <1>5, SystemHolds
  <1> HIDE DEF S, s, x, a
  <1>9. Does(argv, System(a), S, {}, a.backend, a.model, x)
    BY <1>6, <1>7, <1>8, ChatDoes
  <1>10. /\ S \cup {} \subseteq Hear(argv) /\ Hear(argv) \subseteq (S \cup {}) \cup {<<"preamble">>}
         /\ Voiced(TextsOf(argv), System(a), {})
    BY <1>9 DEF Does
  <1> HIDE DEF argv
  <1>11. /\ call.step = s.id /\ call.agent = s.agent /\ call.argv = argv /\ call.seed = <<>>
         /\ Told = Hear(argv)
    BY <1>1, CalledIs
  <1> QED BY <1>4, <1>5, <1>10, <1>11, NoSeed DEF Working, S, s, a

\* Whoever is called is at work, unless it is a shell.
LEMMA AtWork ==
  ASSUME SetupInv, stage = "started", call # NoCall
  PROVE  \/ \E i, U : Working(i, call.agent, U)
         \/ \E i \in DOMAIN plan.flow.steps : ShellCalled(i)
  <1>1. CallIs
    BY DEF SetupInv
  <1>2. CASE ChatCalled
    BY SMTT(40), <1>2, ChatAtWork
  <1>3. ASSUME NEW i \in DOMAIN plan.flow.steps, AgentCalled(i)
        PROVE  Working(i, call.agent, UserParts(plan.task, plan.flow.steps[i]))
    <2>1. Working(i, plan.flow.steps[i].agent, UserParts(plan.task, plan.flow.steps[i]))
      BY <1>3, AgentAtWork
    <2> QED BY <2>1 DEF Working
  <1>4. ASSUME NEW i \in DOMAIN plan.flow.steps, ConversationCalled(i)
        PROVE  Working(i, call.agent, {})
    BY <1>4, SessionAtWork
  <1>5. ASSUME NEW i \in DOMAIN plan.flow.steps, StateCalled(i)
        PROVE  \E U : Working(i, call.agent, U)
    BY <1>5, StateAtWork
  <1> QED BY <1>1, <1>2, <1>3, <1>4, <1>5 DEF CallIs

LEMMA StartedAtWork ==
  ASSUME SetupInv, Started
  PROVE  \E i, U : Working(i, call.agent, U)
  <1>1. stage = "started" /\ call.agent # None /\ call # NoCall
    BY DEF Started, NoCall
  <1>2. ASSUME NEW i, ShellCalled(i) PROVE FALSE
    BY <1>1, <1>2 DEF ShellCalled, Called
  <1> QED BY <1>1, <1>2, AtWork

---------------------------------------------------------------------------
(* What a system prompt says.                                               *)

LEMMA SystemSays ==
  ASSUME SetupInv, stage = "started", NEW id \in DOMAIN plan.agents
  PROVE  /\ \A p \in SystemOf(id) :
               \/ p[1] = "guide" /\ p \in ToSet(plan.guide)
               \/ \E r \in ToSet(plan.agents[id].rules) :
                     p = <<"rule", r, RuleSeed(Seeds, W.dirs, r)>>
               \/ \E n \in ToSet(plan.agents[id].skills) : p = <<"skill", n>>
               \/ p = <<"persona", id, AgentSeed(Seeds, W.dirs, id)>>
         /\ ToSet(plan.guide) \subseteq SystemOf(id)
         /\ \A r \in ToSet(plan.agents[id].rules) :
               <<"rule", r, RuleSeed(Seeds, W.dirs, r)>> \in SystemOf(id)
         /\ plan.flow.shape # "graph" =>
               \A n \in ToSet(plan.agents[id].skills) : <<"skill", n>> \in SystemOf(id)
         /\ <<"persona", id, AgentSeed(Seeds, W.dirs, id)>> \in SystemOf(id)
  <1> DEFINE a == plan.agents[id]
             Rs == ToSet(a.rules)
             Ks == ToSet(a.skills)
             G == ToSet(plan.guide)
             rules == plan.rules
             skills == plan.skills
             me == <<"persona", a.id, a.path>>
             R == {<<"rule", r, rules[r]>> : r \in Rs \cap DOMAIN rules}
             K == {<<"skill", n>> : n \in Ks \cap DOMAIN skills}
             Told1(r) == <<"rule", r, RuleSeed(Seeds, W.dirs, r)>>
  <1>1. SystemOf(id) = G \cup R \cup K \cup {me}
    BY DEF SystemOf, SystemParts
  <1>2. /\ \A r \in Rs : r \in DOMAIN rules /\ rules[r] = RuleSeed(Seeds, W.dirs, r)
        /\ plan.flow.shape # "graph" => Ks \subseteq DOMAIN skills
    BY CachesAre DEF Informed, Seeds
  <1>3. \A p \in G : p[1] = "guide"
    <2> DEFINE g == <<"guide", GuideSeed(plan.cfg.seeds, W.dirs)>>
    <2>1. plan.guide = <<g>> \/ plan.guide = <<>>
      BY CachesAre DEF Informed
    <2>2. g[1] = "guide"
      OBVIOUS
    <2> HIDE DEF g
    <2>3. G = {g} \/ G = {}
      BY <2>1 DEF ToSet
    <2> QED BY <2>2, <2>3
  <1>4. me = <<"persona", id, AgentSeed(Seeds, W.dirs, id)>>
    BY CrewIs DEF AgentIs
  <1> HIDE DEF Rs, Ks, G, rules, skills, me
  <1>5. \A p : p \in R <=> \E r \in Rs : p = Told1(r)
    BY <1>2
  <1>6. \A p \in K : \E n \in Ks : p = <<"skill", n>>
    OBVIOUS
  <1>7. plan.flow.shape # "graph" => \A n \in Ks : <<"skill", n>> \in K
    BY <1>2
  <1> HIDE DEF R, K
  <1>8. \A p \in SystemOf(id) : \/ p[1] = "guide" /\ p \in G
                                \/ \E r \in Rs : p = Told1(r)
                                \/ \E n \in Ks : p = <<"skill", n>>
                                \/ p = <<"persona", id, AgentSeed(Seeds, W.dirs, id)>>
    BY <1>1, <1>3, <1>4, <1>5, <1>6
  <1>9. /\ G \subseteq SystemOf(id) /\ me \in SystemOf(id)
        /\ \A r \in Rs : Told1(r) \in SystemOf(id)
        /\ plan.flow.shape # "graph" => \A n \in Ks : <<"skill", n>> \in SystemOf(id)
    BY <1>1, <1>5, <1>7
  <1> QED BY <1>4, <1>8, <1>9 DEF Rs, Ks, G

\* Which texts a call holds.
LEMMA CallSays ==
  ASSUME SetupInv, stage = "started", call # NoCall
  PROVE  \E i \in DOMAIN plan.flow.steps :
            \A p \in Told \cup ToSet(call.seed) :
               /\ p[1] = "task" => p[2] = plan.task
               /\ p[1] = "step" => p[2] = plan.flow.steps[i].task
               /\ p[1] = "run" => p[2] = plan.flow.steps[i].run
  <1>1. ASSUME NEW i, NEW U, Working(i, call.agent, U),
               NEW p \in Told \cup ToSet(call.seed)
        PROVE  /\ p[1] = "task" => p[2] = plan.task
               /\ p[1] = "step" => p[2] = plan.flow.steps[i].task
               /\ p[1] # "run"
    <2>1. \/ p \in SystemOf(call.agent) \/ p = <<"preamble">> \/ Asks(p, i)
      BY <1>1 DEF Working
    <2>2. ASSUME p \in SystemOf(call.agent) PROVE p[1] \in {"guide", "rule", "skill", "persona"}
      <3>1. call.agent \in DOMAIN plan.agents
        BY <1>1 DEF Working
      <3>2. \/ p[1] = "guide"
            \/ \E r \in ToSet(plan.agents[call.agent].rules) :
                  p = <<"rule", r, RuleSeed(Seeds, W.dirs, r)>>
            \/ \E n \in ToSet(plan.agents[call.agent].skills) : p = <<"skill", n>>
            \/ p = <<"persona", call.agent, AgentSeed(Seeds, W.dirs, call.agent)>>
        BY <2>2, <3>1, SystemSays
      <3> QED BY <3>2
    <2>3. p = <<"preamble">> => p[1] = "preamble"
      OBVIOUS
    <2>4. Asks(p, i) => \/ p[1] = "task" /\ p[2] = plan.task
                        \/ p[1] = "step" /\ p[2] = plan.flow.steps[i].task
                        \/ p[1] \in {"output of", "menu"}
      <3> DEFINE t == plan.task
                 d == plan.flow.steps[i].task
      <3>1. \A x : <<"task", x>>[1] = "task" /\ <<"task", x>>[2] = x
        OBVIOUS
      <3>2. \A x : <<"step", x>>[1] = "step" /\ <<"step", x>>[2] = x
        OBVIOUS
      <3>3. Asks(p, i) => p = <<"task", t>> \/ p = <<"step", d>> \/ p[1] \in {"output of", "menu"}
        BY Zenon DEF Asks
      <3> HIDE DEF t, d
      <3>4. /\ p = <<"task", t>> => p[1] = "task" /\ p[2] = t
            /\ p = <<"step", d>> => p[1] = "step" /\ p[2] = d
        BY <3>1, <3>2
      <3> QED BY Zenon, <3>3, <3>4 DEF t, d
    <2> QED BY Zenon, <2>1, <2>2, <2>3, <2>4
  <1>2. ASSUME NEW i \in DOMAIN plan.flow.steps, ShellCalled(i),
               NEW p \in Told \cup ToSet(call.seed)
        PROVE  p[1] = "run" /\ p[2] = plan.flow.steps[i].run
    <2> DEFINE run == plan.flow.steps[i].run
               argv == Flags(<<"sh", "-c">>) \o Text(<<<<"run", run>>>>)
    <2>1. Called(plan.flow.steps[i], None, argv, <<>>)
      BY <1>2 DEF ShellCalled
    <2>2. Hear(argv) = {<<"run", run>>}
      BY ShellTells
    <2> HIDE DEF run, argv
    <2>3. Told = {<<"run", run>>} /\ call.seed = <<>>
      BY <2>1, <2>2, CalledIs
    <2>4. p = <<"run", run>>
      BY <1>2, <2>3, NoSeed
    <2> QED BY <2>4 DEF run
  <1>3. \A i, U : Working(i, call.agent, U) => i \in DOMAIN plan.flow.steps
    BY DEF Working
  <1> QED BY <1>1, <1>2, <1>3, AtWork

---------------------------------------------------------------------------
(* Placeholders.                                                            *)

LEMMA FilledInHolds == SetupInv => FilledIn
  <1> DEFINE parts == Told \cup ToSet(call.seed)
             Left(kinds, kind) == UNION {Names(kind, p[2]) : p \in {q \in parts : q[1] \in kinds}}
             V == VarsBrought(W, plan.cfg)
             R == RolesBrought(W)
             Held == FromValues("role", W.vars) \cup FromValues("role", plan.cfg.vars) \cup R
             kinds == {"task", "step"} \cup IF plan.flow.shape = "linear" THEN {"run"} ELSE {}
  <1> SUFFICES ASSUME SetupInv, stage = "started", call.step # 0, W.cmd = "run"
               PROVE  /\ Left({"task", "step", "run"}, "var") \subseteq V
                      /\ Left(kinds, "role") \subseteq Held
    BY DEF FilledIn, VarsBrought, RolesBrought, FromValues
  <1>1. Clean(W, plan)
    <2>1. LinearStarted(W, plan) \/ GraphStarted(W, plan)
      BY StartedIs
    <2> QED BY <2>1 DEF LinearStarted, BoundSteps, GraphStarted, GraphLoaded, GraphFilled
  <1>2. call # NoCall
    BY DEF NoCall
  <1>3. PICK i \in DOMAIN plan.flow.steps :
           \A p \in parts : /\ p[1] = "task" => p[2] = plan.task
                            /\ p[1] = "step" => p[2] = plan.flow.steps[i].task
                            /\ p[1] = "run" => p[2] = plan.flow.steps[i].run
    BY <1>2, CallSays
  <1> HIDE DEF parts, V, R
  <1>4. /\ Names("var", plan.task) \subseteq V /\ Names("role", plan.task) \subseteq R
        /\ Names("var", plan.flow.steps[i].task) \subseteq V
        /\ Names("var", plan.flow.steps[i].run) \subseteq V
        /\ Names("role", plan.flow.steps[i].task) = {}
        /\ plan.flow.shape = "linear" => Names("role", plan.flow.steps[i].run) = {}
    BY <1>1 DEF Clean, V, R
  <1>5. ASSUME NEW p \in parts
        PROVE  /\ p[1] \in {"task", "step", "run"} => Names("var", p[2]) \subseteq V
               /\ p[1] \in {"task", "step"} => Names("role", p[2]) \subseteq R
               /\ plan.flow.shape = "linear" /\ p[1] \in {"run"} => Names("role", p[2]) = {}
    BY <1>3, <1>4, <1>5
  <1>6. Left({"task", "step", "run"}, "var") \subseteq V
    BY <1>5
  <1>7. \A p \in parts : p[1] \in kinds => Names("role", p[2]) \subseteq R
    <2>1. \A q \in kinds : q \in {"task", "step"} \/ (plan.flow.shape = "linear" /\ q \in {"run"})
      OBVIOUS
    <2> HIDE DEF kinds
    <2> QED BY <1>5, <2>1
  <1> HIDE DEF kinds
  <1>8. Left(kinds, "role") \subseteq R
    BY <1>7
  <1> QED BY <1>6, <1>8

(* No agent and no shell is handed a placeholder of a variable or a role    *)
(* that a text of the flow file or of the command line held itself          *)
(* (runner/mod.rs substitute_vars, substitute_roles, resolve_task).         *)
THEOREM PlaceholdersFilled == Spec => []FilledIn
  BY SetupInvariant, FilledInHolds, PTL

---------------------------------------------------------------------------
(* Personas.                                                                *)

LEMMA PersonaWholeHolds == SetupInv => PersonaWhole
  <1> DEFINE id == call.agent
             a == plan.agents[id]
             file == FileOf(Seeds, W.dirs, id)
             over == Overlaid(id)
             S == SystemOf(id)
  <1> SUFFICES ASSUME SetupInv, Started
               PROVE  /\ \A r \in ToSet(file.rules) \cup ToSet(over.rules) :
                            <<"rule", r, RuleSeed(Seeds, W.dirs, r)>> \in Told
                      /\ plan.flow.shape # "graph" =>
                            \A n \in ToSet(file.skills) : <<"skill", n>> \in Told
                      /\ <<"persona", id, AgentSeed(Seeds, W.dirs, id)>> \in Told
                      /\ (\E part \in Told : part[1] = "guide")
                            <=> /\ W.cmd = "run" \/ W.include
                                /\ GuideSeed(Seeds, W.dirs) # None
    BY DEF PersonaWhole
  <1>1. stage = "started"
    BY DEF Started
  <1>2. PICK i, U : Working(i, id, U)
    BY StartedAtWork
  <1>3. /\ id \in DOMAIN plan.agents /\ S \subseteq Told
        /\ \A p \in Told : p \in S \/ p = <<"preamble">> \/ Asks(p, i)
    BY <1>2 DEF Working
  <1>4. AgentIs(a, id, Seeds, W.dirs, plan.cfg, DefaultOf(plan).model, DefaultOf(plan).backend,
                over)
    BY <1>1, <1>3, CrewIs
  <1>5. ToSet(a.rules) = ToSet(file.rules) \cup ToSet(over.rules) /\ a.skills = file.skills
    BY <1>4 DEF AgentIs
  <1>6. /\ \A p \in S : \/ p[1] = "guide" /\ p \in ToSet(plan.guide)
                        \/ \E r \in ToSet(a.rules) : p = <<"rule", r, RuleSeed(Seeds, W.dirs, r)>>
                        \/ \E n \in ToSet(a.skills) : p = <<"skill", n>>
                        \/ p = <<"persona", id, AgentSeed(Seeds, W.dirs, id)>>
        /\ ToSet(plan.guide) \subseteq S
        /\ \A r \in ToSet(a.rules) : <<"rule", r, RuleSeed(Seeds, W.dirs, r)>> \in S
        /\ plan.flow.shape # "graph" => \A n \in ToSet(a.skills) : <<"skill", n>> \in S
        /\ <<"persona", id, AgentSeed(Seeds, W.dirs, id)>> \in S
    BY <1>1, <1>3, SystemSays
  <1>7. (\E part \in Told : part[1] = "guide") <=> plan.guide # <<>>
    <2> DEFINE g == <<"guide", GuideSeed(plan.cfg.seeds, W.dirs)>>
    <2>1. plan.guide = <<g>> \/ plan.guide = <<>>
      BY <1>1, CachesAre DEF Informed
    <2>2. g[1] = "guide"
      OBVIOUS
    <2> HIDE DEF g
    <2>3. plan.guide = <<g>> => ToSet(plan.guide) = {g}
      BY DEF ToSet
    <2>4. plan.guide # <<>> => g \in Told
      BY <1>3, <1>6, <2>1, <2>3
    <2>5. ASSUME NEW p \in Told, p[1] = "guide" PROVE plan.guide # <<>>
      <3>1. p # <<"preamble">> /\ ~Asks(p, i)
        <4>1. <<"preamble">>[1] = "preamble" /\ \A x : <<"task", x>>[1] = "task"
          OBVIOUS
        <4>2. \A x : <<"step", x>>[1] = "step"
          OBVIOUS
        <4> QED BY <2>5, <4>1, <4>2 DEF Asks
      <3>2. p \in S
        BY <1>3, <2>5, <3>1
      <3>3. p \in ToSet(plan.guide)
        BY <1>6, <2>5, <3>2
      <3> QED BY <3>3, NoSeed
    <2> QED BY <2>2, <2>4, <2>5
  <1>8. plan.guide # <<>> <=> (W.cmd = "run" \/ W.include) /\ GuideSeed(Seeds, W.dirs) # None
    BY <1>1, CachesAre DEF Informed, Seeds
  <1> HIDE DEF a, file, over, S
  <1> QED BY <1>3, <1>5, <1>6, <1>7, <1>8

(* An agent, whatever starts it, is told every rule of its file and of its  *)
(* overlay, every skill except in a graph flow, and its persona, each from  *)
(* the first seed that has it; the guide it is told just when there is one  *)
(* and the command asks for it (runner/mod.rs build_system_prompt).         *)
THEOREM PersonaHolds == Spec => []PersonaWhole
  BY SetupInvariant, PersonaWholeHolds, PTL

---------------------------------------------------------------------------
(* The step that runs as a role.                                            *)

LEMMA RoleStepIs ==
  ASSUME SetupInv, LinearRole
  PROVE  /\ Raw \in DOMAIN plan.flow.steps /\ Raw \in DOMAIN plan.raw.steps
         /\ AgentCalled(Raw) /\ LinearStarted(W, plan) /\ stage = "started"
         /\ call.agent = plan.flow.steps[Raw].agent
         /\ plan.flow.steps[Raw].agent = plan.flow.roles[RawStep.role]
         /\ RawStep.role \in DOMAIN plan.flow.roles
         /\ plan.flow.steps[Raw].agent \in DOMAIN plan.agents
         /\ plan.flow.steps[Raw].extra = RawStep.extra /\ RawStep = plan.raw.steps[Raw]
  <1>1. /\ stage = "started" /\ call.agent # None /\ plan.flow.shape = "linear"
        /\ RawStep.role # None /\ LinearStarted(W, plan) /\ CallIs /\ call # NoCall
    BY StartedIs DEF LinearRole, Started, SetupInv, NoCall
  <1>2. /\ IsRawFlow(plan.raw) /\ Steady(plan.raw, plan.flow) /\ RoleBound(plan.raw, plan.flow)
    BY <1>1 DEF LinearStarted, BoundSteps, LinearFlow, Located
  <1>3. ASSUME NEW i, i \in DOMAIN plan.flow.steps, call.step = plan.flow.steps[i].id
        PROVE  Raw = i /\ i \in DOMAIN plan.raw.steps
    <2>1. i \in DOMAIN plan.raw.steps /\ plan.raw.steps[i].id = call.step
      BY <1>2, <1>3 DEF Steady
    <2>2. \A j \in DOMAIN plan.raw.steps : plan.raw.steps[j].id = call.step => j = i
      BY <1>2, <2>1 DEF IsRawFlow
    <2> QED BY <2>1, <2>2 DEF Raw
  <1>4. ASSUME NEW i \in DOMAIN plan.flow.steps, ConversationCalled(i) PROVE FALSE
    <2>1. Working(i, call.agent, {}) /\ IsConversation(plan.flow.steps[i])
      BY <1>1, <1>4, SessionAtWork DEF ConversationCalled
    <2>2. Raw = i /\ i \in DOMAIN plan.raw.steps
      BY <1>3, <2>1 DEF Working
    <2>3. plan.raw.steps[i].agents = <<>>
      BY <1>1, <1>2, <2>2 DEF RoleBound, RawStep
    <2>4. plan.flow.steps[i].agents = <<>>
      BY <1>2, <2>2, <2>3 DEF Steady
    <2> QED BY <2>1, <2>4 DEF IsConversation
  <1>5. PICK i \in DOMAIN plan.flow.steps : AgentCalled(i)
    <2>1. ~ChatCalled /\ \A i : ~ShellCalled(i) /\ ~StateCalled(i)
      BY <1>1 DEF ChatCalled, ShellCalled, StateCalled, Called
    <2> QED BY <1>1, <1>4, <2>1 DEF CallIs
  <1>6. Working(i, plan.flow.steps[i].agent, UserParts(plan.task, plan.flow.steps[i]))
    BY <1>1, <1>5, AgentAtWork
  <1>7. /\ Raw = i /\ i \in DOMAIN plan.raw.steps
        /\ call.agent = plan.flow.steps[i].agent /\ call.agent \in DOMAIN plan.agents
    BY <1>3, <1>6 DEF Working
  <1>8. RawStep = plan.raw.steps[i]
    BY <1>7 DEF RawStep
  <1>9. /\ plan.flow.steps[i].agent = plan.flow.roles[RawStep.role]
        /\ RawStep.role \in DOMAIN plan.flow.roles
        /\ plan.flow.steps[i].extra = RawStep.extra
    BY <1>1, <1>2, <1>7, <1>8 DEF RoleBound, Steady
  <1> QED BY <1>1, <1>5, <1>7, <1>8, <1>9

\* What the run decided for its role: the cascade, with an agent no layer
\* would change any more.
LEMMA DecidedIs ==
  ASSUME SetupInv, LinearRole
  PROVE  /\ plan.audit[RawStep.role]
              = ResolveCascade(RawStep.role, call.agent, plan.agents[call.agent], plan.cfg,
                               W.overrides)
         /\ plan.audit[RawStep.role].agent = call.agent
         /\ call.agent = Player(W, plan.raw, plan.cfg, RawStep.role)
         /\ IsOverrides(W.overrides) /\ IsConfig(plan.cfg)
         /\ AgentTyped(plan.agents[call.agent])
         /\ plan.audit[RawStep.role].model \in Seq(Word)
         /\ plan.audit[RawStep.role].backend \in Backends
         /\ plan.flow.steps[Raw].model = (IF RawStep.model = <<>> THEN plan.audit[RawStep.role].model
                                          ELSE RawStep.model)
         /\ plan.flow.steps[Raw].backend = (IF RawStep.backend = None
                                            THEN plan.audit[RawStep.role].backend
                                            ELSE RawStep.backend)
  <1> DEFINE r == RawStep.role
             id == plan.flow.roles[r]
             a == plan.agents[id]
             c == ResolveCascade(r, id, a, plan.cfg, W.overrides)
             d == Declared(W, plan.raw, plan.cfg, r)
  <1>1. /\ Raw \in DOMAIN plan.flow.steps /\ Raw \in DOMAIN plan.raw.steps
        /\ LinearStarted(W, plan) /\ stage = "started"
        /\ call.agent = id /\ r \in DOMAIN plan.flow.roles /\ id \in DOMAIN plan.agents
        /\ RawStep = plan.raw.steps[Raw] /\ r # None
    BY RoleStepIs DEF LinearRole
  <1>2. /\ IsConfig(plan.cfg) /\ IsRawFlow(plan.raw) /\ Audits(W, plan)
        /\ BoundBy(plan.raw, plan.flow, plan.audit)
        /\ RoleBound(plan.raw, plan.flow) /\ PlayedRoles(W, plan.raw, plan.cfg, plan.flow)
    BY <1>1 DEF LinearStarted, BoundSteps, LinearFlow, Located
  <1>3. plan.audit[r] = c
    BY Zenon, <1>1, <1>2 DEF Audits
  <1>4. IsCommand(W) /\ IsOverrides(W.overrides)
    BY WorldIs DEF IsWorld, IsCommand, IsOverrides, SetupInv
  <1>5. id = Player(W, plan.raw, plan.cfg, r) /\ id \in STRING
    BY <1>1, <1>2 DEF PlayedRoles
  <1>6. AgentTyped(a)
    BY ZenonT(40), <1>1, CrewIs
  <1>7. c.model \in Seq(Word) /\ c.backend \in Backends
    BY <1>2, <1>4, <1>6, CascadeTyped
  <1>8. /\ plan.flow.steps[Raw].model
             = (IF RawStep.model = <<>> THEN plan.audit[r].model ELSE RawStep.model)
        /\ plan.flow.steps[Raw].backend
             = (IF RawStep.backend = None THEN plan.audit[r].backend ELSE RawStep.backend)
    BY Zenon, <1>1, <1>2 DEF BoundBy
  <1>9. c.agent = id
    <2>1. /\ id = ResolveRoleAgent(r, d, plan.cfg, W.overrides) /\ d # None
      <3>1. r \in DOMAIN plan.raw.roles \cup DOMAIN plan.cfg.roles
        BY <1>1, <1>2 DEF PlayedRoles
      <3> QED BY <1>2, <1>4, <1>5, <3>1, PlayerIs
    <2>2. c.agent = ResolveRoleAgent(r, id, plan.cfg, W.overrides)
      BY DEF ResolveCascade
    <2> HIDE DEF id, d, c
    <2> QED BY <2>1, <2>2 DEF ResolveRoleAgent
  <1> QED BY Zenon, <1>1, <1>2, <1>3, <1>4, <1>5, <1>6, <1>7, <1>8, <1>9

LEMMA CascadeFallsTo ==
  ASSUME NEW r, NEW x, NEW a, NEW cfg, NEW overrides,
         NEW c, c = ResolveCascade(r, x, a, cfg, overrides)
  PROVE  /\ c.model = <<>> => a.model = <<>>
         /\ c.extra = IF c.backend \in DOMAIN a.extra THEN a.extra[c.backend] ELSE <<>>
  <1> DEFINE project == ProjectRole(cfg, r)
             policy == IF BackendGiven(overrides, r) # None THEN BackendGiven(overrides, r)
                       ELSE project.backend
             backend == IF policy # None THEN ProjectBackendToRuntime(policy) ELSE a.backend
             extra == IF backend \in DOMAIN a.extra THEN a.extra[backend] ELSE <<>>
             model == IF ModelGiven(overrides, r) # <<>> THEN ModelGiven(overrides, r)
                      ELSE IF project.model # <<>> THEN project.model ELSE a.model
  <1>1. c = [agent |-> ResolveRoleAgent(r, x, cfg, overrides), model |-> model,
             backend |-> backend, extra |-> extra]
    BY DEF ResolveCascade
  <1>2. model = <<>> => a.model = <<>>
    OBVIOUS
  <1> HIDE DEF model, extra, backend
  <1>3. c.model = model /\ c.backend = backend /\ c.extra = extra
    BY <1>1
  <1> QED BY <1>2, <1>3 DEF extra

LEMMA AuditIsTrueHolds == SetupInv => AuditIsTrue
  <1> DEFINE r == RawStep.role
             c == plan.audit[r]
             s == plan.flow.steps[Raw]
             a == plan.agents[s.agent]
  <1> SUFFICES ASSUME SetupInv, LinearRole, RawStep.model = <<>>, RawStep.backend = None,
                      RawStep.extra = NoArgs
               PROVE  call.agent = c.agent /\ Starts(call.argv, c)
    BY DEF AuditIsTrue
  <1>1. /\ Raw \in DOMAIN plan.flow.steps /\ AgentCalled(Raw) /\ stage = "started"
        /\ call.agent = s.agent /\ s.extra = NoArgs
    BY SMTT(40), RoleStepIs
  <1>2. /\ c = ResolveCascade(r, s.agent, a, plan.cfg, W.overrides)
        /\ c.agent = call.agent /\ c.model \in Seq(Word) /\ c.backend \in Backends
        /\ s.model = c.model /\ s.backend = c.backend
    BY <1>1, DecidedIs
  <1>3. \A meant : meant.backend = BackendOf(s) /\ meant.model = ModelOf(s)
                     /\ meant.extra = ArgsOf(s) => Starts(call.argv, meant)
    BY <1>1, AgentAtWork
  <1>4. None \notin Backends
    BY DEF None, Backends
  <1>5. /\ c.model = <<>> => a.model = <<>>
        /\ c.extra = IF c.backend \in DOMAIN a.extra THEN a.extra[c.backend] ELSE <<>>
    <2>1. c = ResolveCascade(r, s.agent, a, plan.cfg, W.overrides)
      BY <1>2
    <2> HIDE DEF a, c, s, r
    <2> QED BY ONLY SMTT(40), <2>1, CascadeFallsTo
  <1> HIDE DEF c, s
  <1>6. c.backend = BackendOf(s) /\ c.model = ModelOf(s)
    BY <1>2, <1>4, <1>5 DEF BackendOf, ModelOf
  <1>7. c.extra = ArgsOf(s)
    BY <1>1, <1>5, <1>6 DEF ArgsOf, ResolveExtraArgs
  <1> QED BY <1>2, <1>3, <1>6, <1>7

(* A step that sets nothing itself runs as the audit of the run says of its *)
(* role: the agent, its backend, its model and its arguments (runner/mod.rs *)
(* build_resolved_roles, apply_resolved_roles_to_steps).                    *)
THEOREM AuditHolds == Spec => []AuditIsTrue
  BY SetupInvariant, AuditIsTrueHolds, PTL

---------------------------------------------------------------------------
(* Every layer in its place.                                                *)

LEMMA FirstOf1 ==
  ASSUME NEW a, NEW u
  PROVE  FirstOf(<<a>>, u) = a
  <1> DEFINE l == <<a>>
             n == 1
  <1>1. n \in Nat /\ DOMAIN l = 1 .. n /\ l[1] = a
    OBVIOUS
  <1>2. 1 \in 1 .. n /\ (\A i \in 1 .. n : i = 1) /\ (\A j \in 1 .. 1 - 1 : FALSE)
    OBVIOUS
  <1> HIDE DEF l, n
  <1>3. /\ (\A i \in 1 .. n : l[i] = u) => FirstOf(l, u) = u
        /\ \A i \in 1 .. n : l[i] # u /\ (\A j \in 1 .. i - 1 : l[j] = u) => FirstOf(l, u) = l[i]
    BY <1>1, FirstOfIs
  <1>4. CASE a = u
    BY <1>1, <1>2, <1>3, <1>4 DEF l
  <1>5. CASE a # u
    BY <1>1, <1>2, <1>3, <1>5 DEF l
  <1> QED BY <1>4, <1>5

LEMMA FirstOfBoth ==
  ASSUME NEW S, NEW a \in Seq(S), NEW b \in Seq(S), NEW unset
  PROVE  FirstOf(a \o b, unset)
           = IF FirstOf(a, unset) # unset THEN FirstOf(a, unset) ELSE FirstOf(b, unset)
  <1> DEFINE n == Len(a)
  <1>1. n \in Nat /\ DOMAIN a = 1 .. n
    BY LenProperties
  <1>2. (\A i \in 1 .. n : a[i] = unset) => FirstOf(a, unset) = unset
    <2> HIDE DEF n
    <2> QED BY <1>1, FirstOfIs
  <1>3. /\ (\A i \in 1 .. n : a[i] = unset) => FirstOf(a \o b, unset) = FirstOf(b, unset)
        /\ (\E i \in 1 .. n : a[i] # unset) => /\ FirstOf(a \o b, unset) = FirstOf(a, unset)
                                                /\ FirstOf(a, unset) # unset
    BY FirstOfJoined
  <1> QED BY <1>2, <1>3

\* The player is one of those that the layers allow.
LEMMA PlayerAmong ==
  ASSUME NEW w, IsCommand(w), NEW raw, IsRawFlow(raw), NEW cfg, IsConfig(cfg),
         NEW r \in DOMAIN raw.roles \cup DOMAIN cfg.roles
  PROVE  Player(w, raw, cfg, r) \in Players(w, raw, cfg, r)
  <1> DEFINE a == AgentLayers(w.overrides, r)
             x == IF r \in DOMAIN w.bare /\ r \in DOMAIN raw.roles THEN w.bare[r][1][2] ELSE None
             y == FlowRole(raw, r)
             z == ProjectRole(cfg, r).agent
             d == Declared(w, raw, cfg, r)
             g == AgentGiven(w.overrides, r)
             one == <<x>>
             asked == Asked(w, raw, r)
  <1>1. IsOverrides(w.overrides)
    BY DEF IsCommand, IsOverrides
  <1>2. /\ a \in Seq(Word) /\ g = FirstOf(a, None)
    BY <1>1, LayersAre, GivenAre
  <1>3. /\ d \in STRING \ {None}
        /\ Player(w, raw, cfg, r) = ResolveRoleAgent(r, d, cfg, w.overrides)
    BY PlayerIs
  <1>4. x = d \/ (x = None /\ d \in {y, z})
    BY DEF Declared, FlowRole, ProjectRole
  <1>5. asked = FirstOf(a \o one, None)
    BY DEF Asked
  <1>6. one \in Seq(Word \cup {x}) /\ FirstOf(one, None) = x
    BY Singleton, FirstOf1
  <1>7. a \in Seq(Word \cup {x})
    BY <1>2, Widen
  <1> HIDE DEF a, x, y, z, d, g, one
  <1>8. asked = IF g # None THEN g ELSE x
    <2>1. FirstOf(a \o one, None) = IF FirstOf(a, None) # None THEN FirstOf(a, None)
                                    ELSE FirstOf(one, None)
      BY <1>6, <1>7, FirstOfBoth
    <2> QED BY <1>2, <1>5, <1>6, <2>1
  <1>9. Player(w, raw, cfg, r) = IF g # None THEN g ELSE d
    BY <1>3 DEF ResolveRoleAgent, g
  <1>10. Players(w, raw, cfg, r) = IF asked # None THEN {asked} ELSE {y, z} \ {None}
    BY DEF Players, y, z
  <1> QED BY <1>3, <1>4, <1>8, <1>9, <1>10

\* What the command line and the project say of a role, in their order.
LEMMA PolicyIs ==
  ASSUME NEW overrides, IsOverrides(overrides), NEW r, NEW p \in Policies \cup {None}
  PROVE  FirstOf(Reverse(BackendLayers(overrides, r)) \o <<p>>, None)
           = IF BackendGiven(overrides, r) # None THEN BackendGiven(overrides, r) ELSE p
  <1> DEFINE b == Reverse(BackendLayers(overrides, r))
  <1>1. b \in Seq(Policies \cup {None}) /\ BackendGiven(overrides, r) = FirstOf(b, None)
    BY GivenAre
  <1>2. <<p>> \in Seq(Policies \cup {None})
    BY Singleton
  <1>3. FirstOf(<<p>>, None) = p
    BY FirstOf1
  <1> HIDE DEF b
  <1> DEFINE l == <<p>>
  <1> HIDE DEF l
  <1>4. FirstOf(b \o l, None) = IF FirstOf(b, None) # None THEN FirstOf(b, None)
                                ELSE FirstOf(l, None)
    <2>1. l \in Seq(Policies \cup {None})
      BY <1>2 DEF l
    <2> QED BY <1>1, <2>1, FirstOfBoth
  <1> QED BY <1>1, <1>3, <1>4 DEF b, l

LEMMA ModelsAre ==
  ASSUME NEW overrides, IsOverrides(overrides), NEW r, NEW x \in Seq(Word), NEW y \in Seq(Word),
         NEW z \in Seq(Word)
  PROVE  FirstOf(<<x>> \o Reverse(ModelLayers(overrides, r)) \o <<y, z>>, <<>>)
           = IF x # <<>> THEN x
             ELSE IF ModelGiven(overrides, r) # <<>> THEN ModelGiven(overrides, r)
             ELSE IF y # <<>> THEN y ELSE z
  <1> DEFINE m == Reverse(ModelLayers(overrides, r))
             S == Seq(Word)
             e == <<>>
             p == <<x>>
             q == <<y, z>>
  <1>1. m \in Seq(S) /\ ModelGiven(overrides, r) = FirstOf(m, e)
    BY GivenAre
  <1>2. p \in Seq(S) /\ q \in Seq(S)
    BY Singleton, Pair
  <1>3. FirstOf(p, e) = x /\ FirstOf(q, e) = IF y # e THEN y ELSE IF z # e THEN z ELSE e
    BY FirstOf1, FirstOf2
  <1> HIDE DEF m, S, e, p, q
  <1>4. p \o m \in Seq(S)
    BY <1>1, <1>2, ConcatProperties
  <1>5. FirstOf(p \o m, e) = IF FirstOf(p, e) # e THEN FirstOf(p, e) ELSE FirstOf(m, e)
    BY <1>1, <1>2, FirstOfBoth
  <1> DEFINE pm == p \o m
  <1>6. FirstOf(pm \o q, e) = IF FirstOf(pm, e) # e THEN FirstOf(pm, e) ELSE FirstOf(q, e)
    <2> HIDE DEF pm
    <2>1. pm \in Seq(S)
      BY <1>4 DEF pm
    <2> QED BY <1>2, <2>1, FirstOfBoth
  <1>7. FirstOf(pm \o q, e) = IF x # e THEN x ELSE IF ModelGiven(overrides, r) # e
                              THEN ModelGiven(overrides, r) ELSE IF y # e THEN y ELSE z
    BY <1>1, <1>3, <1>5, <1>6
  <1> QED BY <1>7 DEF m, e, p, q

LEMMA PlayerIsAmong ==
  ASSUME SetupInv, LinearRole
  PROVE  call.agent \in Players(W, plan.raw, plan.cfg, RawStep.role)
  <1> DEFINE r == RawStep.role
  <1>1. r \in DOMAIN plan.flow.roles /\ LinearStarted(W, plan)
    BY RoleStepIs
  <1>2. /\ IsConfig(plan.cfg) /\ IsRawFlow(plan.raw)
        /\ PlayedRoles(W, plan.raw, plan.cfg, plan.flow)
    BY <1>1 DEF LinearStarted, BoundSteps, LinearFlow, Located
  <1>3. IsCommand(W)
    BY WorldIs DEF IsWorld, IsCommand, SetupInv
  <1>4. r \in DOMAIN plan.raw.roles \cup DOMAIN plan.cfg.roles
    BY <1>1, <1>2 DEF PlayedRoles
  <1>5. call.agent = Player(W, plan.raw, plan.cfg, r)
    BY DecidedIs
  <1> QED BY <1>2, <1>3, <1>4, <1>5, PlayerAmong

LEMMA CascadeHoldsHere == SetupInv => CascadeHolds
  <1> SUFFICES ASSUME SetupInv, LinearRole
               PROVE  /\ call.agent \in Players(W, plan.raw, plan.cfg, RawStep.role)
                      /\ Starts(call.argv, Meant)
    BY DEF CascadeHolds
  <1> DEFINE t == RawStep
             r == t.role
             id == call.agent
             file == FileOf(Seeds, W.dirs, id)
             over == Overlaid(id)
             project == ProjectRole(plan.cfg, r)
             policy == FirstOf(Reverse(BackendLayers(W.overrides, r)) \o <<project.backend>>, None)
             runtime == IF policy = "cli" THEN "claude-cli" ELSE policy
             low == AgentBackend(file, over, plan.raw.backend)
             lowModel == AgentModel(file, over, plan.cfg, plan.raw.model)
             backend == FirstOf(<<t.backend, runtime, low>>, None)
             model == FirstOf(<<t.model>> \o Reverse(ModelLayers(W.overrides, r))
                               \o <<project.model, lowModel>>, <<>>)
             extra == IF t.extra = NoArgs THEN AgentArgs(file, over, backend)
                      ELSE IF backend \in DOMAIN t.extra THEN t.extra[backend] ELSE <<>>
             s == plan.flow.steps[Raw]
             a == plan.agents[id]
             c == plan.audit[r]
             given == BackendGiven(W.overrides, r)
  <1>0. call.agent \in Players(W, plan.raw, plan.cfg, RawStep.role)
    BY PlayerIsAmong
  <1>1. /\ Meant.backend = backend /\ Meant.model = model /\ Meant.extra = extra
    BY DEF Meant
  <1>2. /\ Raw \in DOMAIN plan.flow.steps /\ Raw \in DOMAIN plan.raw.steps /\ AgentCalled(Raw)
        /\ LinearStarted(W, plan) /\ stage = "started"
        /\ call.agent = s.agent /\ call.agent \in DOMAIN plan.agents
        /\ s.extra = t.extra /\ t = plan.raw.steps[Raw]
    BY RoleStepIs
  <1>3. /\ c = ResolveCascade(r, call.agent, plan.agents[call.agent], plan.cfg, W.overrides)
        /\ call.agent = id /\ IsOverrides(W.overrides) /\ IsConfig(plan.cfg) /\ AgentTyped(a)
        /\ c.model \in Seq(Word) /\ c.backend \in Backends
        /\ s.model = (IF t.model = <<>> THEN c.model ELSE t.model)
        /\ s.backend = (IF t.backend = None THEN c.backend ELSE t.backend)
    BY DecidedIs
  <1>4. \A meant : meant.backend = BackendOf(s) /\ meant.model = ModelOf(s)
                     /\ meant.extra = ArgsOf(s) => Starts(call.argv, meant)
    BY <1>2, AgentAtWork
  <1>5. plan.flow.shape = "linear"
    BY DEF LinearRole
  <1>6. /\ a.model = lowModel /\ a.backend = low /\ a.model \in Seq(Word) /\ a.backend \in Backends
        /\ \A b \in Backends : (IF b \in DOMAIN a.extra THEN a.extra[b] ELSE <<>>)
                                 = AgentArgs(file, over, b)
    <2>1. DefaultOf(plan).model = plan.raw.model /\ DefaultOf(plan).backend = plan.raw.backend
      BY <1>5 DEF DefaultOf
    <2>2. AgentIs(a, id, Seeds, W.dirs, plan.cfg, DefaultOf(plan).model, DefaultOf(plan).backend,
                  over)
      BY Zenon, <1>2, <1>3, CrewIs
    <2> QED BY Zenon, <2>1, <2>2 DEF AgentIs
  <1>7. t.model \in Seq(Word) /\ t.backend \in Backends \cup {None}
    <2>1. IsRawStep(t)
      BY <1>2 DEF LinearStarted, BoundSteps, LinearFlow, Located, IsRawFlow
    <2>2. \A x \in Seq(STRING) : x \in Seq(Word)
      BY Widen DEF Word
    <2> QED BY <2>1, <2>2 DEF IsRawStep
  <1>8. project.model \in Seq(Word) /\ project.backend \in Policies \cup {None}
    <2>1. <<>> \in Seq(Word)
      BY EmptySeq
    <2> QED BY <1>3, <2>1 DEF ProjectRole, NoRole, IsConfig, IsRole
  <1>9. policy = (IF given # None THEN given ELSE project.backend)
        /\ given \in Policies \cup {None}
    BY <1>3, <1>8, PolicyIs, GivenAre
  <1>10. model = IF t.model # <<>> THEN t.model
                 ELSE IF ModelGiven(W.overrides, r) # <<>> THEN ModelGiven(W.overrides, r)
                 ELSE IF project.model # <<>> THEN project.model ELSE lowModel
    BY <1>3, <1>6, <1>7, <1>8, ModelsAre
  <1>11. backend = IF t.backend # None THEN t.backend ELSE IF runtime # None THEN runtime
                   ELSE IF low # None THEN low ELSE None
    BY SMTT(40), FirstOf3
  <1>12. /\ c.model = IF ModelGiven(W.overrides, r) # <<>> THEN ModelGiven(W.overrides, r)
                      ELSE IF project.model # <<>> THEN project.model ELSE a.model
         /\ c.backend = LET p == IF given # None THEN given ELSE project.backend
                        IN IF p # None THEN ProjectBackendToRuntime(p) ELSE a.backend
    BY <1>3 DEF ResolveCascade
  <1>13. c.backend = IF runtime # None THEN runtime ELSE low
    <2>1. None # "cli" /\ None # "api" /\ None # "claude-cli" /\ Policies = {"cli", "api"}
      BY DEF None, Policies
    <2>2. policy \in {"cli", "api", None}
      BY <1>8, <1>9, <2>1
    <2>3. c.backend = IF policy # None THEN ProjectBackendToRuntime(policy) ELSE a.backend
      BY <1>9, <1>12
    <2> HIDE DEF policy, low, c
    <2> QED BY <1>6, <2>1, <2>2, <2>3 DEF ProjectBackendToRuntime
  <1>14. None \notin Backends
    BY DEF None, Backends
  <1> HIDE DEF model, backend, c, s, a, t, low, lowModel, runtime, file, over, given, project
  <1>15. backend = BackendOf(s) /\ backend \in Backends
    BY ZenonT(40), <1>2, <1>3, <1>6, <1>7, <1>11, <1>13, <1>14 DEF BackendOf
  <1>16. model = ModelOf(s)
    BY ZenonT(40), <1>2, <1>3, <1>6, <1>10, <1>12 DEF ModelOf, a
  <1>17. extra = ArgsOf(s)
    BY Zenon, <1>2, <1>3, <1>6, <1>15 DEF ArgsOf, ResolveExtraArgs, a
  <1> HIDE DEF id, extra
  <1> QED BY <1>0, <1>1, <1>4, <1>15, <1>16, <1>17

(* A step with a role is started as an agent that the command line names for *)
(* it, or else the flow file or the project, and as the topmost layer that  *)
(* says something has it: the step, the command line, the role of the project, its         *)
(* overlay, the tier or the file of the agent, the defaults of the flow,    *)
(* the built-in ones (resolver.rs, runner/mod.rs resolve_extra_args,        *)
(* config.rs resolve_agent_model).                                          *)
THEOREM CascadeIsRun == Spec => []CascadeHolds
  BY SetupInvariant, CascadeHoldsHere, PTL

---------------------------------------------------------------------------
(* What the inventory lists.                                                *)

\* The seeds as the inventory walks them.
Walked(cfg, dirs) ==
  [i \in DOMAIN cfg.seeds |-> SeedContribution(cfg.seeds[i], dirs, RoleAgentMap(cfg))]

LEMMA EffectiveIs ==
  ASSUME NEW seeds, DOMAIN seeds \subseteq Nat, NEW kind, NEW x, NEW k \in DOMAIN seeds,
         x \in NamesOf(seeds[k], kind),
         \A j \in DOMAIN seeds : j < k => x \notin NamesOf(seeds[j], kind)
  PROVE  EffectiveFor(seeds, kind)[x].seed = seeds[k].display
  <1> DEFINE Has(y) == {i \in DOMAIN seeds : y \in NamesOf(seeds[i], kind)}
             Winner(y) == CHOOSE i \in Has(y) : \A j \in Has(y) : i <= j
             Shadows(y) == {seeds[i].display : i \in Has(y)} \ {seeds[Winner(y)].display}
             names == UNION {NamesOf(seeds[i], kind) : i \in DOMAIN seeds}
             e == [y \in names |-> [seed |-> seeds[Winner(y)].display, shadows |-> Shadows(y)]]
  <1>1. EffectiveFor(seeds, kind) = e
    BY DEF EffectiveFor
  <1>2. x \in names
    OBVIOUS
  <1>3. e[x] = [seed |-> seeds[Winner(x)].display, shadows |-> Shadows(x)]
    BY <1>2
  <1>4. k \in Has(x) /\ \A j \in Has(x) : j \in Nat /\ j \in DOMAIN seeds /\ ~(j < k)
    OBVIOUS
  <1>5. k \in Nat
    OBVIOUS
  <1> HIDE DEF e, names, Shadows, Has
  <1>6. \A j \in Has(x) : k <= j
    BY <1>4, <1>5
  <1>7. Winner(x) \in Has(x) /\ \A j \in Has(x) : Winner(x) <= j
    BY <1>4, <1>6
  <1>8. Winner(x) = k
    <2> HIDE DEF Winner
    <2> QED BY <1>4, <1>5, <1>6, <1>7
  <1> HIDE DEF Winner
  <1> QED BY <1>1, <1>3, <1>8

\* The seed that a file comes from, and that no seed before it has the file.
LEMMA SeedWithAt ==
  ASSUME NEW seeds, IsSeeds(seeds), NEW having, SeedWith(seeds, having) # None
  PROVE  \E k \in DOMAIN seeds :
            /\ seeds[k].kind = "local" /\ seeds[k].path = SeedWith(seeds, having)
            /\ seeds[k].path \in having
            /\ \A j \in DOMAIN seeds : j < k => ~(seeds[j].kind = "local" /\ seeds[j].path \in having)
  <1> DEFINE n == Len(seeds)
             layers == [i \in DOMAIN seeds |->
                           IF seeds[i].kind = "local" /\ seeds[i].path \in having
                           THEN seeds[i].path ELSE None]
             given == {i \in 1 .. n : layers[i] # None}
  <1>1. n \in Nat /\ DOMAIN seeds = 1 .. n /\ \A i \in 1 .. n : seeds[i].path # None
    BY DEF IsSeeds
  <1>2. SeedWith(seeds, having) = FirstOf(layers, None)
    BY DEF SeedWith
  <1>3. /\ DOMAIN layers = 1 .. n
        /\ \A i \in 1 .. n : layers[i] = IF seeds[i].kind = "local" /\ seeds[i].path \in having
                                         THEN seeds[i].path ELSE None
    BY <1>1
  <1> HIDE DEF layers, n
  <1>4. given # {}
    <2> SUFFICES ASSUME \A i \in 1 .. n : layers[i] = None PROVE FALSE
      OBVIOUS
    <2>1. FirstOf(layers, None) = None
      BY <1>1, <1>3, FirstOfIs
    <2> QED BY <1>2, <2>1
  <1>5. PICK k \in given : \A j \in given : k <= j
    <2>1. given \subseteq Nat
      BY <1>1
    <2> HIDE DEF given
    <2> QED BY <1>4, <2>1, Least
  <1>6. k \in 1 .. n /\ layers[k] # None /\ \A j \in 1 .. n : j < k => layers[j] = None
    <2>1. \A j \in 1 .. n : j < k => j \notin given
      BY <1>5
    <2> QED BY <1>5, <2>1
  <1> HIDE DEF given
  <1>7. FirstOf(layers, None) = layers[k]
    <2>1. \A j \in 1 .. k - 1 : layers[j] = None
      BY <1>1, <1>6
    <2> QED BY <1>1, <1>3, <1>6, <2>1, FirstOfIs
  <1> QED BY <1>1, <1>2, <1>3, <1>6, <1>7

\* What a seed shows of its directory.
LEMMA ShowsIs ==
  ASSUME NEW seed, NEW dirs, NEW project
  PROVE  /\ SeedContribution(seed, dirs, project).display = seed.path
         /\ seed.kind = "local" /\ seed.path \in DOMAIN dirs =>
               /\ SeedContribution(seed, dirs, project).agents = AgentsIn(dirs[seed.path])
               /\ SeedContribution(seed, dirs, project).rules = RulesIn(dirs[seed.path])
               /\ SeedContribution(seed, dirs, project).flows = FlowsIn(dirs[seed.path], project)
         /\ ~(seed.kind = "local" /\ seed.path \in DOMAIN dirs) =>
               /\ SeedContribution(seed, dirs, project).agents = {}
               /\ SeedContribution(seed, dirs, project).rules = {}
               /\ SeedContribution(seed, dirs, project).flows = {}
  BY DEF SeedContribution

\* The seeds of a context are those it walked.
LEMMA ContextIs ==
  ASSUME NEW cfg, NEW dirs
  PROVE  /\ ResolveContext(cfg, dirs).seeds = Walked(cfg, dirs)
         /\ ResolveContext(cfg, dirs).agents = EffectiveFor(Walked(cfg, dirs), "agents")
         /\ ResolveContext(cfg, dirs).rules = EffectiveFor(Walked(cfg, dirs), "rules")
         /\ ResolveContext(cfg, dirs).flows = EffectiveFor(Walked(cfg, dirs), "flows")
         /\ DOMAIN Walked(cfg, dirs) = DOMAIN cfg.seeds
         /\ \A i \in DOMAIN cfg.seeds :
               Walked(cfg, dirs)[i] = SeedContribution(cfg.seeds[i], dirs, RoleAgentMap(cfg))
  BY DEF ResolveContext, Walked

LEMMA KindsAre ==
  ASSUME NEW c
  PROVE  /\ NamesOf(c, "agents") = c.agents
         /\ NamesOf(c, "rules") = c.rules
         /\ NamesOf(c, "flows") = {f.name : f \in c.flows}
  BY DEF NamesOf

LEMMA AgentListed ==
  ASSUME NEW cfg, IsConfig(cfg), NEW dirs, NEW id, NEW path, path = AgentSeed(cfg.seeds, dirs, id),
         path # None, id \notin dirs[path].broken, <<"agents", id>> \notin dirs[path].hidden
  PROVE  /\ id \in ListAgents(ResolveContext(cfg, dirs))
         /\ ResolveContext(cfg, dirs).agents[id].seed = path
  <1> DEFINE having == {p \in DOMAIN dirs : id \in DOMAIN dirs[p].agents}
             seeds == cfg.seeds
             walked == Walked(cfg, dirs)
             context == ResolveContext(cfg, dirs)
  <1>1. IsSeeds(seeds) /\ path = SeedWith(seeds, having)
    BY DEF IsConfig, AgentSeed
  <1>2. \A p : p \in having <=> p \in DOMAIN dirs /\ id \in DOMAIN dirs[p].agents
    OBVIOUS
  <1> HIDE DEF having
  <1>3. PICK k \in DOMAIN seeds :
           /\ seeds[k].kind = "local" /\ seeds[k].path = path /\ seeds[k].path \in having
           /\ \A j \in DOMAIN seeds : j < k => ~(seeds[j].kind = "local" /\ seeds[j].path \in having)
    BY <1>1, SeedWithAt
  <1>4. DOMAIN seeds \subseteq Nat
    BY <1>1 DEF IsSeeds
  <1>5. \A i \in DOMAIN seeds : NamesOf(walked[i], "agents")
                                  = IF seeds[i].kind = "local" /\ seeds[i].path \in DOMAIN dirs
                                    THEN AgentsIn(dirs[seeds[i].path]) ELSE {}
    <2> TAKE i \in DOMAIN seeds
    <2>1. NamesOf(walked[i], "agents") = walked[i].agents
      BY KindsAre
    <2>2. walked[i] = SeedContribution(seeds[i], dirs, RoleAgentMap(cfg))
      BY ContextIs
    <2> HIDE DEF walked, seeds
    <2> QED BY <2>1, <2>2, ShowsIs
  <1>6. id \in NamesOf(walked[k], "agents")
    BY <1>2, <1>3, <1>5 DEF AgentsIn
  <1>7. \A j \in DOMAIN seeds : j < k => id \notin NamesOf(walked[j], "agents")
    BY <1>2, <1>3, <1>5 DEF AgentsIn
  <1>8. DOMAIN walked = DOMAIN seeds /\ walked[k].display = path
    BY <1>3, ContextIs, ShowsIs
  <1>9. context.agents = EffectiveFor(walked, "agents") /\ context.seeds = walked
    BY ContextIs
  <1> HIDE DEF walked, context, seeds
  <1>10. EffectiveFor(walked, "agents")[id].seed = path
    BY <1>4, <1>6, <1>7, <1>8, EffectiveIs
  <1>11. id \in ListAgents(context)
    BY <1>6, <1>8, <1>9 DEF ListAgents, NamesOf
  <1> QED BY <1>9, <1>10, <1>11 DEF context

LEMMA RuleListed ==
  ASSUME NEW cfg, IsConfig(cfg), NEW dirs, NEW r, NEW path, path = RuleSeed(cfg.seeds, dirs, r),
         path # None, <<"rules", r>> \notin dirs[path].hidden
  PROVE  ResolveContext(cfg, dirs).rules[r].seed = path
  <1> DEFINE having == {p \in DOMAIN dirs : r \in dirs[p].rules}
             seeds == cfg.seeds
             walked == Walked(cfg, dirs)
             context == ResolveContext(cfg, dirs)
  <1>1. IsSeeds(seeds) /\ path = SeedWith(seeds, having)
    BY DEF IsConfig, RuleSeed
  <1>2. \A p : p \in having <=> p \in DOMAIN dirs /\ r \in dirs[p].rules
    OBVIOUS
  <1> HIDE DEF having
  <1>3. PICK k \in DOMAIN seeds :
           /\ seeds[k].kind = "local" /\ seeds[k].path = path /\ seeds[k].path \in having
           /\ \A j \in DOMAIN seeds : j < k => ~(seeds[j].kind = "local" /\ seeds[j].path \in having)
    BY <1>1, SeedWithAt
  <1>4. DOMAIN seeds \subseteq Nat
    BY <1>1 DEF IsSeeds
  <1>5. \A i \in DOMAIN seeds : NamesOf(walked[i], "rules")
                                  = IF seeds[i].kind = "local" /\ seeds[i].path \in DOMAIN dirs
                                    THEN RulesIn(dirs[seeds[i].path]) ELSE {}
    <2> TAKE i \in DOMAIN seeds
    <2>1. NamesOf(walked[i], "rules") = walked[i].rules
      BY KindsAre
    <2>2. walked[i] = SeedContribution(seeds[i], dirs, RoleAgentMap(cfg))
      BY ContextIs
    <2> HIDE DEF walked, seeds
    <2> QED BY <2>1, <2>2, ShowsIs
  <1>6. r \in NamesOf(walked[k], "rules")
    BY <1>2, <1>3, <1>5 DEF RulesIn
  <1>7. \A j \in DOMAIN seeds : j < k => r \notin NamesOf(walked[j], "rules")
    BY <1>2, <1>3, <1>5 DEF RulesIn
  <1>8. DOMAIN walked = DOMAIN seeds /\ walked[k].display = path
    BY <1>3, ContextIs, ShowsIs
  <1>9. context.rules = EffectiveFor(walked, "rules")
    BY ContextIs
  <1> HIDE DEF walked, context, seeds
  <1>10. EffectiveFor(walked, "rules")[r].seed = path
    BY <1>4, <1>6, <1>7, <1>8, EffectiveIs
  <1> QED BY <1>9, <1>10 DEF context

LEMMA StartedConfig ==
  ASSUME SetupInv, stage = "started"
  PROVE  IsConfig(plan.cfg)
  BY StartedIs DEF LinearStarted, BoundSteps, LinearFlow, GraphStarted, GraphLoaded,
                   GraphFilled, Graph0, Located, NamedStarted, NamedLoaded

\* What an agent is told of its persona and its rules is in its system prompt.
LEMMA ToldBySystem ==
  ASSUME SetupInv, Started, NEW p \in Told, p[1] \in {"guide", "rule", "skill", "persona"}
  PROVE  call.agent \in DOMAIN plan.agents /\ p \in SystemOf(call.agent)
  <1>1. PICK i, U : Working(i, call.agent, U)
    BY StartedAtWork
  <1>2. /\ call.agent \in DOMAIN plan.agents
        /\ p \in SystemOf(call.agent) \/ p = <<"preamble">> \/ Asks(p, i)
    BY <1>1 DEF Working
  <1>3. <<"preamble">>[1] = "preamble" /\ \A x : <<"task", x>>[1] = "task"
    OBVIOUS
  <1>4. \A x : <<"step", x>>[1] = "step"
    OBVIOUS
  <1> QED BY Zenon, <1>2, <1>3, <1>4 DEF Asks

LEMMA PartsListedHolds == SetupInv => PartsListed
  <1> DEFINE context == ResolveContext(plan.cfg, W.dirs)
             id == call.agent
             a == plan.agents[id]
             path == AgentSeed(Seeds, W.dirs, id)
             Told1(r) == <<"rule", r, RuleSeed(Seeds, W.dirs, r)>>
             me == <<"persona", id, path>>
  <1> SUFFICES ASSUME SetupInv, Started, NEW p \in Told
               PROVE  /\ p[1] = "persona" /\ <<"agents", p[2]>> \notin W.dirs[p[3]].hidden =>
                            /\ p[2] \in ListAgents(context)
                            /\ context.agents[p[2]].seed = p[3]
                      /\ p[1] = "rule" /\ <<"rules", p[2]>> \notin W.dirs[p[3]].hidden =>
                            context.rules[p[2]].seed = p[3]
    BY Zenon DEF PartsListed
  <1>1. stage = "started"
    BY DEF Started
  <1>2. IsConfig(plan.cfg)
    BY <1>1, StartedConfig
  <1>3. CASE p[1] = "persona"
    <2>1. id \in DOMAIN plan.agents /\ p \in SystemOf(id)
      BY <1>3, ToldBySystem
    <2>2. p = me
      <3>1. \A r : Told1(r)[1] = "rule"
        OBVIOUS
      <3>2. \A n : <<"skill", n>>[1] = "skill"
        OBVIOUS
      <3>3. \/ p[1] = "guide" /\ p \in ToSet(plan.guide)
            \/ \E r \in ToSet(a.rules) : p = Told1(r)
            \/ \E n \in ToSet(a.skills) : p = <<"skill", n>>
            \/ p = me
        BY <1>1, <2>1, SystemSays
      <3> HIDE DEF Told1, me, a
      <3> QED BY <1>3, <3>1, <3>2, <3>3
    <2>3. p[2] = id /\ p[3] = path
      BY <2>2
    <2>4. path # None /\ id \notin W.dirs[path].broken
      BY <1>1, <2>1, CrewIs DEF AgentIs
    <2> HIDE DEF path
    <2>5. <<"agents", id>> \notin W.dirs[path].hidden =>
             id \in ListAgents(context) /\ context.agents[id].seed = path
      BY <1>2, <2>4, AgentListed DEF path, Seeds
    <2> HIDE DEF context, id, me
    <2> QED BY <1>3, <2>3, <2>5
  <1>4. CASE p[1] = "rule"
    <2>1. id \in DOMAIN plan.agents /\ p \in SystemOf(id)
      BY <1>4, ToldBySystem
    <2>2. PICK r \in ToSet(a.rules) : p = Told1(r)
      <3>1. me[1] = "persona"
        OBVIOUS
      <3>2. \A n : <<"skill", n>>[1] = "skill"
        OBVIOUS
      <3>3. \/ p[1] = "guide" /\ p \in ToSet(plan.guide)
            \/ \E r \in ToSet(a.rules) : p = Told1(r)
            \/ \E n \in ToSet(a.skills) : p = <<"skill", n>>
            \/ p = me
        BY <1>1, <2>1, SystemSays
      <3> HIDE DEF Told1, me, a
      <3> QED BY <1>4, <3>1, <3>2, <3>3
    <2>3. p[2] = r /\ p[3] = RuleSeed(Seeds, W.dirs, r)
      BY <2>2
    <2>4. RuleSeed(Seeds, W.dirs, r) # None
      BY <1>1, <2>1, CachesAre DEF Informed, Seeds
    <2>5. <<"rules", r>> \notin W.dirs[RuleSeed(Seeds, W.dirs, r)].hidden =>
             context.rules[r].seed = RuleSeed(Seeds, W.dirs, r)
      BY <1>2, <2>4, RuleListed DEF Seeds
    <2> HIDE DEF context, id, me, a, Told1
    <2> QED BY <1>4, <2>3, <2>5
  <1> QED BY <1>3, <1>4

(* `kuro context` and list_agents list what runs: a started agent is listed *)
(* from the seed it was loaded from, and the rules it is told are listed    *)
(* from the seeds they were read from, unless the walk does not see their   *)
(* names (context.rs walk_agents, enumerate_rules_in_seed, effective_for).  *)
THEOREM PartsAreListed == Spec => []PartsListed
  BY SetupInvariant, PartsListedHolds, PTL

---------------------------------------------------------------------------
(* What the server hands out.                                               *)

\* A prompt depends on the caches only where the agent has something there.
LEMMA PromptsAgree ==
  ASSUME NEW a, NEW b, a.rules \in Seq(Word), a.skills \in Seq(Word),
         a.id = b.id, a.path = b.path, a.rules = b.rules, a.skills = b.skills,
         NEW guide, NEW rules1, NEW rules2, NEW skills1, NEW skills2,
         \A r \in ToSet(a.rules) : /\ r \in DOMAIN rules1 /\ r \in DOMAIN rules2
                                   /\ rules1[r] = rules2[r],
         \A n \in ToSet(a.skills) : n \in DOMAIN skills1 /\ n \in DOMAIN skills2
  PROVE  BuildSystemPrompt(a, guide, rules1, skills1) = BuildSystemPrompt(b, guide, rules2, skills2)
  <1> DEFINE R(rules, r) == IF r \in DOMAIN rules THEN <<<<"rule", r, rules[r]>>>> ELSE <<>>
             K(skills, n) == IF n \in DOMAIN skills THEN <<<<"skill", n>>>> ELSE <<>>
             Rs(rules) == [i \in DOMAIN a.rules |-> R(rules, a.rules[i])]
             Ks(skills) == [i \in DOMAIN a.skills |-> K(skills, a.skills[i])]
             me == <<"persona", a.id, a.path>>
  <1>1. /\ BuildSystemPrompt(a, guide, rules1, skills1)
             = guide \o FlattenSeq(Rs(rules1)) \o FlattenSeq(Ks(skills1)) \o <<me>>
        /\ BuildSystemPrompt(b, guide, rules2, skills2)
             = guide \o FlattenSeq(Rs(rules2)) \o FlattenSeq(Ks(skills2)) \o <<me>>
    BY DEF BuildSystemPrompt
  <1>2. /\ \A i \in DOMAIN a.rules : a.rules[i] \in ToSet(a.rules)
        /\ \A i \in DOMAIN a.skills : a.skills[i] \in ToSet(a.skills)
    BY DEF ToSet
  <1>3. Rs(rules1) = Rs(rules2)
    <2>1. \A i \in DOMAIN a.rules : R(rules1, a.rules[i]) = R(rules2, a.rules[i])
      BY <1>2
    <2> HIDE DEF R
    <2> QED BY <2>1
  <1>4. Ks(skills1) = Ks(skills2)
    <2>1. \A i \in DOMAIN a.skills : K(skills1, a.skills[i]) = K(skills2, a.skills[i])
      BY <1>2
    <2> HIDE DEF K
    <2> QED BY <2>1
  <1> HIDE DEF Rs, Ks
  <1> QED BY <1>1, <1>3, <1>4

\* The rules of some agents load when those of more agents do.
LEMMA RulesOfFewer ==
  ASSUME NEW few, NEW many, NEW seeds, NEW dirs, LoadRules(many, seeds, dirs).ok,
         \A x \in DOMAIN few : \E y \in DOMAIN many : few[x].rules = many[y].rules
  PROVE  LoadRules(few, seeds, dirs).ok
  <1> DEFINE names == UNION {ToSet(many[id].rules) : id \in DOMAIN many}
             fewer == UNION {ToSet(few[id].rules) : id \in DOMAIN few}
             At(r) == Find(seeds, {p \in DOMAIN dirs : r \in dirs[p].rules})
  <1>1. \A r \in names : At(r).ok /\ At(r).val # 0
    BY DEF LoadRules, Err
  <1>2. fewer \subseteq names
    OBVIOUS
  <1>3. (\A r \in fewer : At(r).ok) /\ (\A r \in fewer : At(r).val # 0)
        => LoadRules(few, seeds, dirs).ok
    BY DEF LoadRules, Ok
  <1> HIDE DEF names, fewer, At
  <1> QED BY <1>1, <1>2, <1>3

LEMMA SkillsOfFewer ==
  ASSUME NEW few, NEW many, NEW skills, LoadSkills(many, skills).ok,
         \A x \in DOMAIN few : \E y \in DOMAIN many : few[x].skills = many[y].skills
  PROVE  /\ LoadSkills(few, skills).ok
         /\ DOMAIN LoadSkills(few, skills).val = CollectSkillNames(few)
  <1>1. CollectSkillNames(few) \subseteq CollectSkillNames(many)
    BY DEF CollectSkillNames
  <1>2. \A n \in CollectSkillNames(many) : ResolveSkill(n, skills)
    BY DEF LoadSkills, Err
  <1>3. \A n \in CollectSkillNames(few) : ResolveSkill(n, skills)
    BY <1>1, <1>2
  <1> QED BY <1>3 DEF LoadSkills, Ok

\* The server and the runner make the same of an agent without an overlay.
LEMMA HandedOut ==
  ASSUME SetupInv, Started, call.agent # "", Overlaid(call.agent) = NoOverlay,
         plan.flow.shape # "graph"
  PROVE  /\ call.agent \in DOMAIN plan.agents
         /\ LoadAgent(call.agent, W.cmd = "run" \/ W.include, plan.cfg, W.dirs, W.skills)
              = Ok(System(plan.agents[call.agent]))
  <1> DEFINE id == call.agent
             include == W.cmd = "run" \/ W.include
             seeds == plan.cfg.seeds
             agent == LoadAgentFile(seeds, W.dirs, id, <<"claude-sonnet-4-5">>, "claude-cli",
                                    plan.cfg)
             one == [x \in {id} |-> agent.val]
             a == plan.agents[id]
             guide == LoadGuideForTask(seeds, W.dirs, include)
             rules == LoadRules(one, seeds, W.dirs)
             skill == LoadSkills(one, W.skills)
  <1>1. stage = "started"
    BY Zenon DEF Started
  <1>2. id \in DOMAIN plan.agents
    BY Zenon, StartedAtWork DEF Working
  <1>3. /\ AgentIs(a, id, seeds, W.dirs, plan.cfg, DefaultOf(plan).model, DefaultOf(plan).backend,
                   NoOverlay)
        /\ a.rules \in Seq(Word) /\ a.skills \in Seq(Word)
    BY Zenon, <1>1, <1>2, CrewIs DEF Seeds, AgentTyped
  <1>4. IsConfig(plan.cfg) /\ IsSeeds(seeds) /\ IsDirs(W.dirs)
    <2>1. world \in Worlds
      BY Zenon DEF SetupInv
    <2> QED BY Zenon, <1>1, <2>1, StartedConfig, DirsAre DEF IsConfig
  <1>7. /\ guide = Ok(plan.guide)
        /\ LoadRules(plan.agents, seeds, W.dirs) = Ok(plan.rules)
        /\ LoadSkills(plan.agents, W.skills) = Ok(plan.skills)
        /\ \A r \in ToSet(a.rules) : r \in DOMAIN plan.rules
                                     /\ plan.rules[r] = RuleSeed(seeds, W.dirs, r)
        /\ ToSet(a.skills) \subseteq DOMAIN plan.skills
    <2>1. Informed(W, plan.cfg, plan.agents, plan.guide, plan.rules, plan.skills, include,
                   plan.flow.shape # "graph")
      BY Zenon, <1>1, CachesAre
    <2> HIDE DEF include
    <2> QED BY Zenon, <1>2, <2>1 DEF Informed, Gathers
  <1>8. agent.ok /\ guide.ok /\ guide.val = plan.guide
    <2>1. agent.ok
      BY Zenon, <1>3 DEF AgentIs, Handable
    <2> HIDE DEF guide
    <2> QED BY ZenonT(40), <1>7, <2>1 DEF Ok
  <1>9. AgentIs(agent.val, id, seeds, W.dirs, plan.cfg, <<"claude-sonnet-4-5">>, "claude-cli",
                NoOverlay)
    <2> DEFINE m == <<"claude-sonnet-4-5">>
    <2>1. m \in Seq(Word) /\ m # <<>>
      <3> DEFINE s == "claude-sonnet-4-5"
      <3>1. s \in Word
        BY Zenon DEF Word
      <3> HIDE DEF s
      <3>2. <<s>> \in Seq(Word) /\ <<s>> # <<>>
        BY Zenon, <3>1, Singleton, EmptySeq
      <3> QED BY Zenon, <3>2 DEF s
    <2> HIDE DEF m
    <2>2. Filled(m, "claude-cli", m, "claude-cli")
      BY Zenon, <2>1 DEF Filled, Backends, None
    <2> HIDE DEF seeds, id
    <2>3. LoadAgentFile(seeds, W.dirs, id, m, "claude-cli", plan.cfg).ok
      BY Zenon, <1>8 DEF m
    <2>4. AgentIs(LoadAgentFile(seeds, W.dirs, id, m, "claude-cli", plan.cfg).val, id, seeds,
                  W.dirs, plan.cfg, m, "claude-cli", NoOverlay)
      BY ONLY <1>4, <2>2, <2>3, LoadedIs
    <2> QED BY Zenon, <2>4 DEF m
  <1>10. /\ LoadAgent(id, include, plan.cfg, W.dirs, W.skills)
              = IF id = "" \/ ~agent.ok THEN Err
                ELSE IF guide.ok /\ rules.ok /\ skill.ok
                     THEN Ok(BuildSystemPrompt(agent.val, guide.val, rules.val, skill.val)) ELSE Err
         /\ DOMAIN one = {id} /\ one[id] = agent.val
    BY Zenon DEF LoadAgent
  <1> HIDE DEF agent, guide, one, a, seeds, include
  <1>11. /\ agent.val.id = a.id /\ agent.val.path = a.path
         /\ agent.val.rules = a.rules /\ agent.val.skills = a.skills
    BY Zenon, <1>3, <1>9 DEF AgentIs
  <1>12. /\ \A x \in DOMAIN one : \E y \in DOMAIN plan.agents : one[x].rules = plan.agents[y].rules
         /\ \A x \in DOMAIN one : \E y \in DOMAIN plan.agents : one[x].skills = plan.agents[y].skills
    BY Zenon, <1>2, <1>10, <1>11 DEF a
  <1>13. rules.ok /\ skill.ok /\ DOMAIN skill.val = CollectSkillNames(one)
    <2>1. LoadRules(plan.agents, seeds, W.dirs).ok /\ LoadSkills(plan.agents, W.skills).ok
      <3>1. \A x : Ok(x).ok
        BY Zenon DEF Ok
      <3> QED BY Zenon, <1>7, <3>1
    <2>2. rules.ok
      BY Zenon, <1>12, <2>1, RulesOfFewer
    <2>3. skill.ok /\ DOMAIN skill.val = CollectSkillNames(one)
      BY Zenon, <1>12, <2>1, SkillsOfFewer
    <2> QED BY Zenon, <2>2, <2>3
  <1>14. \A r \in ToSet(a.rules) : /\ r \in DOMAIN plan.rules /\ r \in DOMAIN rules.val
                                   /\ plan.rules[r] = rules.val[r]
    <2> TAKE r \in ToSet(a.rules)
    <2>2. id \in DOMAIN one /\ r \in ToSet(one[id].rules)
      BY Zenon, <1>10, <1>11
    <2>3. r \in DOMAIN rules.val /\ rules.val[r] = RuleSeed(seeds, W.dirs, r)
      BY ONLY <1>4, <1>13, <2>2, RulesAre
    <2> QED BY Zenon, <1>7, <2>3
  <1>15. \A n \in ToSet(a.skills) : n \in DOMAIN plan.skills /\ n \in DOMAIN skill.val
    <2>1. ToSet(a.skills) \subseteq CollectSkillNames(one)
      BY Zenon, <1>10, <1>11 DEF CollectSkillNames
    <2> QED BY Zenon, <1>7, <1>13, <2>1
  <1> HIDE DEF rules, skill, id
  <1>16. BuildSystemPrompt(a, plan.guide, plan.rules, plan.skills)
           = BuildSystemPrompt(agent.val, plan.guide, rules.val, skill.val)
    BY ONLY <1>3, <1>11, <1>14, <1>15, PromptsAgree
  <1>17. id # ""
    BY Zenon DEF id
  <1>18. LoadAgent(id, include, plan.cfg, W.dirs, W.skills) = Ok(System(a))
    BY Zenon, <1>8, <1>10, <1>13, <1>16, <1>17 DEF System
  <1> QED BY Zenon, <1>2, <1>18 DEF id, a, include

\* Of the texts of a command line one has the system prompt, part after part,
\* and no other has any of it.
LEMMA OneTold ==
  ASSUME NEW texts, NEW system, NEW S, Holds(system, S, S), NEW U, Voiced(texts, system, U),
         NEW kinds, \A x \in S : x[1] \in kinds, \A x \in U : x[1] \notin kinds,
         <<"preamble">>[1] \notin kinds
  PROVE  \E text \in texts : /\ Together(text, kinds, system)
                             /\ \A other \in texts \ {text} :
                                   \A p \in ToSet(other) : p[1] \notin kinds
  <1> DEFINE P == (S \cup U) \cup {<<"preamble">>}
             e == <<>>
             pre == Preamble
  <1>0. system \in Seq(P) /\ ToSet(system) = S /\ \A x \in ToSet(system) : x[1] \in kinds
    <2>1. Holds(system, P, S)
      BY HoldsIn
    <2> QED BY <2>1 DEF Holds
  <1>1. /\ e \in Seq(P) /\ ToSet(e) = {} /\ \A t \in Seq(P) : e \o t = t /\ t \o e = t
    BY EmptySeq, NoSeed
  <1>2. pre \in Seq(P) /\ ToSet(pre) = {<<"preamble">>} /\ pre \o system \in Seq(P)
    BY <1>0, PreambleFirst
  <1> HIDE DEF P, e
  <1>3. Together(pre \o system, kinds, system)
    <2> DEFINE t == pre \o system
    <2>1. \A x \in ToSet(pre) \cup ToSet(e) : x[1] \notin kinds
      BY <1>1, <1>2
    <2> HIDE DEF pre
    <2>2. Together(t \o e, kinds, system)
      BY <1>0, <1>1, <1>2, <2>1, TogetherIn
    <2>3. t \o e = t
      BY <1>1, <1>2
    <2> HIDE DEF t
    <2>4. Together(t, kinds, system)
      BY <2>2, <2>3
    <2> QED BY <2>4 DEF t
  <1>4. Together(system, kinds, system)
    <2>1. \A x \in ToSet(e) \cup ToSet(e) : x[1] \notin kinds
      BY <1>1
    <2>2. Together((e \o system) \o e, kinds, system)
      BY <1>0, <1>1, <2>1, TogetherIn
    <2>3. (e \o system) \o e = system
      BY <1>0, <1>1
    <2> DEFINE t == (e \o system) \o e
    <2>4. Together(t, kinds, system) /\ t = system
      BY <2>2, <2>3
    <2> HIDE DEF t
    <2> QED BY <2>4
  <1>5. ASSUME NEW user, Holds(user, U, U), Spoken(texts, system, user)
        PROVE  \E text \in texts : /\ Together(text, kinds, system)
                                   /\ \A other \in texts \ {text} :
                                         \A p \in ToSet(other) : p[1] \notin kinds
    <2>1. user \in Seq(P) /\ \A p \in ToSet(user) : p[1] \notin kinds
      <3>1. Holds(user, P, U)
        BY <1>5, HoldsIn DEF P
      <3> QED BY <3>1 DEF Holds
    <2>2. Together(system \o user, kinds, system)
      <3>1. \A x \in ToSet(e) \cup ToSet(user) : x[1] \notin kinds
        BY <1>1, <2>1
      <3>2. Together((e \o system) \o user, kinds, system)
        BY <1>0, <1>1, <2>1, <3>1, TogetherIn
      <3> DEFINE t == e \o system
      <3>3. Together(t \o user, kinds, system) /\ t = system
        BY <1>0, <1>1, <3>2
      <3> HIDE DEF t
      <3> QED BY <3>3
    <2> DEFINE a == pre \o system
               b == system \o user
    <2>3. texts = {a, user} \/ texts = {b} \/ texts = {system, user}
      BY <1>5 DEF Spoken
    <2>4. Together(a, kinds, system) /\ Together(b, kinds, system)
      BY <1>3, <2>2
    <2> HIDE DEF a, b, pre
    <2> QED BY <1>4, <2>1, <2>3, <2>4
  <1>6. ASSUME Heard(texts, system)
        PROVE  \E text \in texts : /\ Together(text, kinds, system)
                                   /\ \A other \in texts \ {text} :
                                         \A p \in ToSet(other) : p[1] \notin kinds
    <2> DEFINE a == pre \o system
    <2>1. texts = {a} \/ texts = {system}
      BY <1>6 DEF Heard
    <2>2. Together(a, kinds, system)
      BY <1>3
    <2> HIDE DEF a, pre
    <2> QED BY <1>4, <2>1, <2>2
  <1> QED BY <1>5, <1>6 DEF Voiced

LEMMA HandedIsToldHolds == SetupInv => HandedIsTold
  <1> DEFINE id == call.agent
             a == plan.agents[id]
             kinds == {"guide", "rule", "skill", "persona"}
             handed == LoadAgent(id, W.cmd = "run" \/ W.include, plan.cfg, W.dirs, W.skills)
             texts == TextsOf(call.argv)
             S == SystemOf(id)
             Told1(text, t) == /\ Together(text, kinds, t)
                               /\ \A other \in texts \ {text} :
                                     \A p \in ToSet(other) : p[1] \notin kinds
  <1> SUFFICES ASSUME SetupInv, Started, id # "", Overlaid(id) = NoOverlay,
                      plan.flow.shape # "graph"
               PROVE  handed.ok /\ \E text \in texts : Told1(text, handed.val)
    BY Zenon DEF HandedIsTold
  <1>1. id \in DOMAIN plan.agents /\ handed = Ok(System(a))
    BY Zenon, HandedOut
  <1>2. handed.ok /\ handed.val = System(a)
    <2> HIDE DEF handed
    <2> QED BY Zenon, <1>1 DEF Ok
  <1>3. stage = "started"
    BY Zenon DEF Started
  <1>4. Holds(System(a), S, S)
    BY Zenon, <1>1, <1>3, SystemHolds
  <1>5. PICK i, U : Working(i, id, U)
    BY Zenon, StartedAtWork
  <1>6. Voiced(texts, System(a), U) /\ \A p \in U : Asks(p, i)
    BY Zenon, <1>5 DEF Working
  <1>7. \A x \in U : x[1] \notin kinds
    <2>1. \A x : <<"task", x>>[1] \notin kinds
      BY Zenon
    <2>2. \A x : <<"step", x>>[1] \notin kinds
      BY Zenon
    <2>3. "output of" \notin kinds /\ "menu" \notin kinds
      BY Zenon
    <2> HIDE DEF kinds
    <2> QED BY Zenon, <1>6, <2>1, <2>2, <2>3 DEF Asks
  <1>8. \A x \in S : x[1] \in kinds
    <2>1. \A x \in S : \/ x[1] = "guide"
                       \/ \E r \in ToSet(a.rules) : x = <<"rule", r, RuleSeed(Seeds, W.dirs, r)>>
                       \/ \E n \in ToSet(a.skills) : x = <<"skill", n>>
                       \/ x = <<"persona", id, AgentSeed(Seeds, W.dirs, id)>>
      BY Zenon, <1>1, <1>3, SystemSays
    <2>2. \A r, y : <<"rule", r, y>>[1] = "rule"
      BY Zenon
    <2>3. \A n : <<"skill", n>>[1] = "skill"
      BY Zenon
    <2>4. \A r, y : <<"persona", r, y>>[1] = "persona"
      BY Zenon
    <2> HIDE DEF S, a, id, kinds
    <2>5. \A x \in S : \/ x[1] = "guide" \/ x[1] = "rule" \/ x[1] = "skill" \/ x[1] = "persona"
      BY ONLY <2>1, <2>2, <2>3, <2>4
    <2> QED BY ONLY <2>5 DEF kinds
  <1>9. <<"preamble">>[1] \notin kinds
    BY Zenon
  <1> HIDE DEF kinds, S, texts, handed
  <1>10. \E text \in texts : Told1(text, System(a))
    <2> DEFINE s == System(a)
    <2>1. Holds(s, S, S) /\ Voiced(texts, s, U)
      BY Zenon, <1>4, <1>6
    <2> HIDE DEF s
    <2>2. \E text \in texts : /\ Together(text, kinds, s)
                              /\ \A other \in texts \ {text} :
                                    \A p \in ToSet(other) : p[1] \notin kinds
      BY ONLY <2>1, <1>7, <1>8, <1>9, OneTold
    <2> QED BY Zenon, <2>2 DEF s
  <1> QED BY Zenon, <1>2, <1>10

(* load_agent hands out the parts of the system prompt, in the order and in *)
(* the one text in which the runner gives them to an agent with nothing     *)
(* laid over it, and no other text of the command line holds any of them    *)
(* (mcp/discovery.rs do_load_agent, runner/mod.rs build_system_prompt).     *)
THEOREM HandingHolds == Spec => []HandedIsTold
  BY SetupInvariant, HandedIsToldHolds, PTL

---------------------------------------------------------------------------
(* What the inventory says of a flow that was started by its name.          *)

LEMMA NeedsSame ==
  ASSUME NEW s, NEW t, s.needs = t.needs, s.input = t.input
  PROVE  D!Needs(s) = D!Needs(t)
  BY DEF D!Needs

LEMMA NoNames ==
  ASSUME NEW kind
  PROVE  Names(kind, <<>>) = {}
  <1> DEFINE e == <<>>
  <1>1. DOMAIN e = {}
    OBVIOUS
  <1> HIDE DEF e
  <1>2. {j \in DOMAIN e : e[j][1] = kind} = {}
    BY <1>1
  <1>3. Names(kind, e) = {}
    BY <1>2 DEF Names
  <1> QED BY <1>3 DEF e

LEMMA PromptStays ==
  ASSUME NEW near, NEW value, NEW file, ResolvePromptField(value, file, near).ok
  PROVE  value = <<>> \/ ResolvePromptField(value, file, near).val = value
  BY DEF ResolvePromptField, Ok, Err

\* The steps of a flow hang together whatever their prompts are.
LEMMA StepsKnown ==
  ASSUME NEW steps, NEW others, DOMAIN steps = DOMAIN others,
         \A i \in DOMAIN steps : /\ steps[i].id = others[i].id
                                 /\ steps[i].needs = others[i].needs
                                 /\ steps[i].input = others[i].input
  PROVE  D!UnknownSteps(steps) = D!UnknownSteps(others)
  <1>1. \A i \in DOMAIN steps : D!Needs(steps[i]) = D!Needs(others[i])
    BY NeedsSame
  <1>2. D!Ids(steps) = D!Ids(others)
    BY DEF D!Ids
  <1>3. {D!ToSet(D!Needs(steps[i])) : i \in DOMAIN steps}
          = {D!ToSet(D!Needs(others[i])) : i \in DOMAIN others}
    BY <1>1
  <1> QED BY <1>2, <1>3 DEF D!UnknownSteps

\* A step that is accepted with the prompt of a file is accepted without it.
LEMMA StepOkWithout ==
  ASSUME NEW s, NEW t, \A x \in StepFields \ {"task"} : s[x] = t[x],
         t.task = <<>> \/ s.task = t.task, NEW bound, StepOk(s, bound), NEW more, bound \subseteq more
  PROVE  StepOk(t, more) /\ (t.role # None => t.role \in bound)
  <1>1. /\ s.type = t.type /\ s.agent = t.agent /\ s.role = t.role /\ s.run = t.run
        /\ s.model = t.model /\ s.backend = t.backend /\ s.extra = t.extra
        /\ s.agents = t.agents /\ s.turns = t.turns /\ s.timeout = t.timeout
    BY DEF StepFields
  <1>2. CASE s.type = "conversation"
    <2>1. ConversationOk(t)
      BY Zenon, <1>1, <1>2 DEF StepOk, ConversationOk
    <2>2. t.role = None
      BY Zenon, <2>1 DEF ConversationOk
    <2> QED BY <1>1, <1>2, <2>1, <2>2 DEF StepOk
  <1>3. CASE s.type # "conversation"
    <2>1. /\ s.type \in {None, "agent", "shell"}
          /\ s.agents = <<>> /\ s.turns = Unset /\ s.timeout = Unset
          /\ OneKind(s) /\ ValidateExtraArgs(s.extra)
          /\ IsShell(s) => ShellOk(s)
          /\ s.role # None => s.role \in bound
      BY <1>3 DEF StepOk
    <2>2. OneKind(t)
      BY <1>1, <2>1 DEF OneKind
    <2>3. IsShell(t) => ShellOk(t)
      BY <1>1, <2>1 DEF IsShell, ShellOk
    <2> QED BY <1>1, <1>3, <2>1, <2>2, <2>3 DEF StepOk
  <1> QED BY <1>2, <1>3

\* A linear flow that loads with its prompt files, and without the roles of any
\* project, is in order for the inventory, and binds all its roles.
LEMMA LinearInOrder ==
  ASSUME NEW raw, IsRawFlow(raw), NEW near, \A f \in DOMAIN near : near[f].text \in Texts,
         LoadLinear(raw, near, NoArgs, NoArgs).ok, NEW project
  PROVE  /\ ValidateAndResolve(raw, NoArgs, project).ok
         /\ \A i \in DOMAIN raw.steps : raw.steps[i].role # None =>
                                           raw.steps[i].role \in DOMAIN raw.roles
  <1> DEFINE in == ResolveExternalPrompts(raw, near)
             f == in.val
             prompt == ResolvePromptField(raw.prompt, raw.promptFile, near)
             Task(i) == ResolvePromptField(raw.steps[i].task, raw.steps[i].taskFile, near)
  <1>1. in.ok /\ ValidateAndResolve(f, NoArgs, NoArgs).ok
    BY DEF LoadLinear, Err
  <1>2. SameBut(raw, f)
    BY <1>1, PromptsAre
  <1>3. /\ raw.prompt = <<>> \/ f.prompt = raw.prompt
        /\ \A i \in DOMAIN raw.steps : raw.steps[i].task = <<>>
                                       \/ f.steps[i].task = raw.steps[i].task
    <2>1. /\ prompt.ok /\ \A i \in DOMAIN raw.steps : Task(i).ok
          /\ f = [raw EXCEPT !.prompt = prompt.val,
                             !.steps = [i \in DOMAIN raw.steps |->
                                           [raw.steps[i] EXCEPT !.task = Task(i).val]]]
      BY <1>1 DEF ResolveExternalPrompts, Ok, Err
    <2>2. /\ DOMAIN raw = FlowFields /\ "prompt" \in FlowFields /\ "steps" \in FlowFields
          /\ \A i \in DOMAIN raw.steps : DOMAIN raw.steps[i] = StepFields /\ "task" \in StepFields
      BY DEF IsRawFlow, IsRawStep, FlowFields, StepFields
    <2>3. /\ raw.prompt = <<>> \/ prompt.val = raw.prompt
          /\ \A i \in DOMAIN raw.steps : raw.steps[i].task = <<>> \/ Task(i).val = raw.steps[i].task
      BY <2>1, PromptStays
    <2> HIDE DEF f, prompt, Task
    <2>4. f.prompt = prompt.val /\ \A i \in DOMAIN raw.steps : f.steps[i].task = Task(i).val
      BY <2>1, <2>2
    <2> QED BY <2>3, <2>4
  <1> HIDE DEF in, f
  <1> DEFINE Mine(g) == [r \in DOMAIN g.roles |-> IF r \in DOMAIN NoArgs THEN NoArgs[r]
                                                 ELSE g.roles[r]]
             Used(g) == {g.steps[i].role : i \in DOMAIN g.steps} \ {None}
             More(g, p) == (Used(g) \ DOMAIN Mine(g)) \cap DOMAIN p
             Roles(g, p) == [r \in DOMAIN Mine(g) \cup More(g, p) |->
                               IF r \in DOMAIN Mine(g) THEN Mine(g)[r] ELSE p[r]]
  <1>4. DOMAIN NoArgs = {}
    BY NoOverlayIs
  <1>5. /\ f.version = "1" /\ \A r \in DOMAIN Mine(f) : Mine(f)[r] # ""
        /\ DOMAIN f.roles \cap ExtractPlaceholders(f.prompt) = {}
        /\ D!UnknownSteps(f.steps) = {}
        /\ \A i \in DOMAIN f.steps : StepOk(f.steps[i], DOMAIN Roles(f, NoArgs))
    BY Zenon, <1>1 DEF ValidateAndResolve, Err
  <1>6. /\ raw.version = "1" /\ \A r \in DOMAIN Mine(raw) : Mine(raw)[r] # ""
        /\ DOMAIN raw.roles \cap ExtractPlaceholders(raw.prompt) = {}
        /\ D!UnknownSteps(raw.steps) = {}
        /\ \A i \in DOMAIN raw.steps : StepOk(raw.steps[i], DOMAIN Roles(raw, project))
    => ValidateAndResolve(raw, NoArgs, project).ok
    BY Zenon DEF ValidateAndResolve, Ok
  <1>7. /\ f.version = raw.version /\ f.roles = raw.roles
        /\ DOMAIN f.steps = DOMAIN raw.steps
        /\ \A i \in DOMAIN raw.steps :
              \A x \in StepFields \ {"task"} : f.steps[i][x] = raw.steps[i][x]
    <2>1. {"version", "roles"} \subseteq FlowFields \ {"prompt", "steps"}
      BY DEF FlowFields
    <2> QED BY <1>2, <2>1 DEF SameBut
  <1>8. Mine(f) = Mine(raw) /\ DOMAIN Mine(raw) = DOMAIN raw.roles
    BY <1>7
  <1>9. /\ DOMAIN Roles(f, NoArgs) = DOMAIN raw.roles
        /\ DOMAIN raw.roles \subseteq DOMAIN Roles(raw, project)
    <2> HIDE DEF Mine, Used
    <2> QED BY <1>4, <1>8
  <1> HIDE DEF Mine, Roles
  <1>10. D!UnknownSteps(raw.steps) = {}
    <2>1. {"id", "needs", "input"} \subseteq StepFields \ {"task"}
      BY DEF StepFields
    <2>2. \A i \in DOMAIN raw.steps : /\ raw.steps[i].id = f.steps[i].id
                                      /\ raw.steps[i].needs = f.steps[i].needs
                                      /\ raw.steps[i].input = f.steps[i].input
      BY <1>7, <2>1
    <2>3. D!UnknownSteps(raw.steps) = D!UnknownSteps(f.steps)
      BY <1>7, <2>2, StepsKnown
    <2> QED BY Zenon, <1>5, <2>3
  <1>11. DOMAIN raw.roles \cap ExtractPlaceholders(raw.prompt) = {}
    <2>1. ExtractPlaceholders(<<>>) = {}
      BY NoNames DEF ExtractPlaceholders
    <2> QED BY Zenon, <1>3, <1>5, <1>7, <2>1
  <1>12. \A i \in DOMAIN raw.steps :
            /\ StepOk(raw.steps[i], DOMAIN Roles(raw, project))
            /\ raw.steps[i].role # None => raw.steps[i].role \in DOMAIN raw.roles
    <2> TAKE i \in DOMAIN raw.steps
    <2> DEFINE s == f.steps[i]
               t == raw.steps[i]
    <2>1. /\ \A x \in StepFields \ {"task"} : s[x] = t[x]
          /\ t.task = <<>> \/ s.task = t.task
          /\ StepOk(s, DOMAIN raw.roles)
      BY Zenon, <1>3, <1>5, <1>7, <1>9
    <2> HIDE DEF s, t
    <2>2. StepOk(t, DOMAIN Roles(raw, project)) /\ (t.role # None => t.role \in DOMAIN raw.roles)
      BY ONLY <1>9, <2>1, StepOkWithout
    <2> QED BY <2>2 DEF t
  <1> QED BY Zenon, <1>5, <1>6, <1>7, <1>8, <1>10, <1>11, <1>12

\* The entry of a file that the loader of the runs takes.
Entry(raw, project) ==
  [name |-> raw.name, steps |-> D!Ids(raw.steps), unresolved |-> UnboundRoles(raw, project)]

LEMMA EntriesNamed ==
  ASSUME NEW raw, NEW project, NEW e \in FlowEntries(raw, project)
  PROVE  e.name = raw.name
  <1>1. FlowEntries(raw, project) \subseteq {Entry(raw, project)}
    BY DEF FlowEntries, Entry
  <1>2. e = Entry(raw, project)
    BY <1>1
  <1> QED BY <1>2 DEF Entry

LEMMA UnboundAre ==
  ASSUME NEW raw, NEW project, NEW r \in UnboundRoles(raw, project)
  PROVE  /\ r \notin DOMAIN project /\ r # None
         /\ \E i \in DOMAIN raw.steps : r = raw.steps[i].role
         /\ raw.shape = "graph" \/ r \notin DOMAIN raw.roles
  BY DEF UnboundRoles

LEMMA EntriesAre ==
  ASSUME NEW raw, IsRawFlow(raw), NEW near, \A f \in DOMAIN near : near[f].text \in Texts,
         LoadAnyFromPath(raw, near).ok, NEW project
  PROVE  /\ FlowEntries(raw, project) = {Entry(raw, project)}
         /\ raw.shape # "graph" => UnboundRoles(raw, project) = {}
  <1>1. LoadAnyForInventory(raw, project).ok /\ (raw.shape # "graph" => UnboundRoles(raw, project) = {})
    <2>1. CASE raw.shape = "graph"
      <3>1. LoadGraph(raw, near).ok
        BY <2>1 DEF LoadAnyFromPath
      <3>2. raw.sound /\ \A i \in DOMAIN raw.steps : GraphStateOk(raw.steps[i])
        BY <3>1 DEF LoadGraph, Err
      <3> DEFINE f == [raw EXCEPT !.ext = "md"]
      <3>3. f.sound = raw.sound /\ f.steps = raw.steps /\ f.ext = "md"
        BY DEF IsRawFlow
      <3> HIDE DEF f
      <3>4. LoadGraph(f, NoArgs).ok
        BY <3>2, <3>3 DEF LoadGraph, Ok
      <3> QED BY <2>1, <3>4 DEF LoadAnyForInventory, f
    <2>2. CASE raw.shape # "graph"
      <3>1. raw.ext # "md"
        BY <2>2 DEF IsRawFlow
      <3>2. raw.shape = "linear" /\ LoadLinear(raw, near, NoArgs, NoArgs).ok
        BY <2>2, <3>1 DEF LoadAnyFromPath, Err
      <3>3. /\ ValidateAndResolve(raw, NoArgs, project).ok
            /\ \A i \in DOMAIN raw.steps : raw.steps[i].role # None =>
                                              raw.steps[i].role \in DOMAIN raw.roles
        BY <3>2, LinearInOrder
      <3>4. LoadAnyForInventory(raw, project).ok
        BY <3>1, <3>2, <3>3 DEF LoadAnyForInventory
      <3>5. UnboundRoles(raw, project) = {}
        BY <2>2, <3>3, UnboundAre
      <3> QED BY <3>4, <3>5
    <2> QED BY <2>1, <2>2
  <1> QED BY <1>1 DEF FlowEntries, Entry

\* The files of a directory that are named for their flow, and what stands for
\* them in its listing.
LEMMA FlowsInAre ==
  ASSUME NEW dir, NEW project, NEW n, <<"flows", n>> \notin dir.hidden,
         DOMAIN dir.flows \subseteq STRING \X {"yaml", "yml", "md"},
         \A f \in DOMAIN dir.flows : /\ f[1] = n <=> dir.flows[f].name = n
                                     /\ f[1] = n => f[2] # "yml"
  PROVE  /\ \A e \in FlowsIn(dir, project) : e.name = n =>
               \/ <<n, "yaml">> \in DOMAIN dir.flows
               \/ <<n, "md">> \in DOMAIN dir.flows
         /\ \A ext \in {"yaml", "md"} :
               /\ <<n, ext>> \in DOMAIN dir.flows
               /\ ext = "md" => <<n, "yaml">> \notin DOMAIN dir.flows
               => FlowEntries(dir.flows[<<n, ext>>], project) \subseteq FlowsIn(dir, project)
  <1> DEFINE files == DOMAIN dir.flows
             Best(f) == /\ f \in files /\ <<"flows", f[1]>> \notin dir.hidden
                        /\ \A g \in files : g[1] = f[1] => Rank(f[2]) <= Rank(g[2])
             E(f) == FlowEntries(dir.flows[f], project)
  <1>1. \A e : e \in FlowsIn(dir, project) <=> \E f \in files : Best(f) /\ e \in E(f)
    BY DEF FlowsIn
  <1>2. Rank("yaml") = 0 /\ Rank("md") = 2
    BY DEF Rank
  <1>3. \A f \in files : /\ f = <<f[1], f[2]>> /\ f[2] \in {"yaml", "yml", "md"}
                         /\ f[1] = n => f[2] = "yaml" \/ f[2] = "md"
    OBVIOUS
  <1> HIDE DEF E
  <1>4. ASSUME NEW e \in FlowsIn(dir, project), e.name = n
        PROVE  <<n, "yaml">> \in files \/ <<n, "md">> \in files
    <2>1. PICK f \in files : e \in E(f)
      BY <1>1
    <2>2. e.name = dir.flows[f].name
      BY <2>1, EntriesNamed DEF E
    <2>3. f[1] = n
      BY <1>4, <2>2
    <2> QED BY <1>3, <2>3
  <1>5. ASSUME NEW ext \in {"yaml", "md"}, <<n, ext>> \in files,
               ext = "md" => <<n, "yaml">> \notin files
        PROVE  E(<<n, ext>>) \subseteq FlowsIn(dir, project)
    <2> DEFINE f == <<n, ext>>
    <2>0. f[1] = n /\ f[2] = ext
      OBVIOUS
    <2>1. ASSUME NEW g \in files, g[1] = n PROVE Rank(ext) <= Rank(g[2])
      <3>1. g = <<n, "yaml">> \/ g = <<n, "md">>
        BY <1>3, <2>1
      <3>2. g[2] = "yaml" \/ g[2] = "md"
        BY <3>1
      <3>3. ext = "md" => g[2] = "md"
        BY <1>5, <3>1
      <3> QED BY <1>2, <3>2, <3>3
    <2> HIDE DEF f
    <2>2. Best(f)
      BY <1>5, <2>0, <2>1 DEF f
    <2> HIDE DEF Best
    <2> QED BY <1>1, <1>5, <2>2 DEF f
  <1> QED BY <1>4, <1>5 DEF E

\* What a run that was asked for by name has found.
LEMMA NamedAre ==
  ASSUME SetupInv, Started, W.cmd = "run"
  PROVE  /\ IsConfig(plan.cfg) /\ IsRawFlow(plan.raw) /\ NamedIn(W, plan.cfg, plan.raw)
         /\ LoadAnyFromPath(plan.raw, W.near).ok
         /\ plan.raw.shape = "graph" => Employed(W, plan.cfg, plan.raw)
  <1>1. stage = "started"
    BY DEF Started
  <1>2. LinearStarted(W, plan) \/ GraphStarted(W, plan)
    BY <1>1, StartedIs
  <1>3. CASE LinearStarted(W, plan)
    BY <1>3 DEF LinearStarted, BoundSteps, LinearFlow, Located, Readable
  <1>4. CASE GraphStarted(W, plan)
    BY <1>4 DEF GraphStarted, GraphLoaded, GraphFilled, Graph0, Located, Readable
  <1> QED BY <1>2, <1>3, <1>4

LEMMA NamedIsListedHolds == SetupInv => NamedIsListed
  <1> DEFINE cfg == plan.cfg
             seeds == plan.cfg.seeds
             dirs == W.dirs
             project == RoleAgentMap(cfg)
             walked == Walked(cfg, dirs)
             context == ResolveContext(cfg, dirs)
             n == W.source.name
             won == dirs[context.flows[n].seed].flows
             raw == plan.raw
             staffing == {raw.steps[i].role : i \in {j \in DOMAIN raw.steps : Staffed(raw.steps[j])}}
             Above == raw.ext = "yaml" /\ DOMAIN won \cap ({n} \X {"yaml", "yml", "md"}) = {<<n, "md">>}
             Same == /\ <<n, raw.ext>> \in DOMAIN won /\ raw = won[<<n, raw.ext>>]
                     /\ \E f \in ListFlows(context) :
                           /\ f.name = n /\ f.steps = D!Ids(raw.steps)
                           /\ \A r \in f.unresolved \cap staffing : AgentGiven(W.overrides, r) # None
  <1> SUFFICES ASSUME SetupInv, Started, W.cmd = "run", W.source.kind = "name",
                      NamedForTheirFlow(n)
               PROVE  Above \/ Same
    BY Zenon DEF NamedIsListed
  <1>1. /\ IsConfig(cfg) /\ IsRawFlow(raw) /\ NamedIn(W, cfg, raw)
        /\ LoadAnyFromPath(raw, W.near).ok /\ (raw.shape = "graph" => Employed(W, cfg, raw))
    BY NamedAre
  <1>2. PICK k \in DOMAIN seeds, ext \in {"yaml", "md"} :
           /\ FoundAt(W, seeds, n, ext, k)
           /\ raw = dirs[seeds[k].path].flows[<<n, ext>>]
           /\ ext = "md" => \A j \in DOMAIN seeds : ~HasFlow(W, seeds, j, n, "yaml")
    BY Zenon, <1>1 DEF NamedIn
  <1>3. /\ \A f \in DOMAIN W.near : W.near[f].text \in Texts
        /\ \A p \in DOMAIN dirs :
              /\ DOMAIN dirs[p].flows \subseteq STRING \X {"yaml", "yml", "md"}
              /\ \A f \in DOMAIN dirs[p].flows : dirs[p].flows[f].ext = f[2]
              /\ <<"flows", n>> \notin dirs[p].hidden
              /\ \A f \in DOMAIN dirs[p].flows : /\ f[1] = n <=> dirs[p].flows[f].name = n
                                                 /\ f[1] = n => f[2] # "yml"
    BY WorldIs DEF SetupInv, IsWorld, NamedForTheirFlow
  <1>4. /\ seeds[k].kind = "local" /\ seeds[k].path \in DOMAIN dirs
        /\ <<n, ext>> \in DOMAIN dirs[seeds[k].path].flows
        /\ \A j \in 1 .. k - 1 : ~HasFlow(W, seeds, j, n, ext)
    BY Zenon, <1>2 DEF FoundAt, HasFlow
  <1>5. raw.ext = ext /\ raw.name = n
    <2> DEFINE f == <<n, ext>>
    <2>1. f[1] = n /\ f[2] = ext
      OBVIOUS
    <2> HIDE DEF f, dirs, seeds, raw
    <2>2. f \in DOMAIN dirs[seeds[k].path].flows /\ raw = dirs[seeds[k].path].flows[f]
      BY <1>2, <1>4 DEF f
    <2> QED BY <1>3, <1>4, <2>1, <2>2
  <1>6. IsSeeds(seeds) /\ DOMAIN seeds \subseteq Nat /\ k \in Nat
        /\ \A j \in DOMAIN seeds : j >= 1
    <2>1. IsSeeds(seeds)
      BY <1>1 DEF IsConfig
    <2>2. k \in DOMAIN seeds
      OBVIOUS
    <2> HIDE DEF cfg, seeds, dirs, project, walked, context, n, won, raw, staffing, Above, Same
    <2> QED BY ONLY <2>1, <2>2 DEF IsSeeds
  <1>7. /\ DOMAIN walked = DOMAIN seeds
        /\ context.seeds = walked /\ context.flows = EffectiveFor(walked, "flows")
        /\ \A i \in DOMAIN seeds : walked[i] = SeedContribution(seeds[i], dirs, project)
    BY ContextIs
  <1> DEFINE Lists(i) == n \in NamesOf(walked[i], "flows")
  <1> HIDE DEF walked, context, dirs, project, n, raw, seeds
  <1>8. \A i \in DOMAIN seeds : Lists(i) <=> \E e \in walked[i].flows : e.name = n
    BY KindsAre
  <1>9. ASSUME NEW i \in DOMAIN seeds
        PROVE  /\ seeds[i].kind = "local" /\ seeds[i].path \in DOMAIN dirs =>
                     walked[i].flows = FlowsIn(dirs[seeds[i].path], project)
               /\ ~(seeds[i].kind = "local" /\ seeds[i].path \in DOMAIN dirs) =>
                     walked[i].flows = {}
               /\ walked[i].display = seeds[i].path
    BY <1>7, ShowsIs
  <1>10. ASSUME NEW i \in DOMAIN seeds, Lists(i)
         PROVE  HasFlow(W, seeds, i, n, "yaml") \/ HasFlow(W, seeds, i, n, "md")
    <2>1. PICK e \in walked[i].flows : e.name = n
      BY <1>8, <1>10
    <2>2. /\ seeds[i].path \in DOMAIN dirs /\ e \in FlowsIn(dirs[seeds[i].path], project)
      BY <1>9, <2>1
    <2> DEFINE dir == dirs[seeds[i].path]
    <2>3. /\ <<"flows", n>> \notin dir.hidden
          /\ DOMAIN dir.flows \subseteq STRING \X {"yaml", "yml", "md"}
          /\ \A f \in DOMAIN dir.flows : /\ f[1] = n <=> dir.flows[f].name = n
                                         /\ f[1] = n => f[2] # "yml"
      BY <1>3, <2>2
    <2>4. dir = dirs[seeds[i].path]
      OBVIOUS
    <2> HIDE DEF dir
    <2>5. <<n, "yaml">> \in DOMAIN dir.flows \/ <<n, "md">> \in DOMAIN dir.flows
      BY <2>1, <2>2, <2>3, <2>4, FlowsInAre
    <2> QED BY <2>2, <2>4, <2>5 DEF HasFlow, dirs
  <1>11. Entry(raw, project) \in walked[k].flows /\ Lists(k)
    <2> DEFINE dir == dirs[seeds[k].path]
    <2>1. /\ <<"flows", n>> \notin dir.hidden
          /\ DOMAIN dir.flows \subseteq STRING \X {"yaml", "yml", "md"}
          /\ \A f \in DOMAIN dir.flows : /\ f[1] = n <=> dir.flows[f].name = n
                                         /\ f[1] = n => f[2] # "yml"
          /\ <<n, ext>> \in DOMAIN dir.flows
      BY <1>3, <1>4
    <2>2. ext = "md" => <<n, "yaml">> \notin DOMAIN dir.flows
      BY <1>2, <1>4 DEF HasFlow, dirs
    <2>3. dir = dirs[seeds[k].path] /\ raw = dir.flows[<<n, ext>>]
      BY <1>2
    <2> HIDE DEF dir
    <2>4. FlowEntries(dir.flows[<<n, ext>>], project) \subseteq FlowsIn(dir, project)
      BY <2>1, <2>2, FlowsInAre
    <2>5. FlowEntries(raw, project) = {Entry(raw, project)}
      BY <1>1, <1>3, EntriesAre
    <2>6. Entry(raw, project) \in FlowsIn(dir, project)
      BY <2>3, <2>4, <2>5
    <2>7. Entry(raw, project).name = n
      BY <1>5 DEF Entry
    <2> QED BY <1>4, <1>8, <1>9, <2>3, <2>6, <2>7
  <1>12. PICK w \in DOMAIN seeds : Lists(w) /\ \A j \in DOMAIN seeds : Lists(j) => w <= j
    <2> DEFINE T == {i \in DOMAIN seeds : Lists(i)}
    <2>1. T \subseteq Nat /\ k \in T
      BY <1>6, <1>11
    <2> HIDE DEF T, Lists
    <2>2. \E w \in T : \A j \in T : w <= j
      BY <2>1, Least
    <2> QED BY <2>2 DEF T
  <1>13. won = dirs[seeds[w].path].flows
    <2>1. \A j \in DOMAIN walked : j < w => ~Lists(j)
      BY <1>6, <1>7, <1>12
    <2>2. EffectiveFor(walked, "flows")[n].seed = walked[w].display
      BY <1>6, <1>7, <1>12, <2>1, EffectiveIs
    <2> QED BY <1>7, <1>9, <2>2
  <1> HIDE DEF won
  <1>14. CASE w = k
    <2>1. <<n, raw.ext>> \in DOMAIN won /\ raw = won[<<n, raw.ext>>]
      BY <1>2, <1>4, <1>5, <1>13, <1>14
    <2> DEFINE f == Entry(raw, project)
    <2>2. f.name = n /\ f.steps = D!Ids(raw.steps) /\ f.unresolved = UnboundRoles(raw, project)
      BY <1>5 DEF Entry
    <2> HIDE DEF f
    <2>3. f \in ListFlows(context)
      <3>1. \A j \in 1 .. k - 1 : f.name \notin NamesOf(walked[j], "flows")
        <4> SUFFICES ASSUME NEW j \in 1 .. k - 1 PROVE ~Lists(j)
          BY <2>2
        <4>1. j \in DOMAIN seeds /\ j < k
          BY <1>2, <1>6 DEF IsSeeds
        <4> QED BY <1>6, <1>12, <1>14, <4>1
      <3>2. f \in walked[k].flows /\ k \in DOMAIN walked
        BY <1>7, <1>11 DEF f
      <3> QED BY <1>7, <3>1, <3>2 DEF ListFlows
    <2>4. ASSUME NEW r \in f.unresolved \cap staffing PROVE AgentGiven(W.overrides, r) # None
      <3>1. r \in UnboundRoles(raw, project)
        BY <2>2, <2>4
      <3>2. r \notin DOMAIN project
        BY <3>1, UnboundAre
      <3>3. raw.shape = "graph" /\ Employed(W, cfg, raw)
        BY <1>1, <1>3, <3>1, EntriesAre
      <3>4. PICK i \in DOMAIN raw.steps : Staffed(raw.steps[i]) /\ r = raw.steps[i].role
        BY <2>4
      <3>5. DOMAIN project = DOMAIN cfg.roles
        BY DEF project, RoleAgentMap
      <3> QED BY <3>2, <3>3, <3>4, <3>5 DEF Employed
    <2>5. Same
      BY <2>1, <2>2, <2>3, <2>4
    <2> QED BY <2>5
  <1>15. CASE w # k
    <2>1. w \in 1 .. k - 1
      <3>1. w <= k
        BY <1>11, <1>12
      <3> QED BY <1>6, <1>12, <1>15, <3>1
    <2>2. ~HasFlow(W, seeds, w, n, ext)
      BY <1>4, <2>1
    <2>3. HasFlow(W, seeds, w, n, "yaml") \/ HasFlow(W, seeds, w, n, "md")
      BY <1>10, <1>12
    <2>4. ext = "yaml" /\ HasFlow(W, seeds, w, n, "md") /\ ~HasFlow(W, seeds, w, n, "yaml")
      BY <1>2, <1>12, <2>2, <2>3
    <2>5. /\ seeds[w].path \in DOMAIN dirs /\ <<n, "md">> \in DOMAIN won
          /\ <<n, "yaml">> \notin DOMAIN won
      BY <1>13, <2>4 DEF HasFlow, dirs
    <2>6. <<n, "yml">> \notin DOMAIN won
      <3> DEFINE f == <<n, "yml">>
      <3>1. f[1] = n /\ f[2] = "yml"
        OBVIOUS
      <3> HIDE DEF f
      <3>2. f \notin DOMAIN won
        BY <1>3, <1>13, <2>5, <3>1
      <3> QED BY <3>2 DEF f
    <2>7. \A p : p \in {n} \X {"yaml", "yml", "md"} <=>
                    p = <<n, "yaml">> \/ p = <<n, "yml">> \/ p = <<n, "md">>
      OBVIOUS
    <2>8. \A p : p \in DOMAIN won \cap ({n} \X {"yaml", "yml", "md"}) <=> p = <<n, "md">>
      BY <2>5, <2>6, <2>7
    <2>9. DOMAIN won \cap ({n} \X {"yaml", "yml", "md"}) = {<<n, "md">>}
      BY <2>8
    <2>10. Above
      BY <1>5, <2>4, <2>9
    <2> QED BY <2>10
  <1> QED BY <1>14, <1>15

(* A flow run by its name, where the files are named for the flows they     *)
(* hold, is listed by that name, from the seed that wins, with its steps,   *)
(* and each role listed as bound nowhere is bound on the command line or is *)
(* the role of a human state; or else a Markdown file stood above the YAML  *)
(* file that ran (runner/mod.rs resolve_flow_path, context.rs               *)
(* enumerate_flows_in_seed).                                                *)
THEOREM NamingHolds == Spec => []NamedIsListed
  BY SetupInvariant, NamedIsListedHolds, PTL

(* The listings tell what runs: both together (context.rs resolve,          *)
(* mcp/discovery.rs do_list_agents, do_list_flows).                         *)
THEOREM ListingHolds == Spec => []ListedIsLoaded
  BY PartsAreListed, NamingHolds, PTL DEF ListedIsLoaded

=============================================================================
