-------------------------- MODULE Transcript_proofs --------------------------
(***************************************************************************)
(* Lemmas about the operators of Transcript, and those that TurnLoop builds*)
(* of them, for any thresholds, sizes and histories: what a compaction, a  *)
(* pruning, a copy and a repair leave of a history, and that in a request  *)
(* made of a well-formed history each call stands with its answers.        *)
(***************************************************************************)
EXTENDS TurnLoop, SequenceTheorems, FiniteSetTheorems, WellFoundedInduction, TLAPS

-----------------------------------------------------------------------------
(* Numbers, and sets of them in order.                                      *)

\* A set of numbers has a least one: what induction over the numbers rests on.
LEMMA Least ==
  ASSUME NEW T \in SUBSET Nat, T # {}
  PROVE  \E n \in T : \A m \in Nat : m < n => m \notin T
<1> DEFINE Less == OpToRel(<, Nat)
<1>1. IsWellFoundedOn(Less, Nat)
  BY NatLessThanWellFounded DEF Less
<1>2. PICK n \in T : \A m \in T : <<m, n>> \notin Less
  <2> HIDE DEF Less
  <2> QED BY <1>1, WFMin
<1> QED BY <1>2 DEF OpToRel

\* A set of numbers up to N has a greatest one, and Max is it.
LEMMA Greatest ==
  ASSUME NEW N \in Nat, NEW S \in SUBSET (1..N), S # {}
  PROVE  Max(S) \in S /\ \A x \in S : x <= Max(S)
<1> DEFINE T == {n \in Nat : \A x \in S : x <= n}
<1>1. N \in T
  OBVIOUS
<1>2. PICK n \in T : \A m \in Nat : m < n => m \notin T
  <2> HIDE DEF T
  <2>1. T \in SUBSET Nat /\ T # {}
    BY <1>1 DEF T
  <2> QED BY <2>1, Least
<1>3. n \in S
  <2>1. n \in Nat /\ n # 0
    <3>1. PICK x \in S : TRUE
      OBVIOUS
    <3> QED BY <3>1
  <2>2. n - 1 \in Nat /\ n - 1 < n
    BY <2>1
  <2>3. PICK x \in S : ~(x <= n - 1)
    BY <1>2, <2>2
  <2> QED BY <2>3, <2>1
<1>4. \E x \in S : \A y \in S : x >= y
  BY <1>3
<1>5. Max(S) \in S /\ \A y \in S : Max(S) >= y
  BY <1>4 DEF Max
<1> QED BY <1>5

\* Latest is the greatest number of a set, or 0.
LEMMA LatestIs ==
  ASSUME NEW N \in Nat, NEW S \in SUBSET (1..N)
  PROVE  /\ Latest(S) \in 0..N
         /\ S = {} <=> Latest(S) = 0
         /\ S # {} => Latest(S) \in S
         /\ \A x \in S : x <= Latest(S)
<1>1. CASE S = {}
  BY <1>1 DEF Latest
<1>2. CASE S # {}
  <2>1. Latest(S) = Max(S)
    BY <1>2 DEF Latest
  <2>2. Max(S) \in S /\ \A x \in S : x <= Max(S)
    BY <1>2, Greatest
  <2>3. Latest(S) \in 1..N
    BY <2>1, <2>2
  <2> QED BY <1>2, <2>1, <2>2, <2>3
<1> QED BY <1>1, <1>2

\* A set of numbers has a least one, and Min is it.
LEMMA Lowest ==
  ASSUME NEW S \in SUBSET Nat, S # {}
  PROVE  Min(S) \in S /\ \A x \in S : Min(S) <= x
<1>1. \E x \in S : \A y \in S : x <= y
  BY Least
<1> QED BY <1>1 DEF Min

UpTo(S, w, n) ==
  /\ w \in Seq(S \cap (1..n))
  /\ S \cap (1..n) = {w[k] : k \in DOMAIN w}
  /\ \A i, j \in DOMAIN w : i < j => w[i] < w[j]

OrderedStep(S, upto, i) ==
  IF i = 0 THEN <<>> ELSE IF i \in S THEN Append(upto[i - 1], i) ELSE upto[i - 1]

OrderedBy(S, N, f) ==
  f = [i \in 0..N |-> IF i = 0 THEN <<>>
                      ELSE IF i \in S THEN Append(f[i - 1], i) ELSE f[i - 1]]

\* The recursion of Ordered has a solution.
LEMMA OrderedExists == ASSUME NEW S, NEW N \in Nat PROVE \E f : OrderedBy(S, N, f)
<1> DEFINE Bad == {n \in Nat : ~\E f : f = [i \in 0..n |-> OrderedStep(S, f, i)]}
<1>1. ASSUME Bad # {} PROVE FALSE
  <2>1. PICK n \in Bad : \A m \in Nat : m < n => m \notin Bad
    <3> HIDE DEF Bad
    <3>1. Bad \in SUBSET Nat
      BY DEF Bad
    <3> QED BY <1>1, <3>1, Least
  <2>2. CASE n = 0
    <3> DEFINE f == [i \in 0..0 |-> <<>>]
    <3>1. f = [i \in 0..n |-> OrderedStep(S, f, i)]
      BY <2>2 DEF OrderedStep
    <3> QED BY <3>1
  <2>3. CASE n # 0
    <3>1. n - 1 \in Nat /\ n - 1 < n
      BY <2>3
    <3>2. PICK g : g = [i \in 0..(n - 1) |-> OrderedStep(S, g, i)]
      BY <2>1, <3>1
    <3> DEFINE f == [i \in 0..n |-> IF i = n THEN OrderedStep(S, g, n) ELSE g[i]]
    <3>3. \A i \in 0..n : f[i] = OrderedStep(S, f, i)
      <4> TAKE i \in 0..n
      <4>1. CASE i = n
        BY <4>1, <3>1 DEF OrderedStep
      <4>2. CASE i # n
        <5>1. i \in 0..(n - 1)
          BY <4>2
        <5>2. g[i] = OrderedStep(S, g, i)
          BY <3>2, <5>1
        <5>3. i # 0 => f[i - 1] = g[i - 1]
          BY <5>1
        <5> QED BY <5>1, <5>2, <5>3, <4>2 DEF OrderedStep
      <4> QED BY <4>1, <4>2
    <3>4. f = [i \in 0..n |-> OrderedStep(S, f, i)]
      BY <3>3
    <3> QED BY <3>4
  <2> QED BY <2>2, <2>3
<1>2. N \notin Bad
  BY <1>1
<1>3. PICK f : f = [i \in 0..N |-> OrderedStep(S, f, i)]
  BY <1>2
<1> QED BY <1>3 DEF OrderedStep, OrderedBy

\* Ordered(S) is the last value of a function that satisfies its recursive equation.
LEMMA OrderedUnfolds ==
  ASSUME NEW S, Latest(S) \in Nat
  PROVE  \E f : /\ \A i \in 0..Latest(S) : f[i] = OrderedStep(S, f, i)
                /\ Ordered(S) = f[Latest(S)]
<1> DEFINE g == CHOOSE f : OrderedBy(S, Latest(S), f)
<1>1. Ordered(S) = g[Latest(S)]
  BY DEF Ordered, OrderedBy
<1>2. OrderedBy(S, Latest(S), g)
  BY OrderedExists
<1>3. g = [i \in 0..Latest(S) |-> IF i = 0 THEN <<>>
                      ELSE IF i \in S THEN Append(g[i - 1], i) ELSE g[i - 1]]
  BY <1>2 DEF OrderedBy
<1> HIDE DEF g
<1>4. \A i \in 0..Latest(S) : g[i] = OrderedStep(S, g, i)
  BY <1>3 DEF OrderedStep
<1> HIDE DEF g
<1> QED BY <1>1, <1>4

\* w lists the members of S in order.
Lists(w, S) ==
  /\ w \in Seq(S)
  /\ \A x \in S : \E k \in DOMAIN w : w[k] = x
  /\ \A i, j \in DOMAIN w : i < j => w[i] < w[j]

\* Ordered(S) lists S: in order, each of its numbers once.
LEMMA OrderedIs ==
  ASSUME NEW N \in Nat, NEW S \in SUBSET (1..N)
  PROVE  Lists(Ordered(S), S)
<1>1. /\ Latest(S) \in 0..N
      /\ \A x \in S : x \in 1..Latest(S)
  BY LatestIs
<1>2. PICK f : /\ \A i \in 0..Latest(S) : f[i] = OrderedStep(S, f, i)
               /\ Ordered(S) = f[Latest(S)]
  BY <1>1, OrderedUnfolds
<1> DEFINE Good(i) == Lists(f[i], S \cap (1..i))
           Bad == {i \in 0..Latest(S) : ~Good(i)}
<1>3. ASSUME Bad # {} PROVE FALSE
  <2>1. PICK n \in Bad : \A m \in Nat : m < n => m \notin Bad
    <3> HIDE DEF Bad
    <3>1. Bad \in SUBSET Nat
      BY <1>1 DEF Bad
    <3> QED BY <1>3, <3>1, Least
  <2>2. n \in 0..Latest(S) /\ f[n] = OrderedStep(S, f, n)
    BY <1>2
  <2>3. CASE n = 0
    <3>1. f[n] = <<>> /\ S \cap (1..n) = {}
      BY <2>2, <2>3 DEF OrderedStep
    <3>2. Good(n)
      BY <3>1 DEF Lists
    <3> QED BY <3>2
  <2>4. CASE n # 0
    <3>1. n - 1 \in 0..Latest(S) /\ n - 1 < n
      BY <2>2, <2>4, <1>1
    <3>2. Lists(f[n - 1], S \cap (1..(n - 1)))
      BY <2>1, <3>1
    <3> DEFINE w == f[n - 1]
               B == S \cap (1..(n - 1))
    <3>3. ASSUME n \notin S PROVE Good(n)
      <4>1. f[n] = w
        BY <2>2, <2>4, <3>3 DEF OrderedStep
      <4>2. S \cap (1..n) = B
        BY <3>3, <3>1
      <4> QED BY <4>1, <4>2, <3>2
    <3>4. ASSUME n \in S PROVE Good(n)
      <4>1. f[n] = Append(w, n)
        BY <2>2, <2>4, <3>4 DEF OrderedStep
      <4>2. S \cap (1..n) = B \cup {n}
        BY <3>4, <3>1, <2>2
      <4>3. w \in Seq(B) /\ w \in Seq(B \cup {n})
        BY <3>2 DEF Lists
      <4>4. /\ Append(w, n) \in Seq(B \cup {n}) /\ Len(Append(w, n)) = Len(w) + 1
            /\ DOMAIN Append(w, n) = 1..(Len(w) + 1)
            /\ \A k \in DOMAIN w : Append(w, n)[k] = w[k]
            /\ Append(w, n)[Len(w) + 1] = n /\ DOMAIN w = 1..Len(w) /\ Len(w) \in Nat
        BY <4>3
      <4> HIDE DEF w
      <4>5. \A x \in B \cup {n} : \E k \in DOMAIN Append(w, n) : Append(w, n)[k] = x
        <5> TAKE x \in B \cup {n}
        <5>1. CASE x = n
          BY <5>1, <4>4
        <5>2. CASE x \in B
          <6>1. PICK k \in DOMAIN w : w[k] = x
            BY <5>2, <3>2 DEF Lists, w
          <6> QED BY <6>1, <4>4
        <5> QED BY <5>1, <5>2
      <4>6. \A k \in DOMAIN w : w[k] < n
        BY <4>3, <3>1
      <4>7. \A i, j \in DOMAIN Append(w, n) : i < j => Append(w, n)[i] < Append(w, n)[j]
        <5> TAKE i, j \in DOMAIN Append(w, n)
        <5>1. CASE j \in DOMAIN w
          BY <5>1, <4>4, <3>2 DEF Lists, w
        <5>2. CASE j \notin DOMAIN w
          BY <5>2, <4>4, <4>6
        <5> QED BY <5>1, <5>2
      <4>8. Lists(Append(w, n), B \cup {n})
        BY <4>4, <4>5, <4>7 DEF Lists
      <4> QED BY <4>1, <4>2, <4>8
    <3> QED BY <3>3, <3>4
  <2> QED BY <2>3, <2>4
<1>4. Good(Latest(S))
  <2>1. Latest(S) \in 0..Latest(S)
    BY <1>1
  <2> HIDE DEF Good
  <2> QED BY <2>1, <1>3
<1>5. S \cap (1..Latest(S)) = S
  BY <1>1
<1> QED BY <1>2, <1>4, <1>5

\* The elements of h at the places in S.
LEMMA AtIs ==
  ASSUME NEW M, NEW h \in Seq(M), NEW S \in SUBSET DOMAIN h
  PROVE  LET w == Ordered(S) IN
         /\ Lists(w, S) /\ Len(w) \in Nat /\ DOMAIN w = 1..Len(w)
         /\ At(h, S) \in Seq(M) /\ Len(At(h, S)) = Len(w)
         /\ \A k \in 1..Len(w) : w[k] \in DOMAIN h /\ At(h, S)[k] = h[w[k]]
<1> DEFINE w == Ordered(S)
<1>1. Len(h) \in Nat /\ S \in SUBSET (1..Len(h))
  OBVIOUS
<1>2. Lists(w, S)
  BY <1>1, OrderedIs
<1>3. w \in Seq(S) /\ Len(w) \in Nat /\ DOMAIN w = 1..Len(w)
  BY <1>2 DEF Lists
<1>4. At(h, S) = [k \in 1..Len(w) |-> h[w[k]]]
  BY <1>3 DEF At
<1> HIDE DEF w
<1>5. \A k \in 1..Len(w) : w[k] \in DOMAIN h /\ h[w[k]] \in M
  BY <1>3
<1>6. At(h, S) \in Seq(M) /\ Len(At(h, S)) = Len(w)
  BY <1>3, <1>4, <1>5
<1>7. /\ Lists(w, S) /\ Len(w) \in Nat /\ DOMAIN w = 1..Len(w)
      /\ At(h, S) \in Seq(M) /\ Len(At(h, S)) = Len(w)
      /\ \A k \in 1..Len(w) : w[k] \in DOMAIN h /\ At(h, S)[k] = h[w[k]]
  BY <1>2, <1>3, <1>4, <1>5, <1>6
<1> QED BY <1>7 DEF w

\* What is next to each other in h and in S is next to each other in the list.
LEMMA Neighbours ==
  ASSUME NEW S \in SUBSET Nat, NEW w, Lists(w, S), NEW k \in DOMAIN w, w[k] - 1 \in S
  PROVE  k > 1 /\ k - 1 \in DOMAIN w /\ w[k - 1] = w[k] - 1
<1>1. w \in Seq(S) /\ Len(w) \in Nat /\ DOMAIN w = 1..Len(w)
  BY DEF Lists
<1>2. PICK j \in DOMAIN w : w[j] = w[k] - 1
  BY DEF Lists
<1>3. w[k] \in S /\ w[j] \in S /\ w[k] \in Nat /\ w[j] \in Nat
  BY <1>1, ElementOfSeq
<1>4. j < k
  <2>1. ASSUME k < j PROVE FALSE
    BY <2>1, <1>2, <1>3 DEF Lists
  <2> QED BY <2>1, <1>1, <1>2, <1>3
<1>5. j = k - 1
  <2>1. ASSUME j < k - 1 PROVE FALSE
    <3>1. k - 1 \in DOMAIN w
      BY <2>1, <1>1
    <3>2. w[j] < w[k - 1]
      BY <2>1, <3>1, <1>1 DEF Lists
    <3>3. w[k - 1] < w[k]
      BY <3>1, <1>1 DEF Lists
    <3>4. w[k - 1] \in S /\ w[k - 1] \in Nat
      BY <3>1, <1>1, ElementOfSeq
    <3> QED BY <3>2, <3>3, <3>4, <1>2, <1>3
  <2> QED BY <2>1, <1>4, <1>1
<1> QED BY <1>1, <1>2, <1>5

-----------------------------------------------------------------------------
(* Sequences of sequences, one behind the other.                            *)

JoinedBy(F, f) == f = [i \in 1..Len(F) |-> IF i = 1 THEN F[i] ELSE f[i - 1] \o F[i]]

JoinStep(F, f, i) == IF i = 1 THEN F[i] ELSE f[i - 1] \o F[i]

\* The recursion of FlattenSeq has a solution.
LEMMA JoinedExists == ASSUME NEW F, Len(F) \in Nat PROVE \E f : JoinedBy(F, f)
<1> DEFINE Bad == {n \in Nat : ~\E f : f = [i \in 1..n |-> JoinStep(F, f, i)]}
<1>1. ASSUME Bad # {} PROVE FALSE
  <2>1. PICK n \in Bad : \A m \in Nat : m < n => m \notin Bad
    <3> HIDE DEF Bad
    <3>1. Bad \in SUBSET Nat
      BY DEF Bad
    <3> QED BY <1>1, <3>1, Least
  <2>2. CASE n = 0
    <3> DEFINE f == [i \in 1..n |-> <<>>]
    <3>1. f = [i \in 1..n |-> JoinStep(F, f, i)]
      BY <2>2
    <3> QED BY <3>1
  <2>3. CASE n # 0
    <3>1. n - 1 \in Nat /\ n - 1 < n
      BY <2>3
    <3>2. PICK g : g = [i \in 1..(n - 1) |-> JoinStep(F, g, i)]
      BY <2>1, <3>1
    <3> DEFINE f == [i \in 1..n |-> IF i = n THEN JoinStep(F, g, n) ELSE g[i]]
    <3>3. \A i \in 1..n : f[i] = JoinStep(F, f, i)
      <4> TAKE i \in 1..n
      <4>1. CASE i = n
        BY <4>1, <3>1 DEF JoinStep
      <4>2. CASE i # n
        <5>1. i \in 1..(n - 1)
          BY <4>2
        <5>2. g[i] = JoinStep(F, g, i)
          BY <3>2, <5>1
        <5>3. i # 1 => f[i - 1] = g[i - 1]
          BY <5>1
        <5> QED BY <5>1, <5>2, <5>3, <4>2 DEF JoinStep
      <4> QED BY <4>1, <4>2
    <3>4. f = [i \in 1..n |-> JoinStep(F, f, i)]
      BY <3>3
    <3> QED BY <3>4
  <2> QED BY <2>2, <2>3
<1>2. Len(F) \notin Bad
  BY <1>1
<1>3. PICK f : f = [i \in 1..Len(F) |-> JoinStep(F, f, i)]
  BY <1>2
<1> QED BY <1>3 DEF JoinStep, JoinedBy

\* So is FlattenSeq(F).
LEMMA FlattenUnfolds ==
  ASSUME NEW F, Len(F) \in Nat \ {0}
  PROVE  \E f : /\ \A i \in 1..Len(F) : f[i] = JoinStep(F, f, i)
                /\ FlattenSeq(F) = f[Len(F)]
<1> DEFINE g == CHOOSE f : JoinedBy(F, f)
<1>1. FlattenSeq(F) = g[Len(F)]
  BY DEF FlattenSeq, JoinedBy
<1>2. JoinedBy(F, g)
  BY JoinedExists
<1>3. g = [i \in 1..Len(F) |-> IF i = 1 THEN F[i] ELSE g[i - 1] \o F[i]]
  BY <1>2 DEF JoinedBy
<1> HIDE DEF g
<1>4. \A i \in 1..Len(F) : g[i] = JoinStep(F, g, i)
  BY <1>3 DEF JoinStep
<1> QED BY <1>1, <1>4

\* off tells behind which place of r each of the first n parts of F stands.
Spread(F, n, r, off) ==
  /\ \A i \in 1..(n + 1) : off[i] \in 0..Len(r)
  /\ off[1] = 0 /\ off[n + 1] = Len(r)
  /\ \A i \in 1..n : off[i + 1] = off[i] + Len(F[i])
  /\ \A i \in 1..n : \A b \in 1..Len(F[i]) : r[off[i] + b] = F[i][b]
  /\ \A p \in 1..Len(r) : \E i \in 1..n : \E b \in 1..Len(F[i]) : p = off[i] + b

\* One more sequence behind those that are spread over r.
LEMMA SpreadGrows ==
  ASSUME NEW M, NEW F, NEW n \in Nat, NEW r \in Seq(M), F[n + 1] \in Seq(M),
         \A i \in 1..n : F[i] \in Seq(M),
         NEW off, Spread(F, n, r, off)
  PROVE  \E o : Spread(F, n + 1, r \o F[n + 1], o)
<1> DEFINE g == F[n + 1]
           t == r \o g
           o == [i \in 1..(n + 2) |-> IF i = n + 2 THEN Len(r) + Len(g) ELSE off[i]]
<1>1. /\ t \in Seq(M) /\ Len(t) = Len(r) + Len(g) /\ Len(r) \in Nat /\ Len(g) \in Nat
      /\ \A p \in 1..Len(r) : t[p] = r[p]
      /\ \A b \in 1..Len(g) : t[Len(r) + b] = g[b]
  <2>1. g \in Seq(M)
    OBVIOUS
  <2> HIDE DEF g
  <2> QED BY <2>1
<1>2. /\ \A i \in 1..(n + 1) : o[i] = off[i]
      /\ o[n + 2] = Len(t)
  BY <1>1
<1>3. off[n + 1] = Len(r) /\ off[1] = 0 /\ \A i \in 1..(n + 1) : off[i] \in 0..Len(r)
  BY DEF Spread
<1>8. \A i \in 1..n : off[i + 1] = off[i] + Len(F[i]) /\ Len(F[i]) \in Nat
  BY DEF Spread
<1>9. \A i \in 1..n : \A b \in 1..Len(F[i]) : r[off[i] + b] = F[i][b]
  BY DEF Spread
<1>a. \A p \in 1..Len(r) : \E i \in 1..n : \E b \in 1..Len(F[i]) : p = off[i] + b
  BY DEF Spread
<1>b. F[n + 1] = g
  OBVIOUS
<1> HIDE DEF o, t, g
<1>4. \A i \in 1..(n + 2) : o[i] \in 0..Len(t)
  <2> TAKE i \in 1..(n + 2)
  <2>1. CASE i = n + 2
    BY <2>1, <1>1, <1>2
  <2>2. CASE i # n + 2
    <3>1. i \in 1..(n + 1)
      BY <2>2
    <3>2. o[i] = off[i] /\ off[i] \in 0..Len(r)
      BY <3>1, <1>2, <1>3
    <3> QED BY <3>2, <1>1
  <2> QED BY <2>1, <2>2
<1>5. \A i \in 1..(n + 1) : o[i + 1] = o[i] + Len(F[i])
  <2> TAKE i \in 1..(n + 1)
  <2>1. CASE i = n + 1
    <3>1. i + 1 = n + 2 /\ n + 1 \in 1..(n + 1)
      BY <2>1
    <3>2. o[n + 2] = Len(r) + Len(g) /\ o[n + 1] = Len(r)
      BY <3>1, <1>1, <1>2, <1>3
    <3> QED BY <2>1, <3>1, <3>2, <1>b
  <2>2. CASE i # n + 1
    <3>1. i \in 1..n /\ i + 1 \in 1..(n + 1) /\ i \in 1..(n + 1)
      BY <2>2
    <3> QED BY <3>1, <1>2, <1>8
  <2> QED BY <2>1, <2>2
<1>6. \A i \in 1..(n + 1) : \A b \in 1..Len(F[i]) : t[o[i] + b] = F[i][b]
  <2> TAKE i \in 1..(n + 1)
  <2> TAKE b \in 1..Len(F[i])
  <2>1. CASE i = n + 1
    <3>1. o[n + 1] = Len(r) /\ n + 1 \in 1..(n + 1)
      BY <1>2, <1>3
    <3>2. b \in 1..Len(g)
      BY <2>1, <1>b
    <3> QED BY <2>1, <3>1, <3>2, <1>1, <1>b
  <2>2. CASE i # n + 1
    <3>1. i \in 1..n /\ i + 1 \in 1..(n + 1) /\ i \in 1..(n + 1)
      BY <2>2
    <3>2. off[i + 1] = off[i] + Len(F[i]) /\ off[i + 1] \in 0..Len(r) /\ off[i] \in 0..Len(r)
          /\ Len(F[i]) \in Nat
      BY <3>1, <1>3, <1>8
    <3>3. off[i] + b \in 1..Len(r)
      <4>1. b \in Nat /\ b >= 1 /\ b <= Len(F[i]) /\ off[i] \in Nat /\ Len(r) \in Nat
        BY <3>2, <1>1
      <4>2. off[i] + Len(F[i]) <= Len(r)
        BY <3>2, <1>1
      <4> DEFINE x == off[i]
                 y == Len(F[i])
                 z == Len(r)
      <4>3. x \in Nat /\ y \in Nat /\ z \in Nat /\ b \in Nat /\ b >= 1 /\ b <= y /\ x + y <= z
        BY <3>2, <4>1, <4>2
      <4> HIDE DEF x, y, z
      <4>4. x + b \in 1..z
        BY <4>3
      <4> QED BY <4>4 DEF x, z
    <3> QED BY <3>1, <3>3, <1>1, <1>2, <1>9
  <2> QED BY <2>1, <2>2
<1>7. \A p \in 1..Len(t) : \E i \in 1..(n + 1) : \E b \in 1..Len(F[i]) : p = o[i] + b
  <2> TAKE p \in 1..Len(t)
  <2>1. CASE p <= Len(r)
    <3>0. p \in 1..Len(r)
      BY <2>1, <1>1
    <3>1. PICK i \in 1..n : \E b \in 1..Len(F[i]) : p = off[i] + b
      BY <3>0, <1>a
    <3>2. i \in 1..(n + 1) /\ o[i] = off[i]
      BY <1>2
    <3> QED BY <3>1, <3>2
  <2>2. CASE ~(p <= Len(r))
    <3>1. p - Len(r) \in 1..Len(g) /\ p = Len(r) + (p - Len(r))
      BY <2>2, <1>1
    <3>2. n + 1 \in 1..(n + 1) /\ o[n + 1] = Len(r)
      BY <1>2, <1>3
    <3> QED BY <3>1, <3>2, <1>b
  <2> QED BY <2>1, <2>2
<1>c. o[1] = 0 /\ o[n + 2] = Len(t) /\ (n + 1) + 1 = n + 2
  BY <1>2, <1>3
<1>d. Spread(F, n + 1, t, o)
  BY <1>4, <1>5, <1>6, <1>7, <1>c DEF Spread
<1> QED BY <1>d DEF t, g

\* FlattenSeq(F) holds the sequences of F one behind the other.
LEMMA FlattenIs ==
  ASSUME NEW M, NEW F \in Seq(Seq(M))
  PROVE  FlattenSeq(F) \in Seq(M) /\ \E off : Spread(F, Len(F), FlattenSeq(F), off)
<1>1. CASE Len(F) = 0
  <2>1. FlattenSeq(F) = <<>> /\ F = <<>>
    BY <1>1 DEF FlattenSeq
  <2> DEFINE off == [i \in 1..1 |-> 0]
  <2>2. Spread(F, Len(F), FlattenSeq(F), off)
    BY <1>1, <2>1 DEF Spread
  <2> QED BY <2>1, <2>2
<1>2. CASE Len(F) # 0
  <2>1. Len(F) \in Nat \ {0} /\ \A i \in 1..Len(F) : F[i] \in Seq(M)
    BY <1>2
  <2>2. PICK f : /\ \A i \in 1..Len(F) : f[i] = JoinStep(F, f, i)
                 /\ FlattenSeq(F) = f[Len(F)]
    BY <2>1, FlattenUnfolds
  <2> DEFINE Good(i) == f[i] \in Seq(M) /\ \E off : Spread(F, i, f[i], off)
             Bad == {n \in 1..Len(F) : ~Good(n)}
  <2>3. ASSUME Bad # {} PROVE FALSE
    <3>1. PICK n \in Bad : \A m \in Nat : m < n => m \notin Bad
      <4> HIDE DEF Bad
      <4>1. Bad \in SUBSET Nat
        BY <2>1 DEF Bad
      <4> QED BY <2>3, <4>1, Least
    <3>2. n \in 1..Len(F) /\ n \in Nat /\ f[n] = JoinStep(F, f, n) /\ F[n] \in Seq(M)
      BY <2>1, <2>2
    <3>3. CASE n = 1
      <4>1. f[1] = F[1] /\ F[1] \in Seq(M)
        BY <3>2, <3>3, <2>1 DEF JoinStep
      <4> DEFINE e == <<>>
                 z == [i \in 1..1 |-> 0]
      <4>2. e \in Seq(M) /\ Spread(F, 0, e, z)
        BY DEF Spread
      <4>3. e \o F[1] = F[1]
        BY <4>1
      <4> HIDE DEF e, z
      <4>4. \E off : Spread(F, 0 + 1, e \o F[0 + 1], off)
        <5>1. 0 \in Nat /\ F[0 + 1] \in Seq(M) /\ \A i \in 1..0 : F[i] \in Seq(M)
          BY <4>1
        <5> QED BY <5>1, <4>2, SpreadGrows
      <4>5. 0 + 1 = 1
        OBVIOUS
      <4>6. \E off : Spread(F, 1, f[1], off)
        BY <4>1, <4>3, <4>4, <4>5
      <4>7. f[1] \in Seq(M)
        BY <4>1
      <4>8. Good(1)
        BY <4>6, <4>7
      <4> QED BY <3>3, <4>8
    <3>4. CASE n # 1
      <4>1. n - 1 \in 1..Len(F) /\ n - 1 < n /\ n - 1 \in Nat /\ (n - 1) + 1 = n
        BY <3>2, <3>4
      <4>2. Good(n - 1)
        <5> HIDE DEF Good
        <5> QED BY <3>1, <4>1
      <4>3. f[n] = f[n - 1] \o F[n]
        BY <3>2, <3>4 DEF JoinStep
      <4>4. f[n - 1] \in Seq(M) /\ F[n] \in Seq(M)
        BY <4>2, <3>2
      <4>5. PICK off : Spread(F, n - 1, f[n - 1], off)
        BY <4>2
      <4>6. \A i \in 1..(n - 1) : F[i] \in Seq(M)
        BY <2>1, <3>2
      <4>7. \E o : Spread(F, n, f[n - 1] \o F[n], o)
        BY <4>1, <4>4, <4>5, <4>6, SpreadGrows
      <4>8. f[n] \in Seq(M)
        BY <4>3, <4>4
      <4> QED BY <4>3, <4>7, <4>8
    <3> QED BY <3>3, <3>4
  <2>4. Good(Len(F))
    <3>1. Len(F) \in 1..Len(F)
      BY <2>1
    <3> HIDE DEF Good
    <3> QED BY <3>1, <2>3
  <2> QED BY <2>2, <2>4
<1> QED BY <1>1, <1>2

\* Later parts stand behind earlier ones.
LEMMA SpreadInOrder ==
  ASSUME NEW M, NEW F \in Seq(Seq(M)), NEW r, Len(r) \in Nat, NEW off, Spread(F, Len(F), r, off),
         NEW i \in 1..Len(F), NEW j \in 1..Len(F), i < j
  PROVE  off[i] + Len(F[i]) <= off[j]
<1> DEFINE Bad == {n \in (i + 1)..Len(F) : ~(off[i + 1] <= off[n])}
<1>0. Len(F) \in Nat /\ \A n \in 1..Len(F) : F[n] \in Seq(M)
  OBVIOUS
<1>a. \A n \in 1..(Len(F) + 1) : off[n] \in Nat
  <2>1. \A n \in 1..(Len(F) + 1) : off[n] \in 0..Len(r)
    BY DEF Spread
  <2> QED BY <2>1
<1>c. \A n \in 1..Len(F) : Len(F[n]) \in Nat
  BY <1>0
<1>b. \A n \in 1..Len(F) : off[n + 1] = off[n] + Len(F[n]) /\ Len(F[n]) \in Nat
  BY <1>c DEF Spread
<1>1. ASSUME Bad # {} PROVE FALSE
  <2>1. PICK n \in Bad : \A m \in Nat : m < n => m \notin Bad
    <3> HIDE DEF Bad
    <3>1. Bad \in SUBSET Nat
      BY <1>0 DEF Bad
    <3> QED BY <1>1, <3>1, Least
  <2>2. n \in (i + 1)..Len(F) /\ ~(off[i + 1] <= off[n])
    OBVIOUS
  <2>3. n # i + 1
    BY <2>2, <1>0, <1>a
  <2>4. n - 1 \in (i + 1)..Len(F) /\ n - 1 \in Nat /\ n - 1 < n
    BY <2>2, <2>3, <1>0
  <2>5. off[i + 1] <= off[n - 1]
    BY <2>1, <2>4
  <2>6. (n - 1) + 1 = n /\ n - 1 \in 1..Len(F) /\ i + 1 \in 1..(Len(F) + 1)
    BY <2>4, <1>0
  <2>7. /\ off[n] = off[n - 1] + Len(F[n - 1]) /\ off[n - 1] \in Nat /\ off[i + 1] \in Nat
        /\ Len(F[n - 1]) \in Nat
    <3>1. n - 1 \in 1..(Len(F) + 1)
      BY <2>6, <1>0
    <3>2. off[n - 1] \in Nat /\ off[i + 1] \in Nat
      BY <3>1, <2>6, <1>a
    <3>3. off[(n - 1) + 1] = off[n - 1] + Len(F[n - 1]) /\ Len(F[n - 1]) \in Nat
      BY <2>6, <1>b
    <3> QED BY <2>6, <3>2, <3>3
  <2>8. off[i + 1] <= off[n]
    <3> DEFINE x == off[i + 1]
               y == off[n - 1]
               z == Len(F[n - 1])
    <3>1. x \in Nat /\ y \in Nat /\ z \in Nat /\ x <= y /\ off[n] = y + z
      BY <2>5, <2>7
    <3> HIDE DEF x, y, z
    <3>2. x <= off[n]
      BY <3>1
    <3> QED BY <3>2 DEF x
  <2> QED BY <2>2, <2>8
<1>2. j \in (i + 1)..Len(F)
  BY <1>0
<1>3. off[i + 1] <= off[j]
  BY <1>1, <1>2
<1> QED BY <1>3, <1>b

-----------------------------------------------------------------------------
(* Messages.                                                                *)

Kinds == {"prompt", "steer", "notice", "pin", "marker", "auto", "text", "calls", "summary",
          "result", "cleared", "recovered", "system"}
CallOf == [sig : Sigs, k : Nat, id : Seq(Nat)]
Message == [kind : Kinds, n : Nat, calls : Seq(CallOf), id : Seq(Nat), size : Nat,
            compacted : BOOLEAN, tail : Nat, covers : SUBSET Nat, usage : Nat]

\* What the copies of a message share.
Alike(a, b) ==
  /\ a.kind = b.kind /\ a.n = b.n /\ a.calls = b.calls /\ a.id = b.id
  /\ a.tail = b.tail /\ a.covers = b.covers

\* What Msg makes is a message, and of which fields.
LEMMA MsgIs ==
  ASSUME NEW kind \in Kinds, NEW n \in Nat
  PROVE  /\ Msg(kind, n) \in Message
         /\ Msg(kind, n).kind = kind /\ Msg(kind, n).n = n /\ Msg(kind, n).calls = <<>>
         /\ Msg(kind, n).tail = 0 /\ Msg(kind, n).covers = {}
         /\ ~Msg(kind, n).compacted
BY DEF Msg, Message

\* What Result makes is a message, and of which fields.
LEMMA ResultIs ==
  ASSUME NEW call \in CallOf, NEW n \in Nat, NEW size \in Nat
  PROVE  /\ Result(call, n, size) \in Message
         /\ Result(call, n, size).kind = "result" /\ Result(call, n, size).n = n
         /\ Result(call, n, size).calls = <<>> /\ Result(call, n, size).id = call.id
         /\ Result(call, n, size).tail = 0 /\ Result(call, n, size).covers = {}
         /\ ~Result(call, n, size).compacted
<1> DEFINE m == Msg("result", n)
<1>1. call.id \in Seq(Nat)
  BY DEF CallOf
<1>2. m \in Message /\ m.kind = "result" /\ m.n = n /\ m.calls = <<>> /\ m.tail = 0
      /\ m.covers = {} /\ ~m.compacted
  <2>1. "result" \in Kinds
    BY DEF Kinds
  <2> QED BY <2>1, MsgIs
<1>3. Result(call, n, size) = [m EXCEPT !.id = call.id, !.size = size]
  BY DEF Result
<1> HIDE DEF m
<1> QED BY <1>1, <1>2, <1>3 DEF Message

\* The answer given to a call that has none is a message.
LEMMA RecoveredIs ==
  ASSUME NEW call \in CallOf
  PROVE  /\ Recovered(call) \in Message
         /\ Recovered(call).kind = "recovered" /\ Recovered(call).n = 0
         /\ Recovered(call).calls = <<>> /\ Recovered(call).id = call.id
         /\ Recovered(call).tail = 0 /\ Recovered(call).covers = {}
<1> DEFINE m == Msg("recovered", 0)
<1>1. call.id \in Seq(Nat)
  BY DEF CallOf
<1>2. m \in Message /\ m.kind = "recovered" /\ m.n = 0 /\ m.calls = <<>> /\ m.tail = 0
      /\ m.covers = {}
  <2>1. "recovered" \in Kinds
    BY DEF Kinds
  <2> QED BY <2>1, MsgIs
<1>3. Recovered(call) = [m EXCEPT !.id = call.id]
  BY DEF Recovered
<1> HIDE DEF m
<1> QED BY <1>1, <1>2, <1>3 DEF Message

\* A summary is a message.
LEMMA SummaryIs ==
  ASSUME NEW first \in Nat, NEW covers \in SUBSET Nat
  PROVE  LET m == [Msg("summary", 0) EXCEPT !.tail = first, !.covers = covers] IN
         /\ m \in Message /\ m.kind = "summary" /\ m.n = 0 /\ m.calls = <<>>
         /\ m.tail = first /\ m.covers = covers /\ ~m.compacted
<1> DEFINE m == Msg("summary", 0)
<1>1. m \in Message /\ m.kind = "summary" /\ m.n = 0 /\ m.calls = <<>>
      /\ ~m.compacted
  <2>1. "summary" \in Kinds
    BY DEF Kinds
  <2> QED BY <2>1, MsgIs
<1> HIDE DEF m
<1>2. LET c == [m EXCEPT !.tail = first, !.covers = covers] IN
      /\ c \in Message /\ c.kind = "summary" /\ c.n = 0 /\ c.calls = <<>>
      /\ c.tail = first /\ c.covers = covers /\ ~c.compacted
  BY <1>1 DEF Message
<1> QED BY <1>2 DEF m

\* Setting Compacted leaves a message the same in what a request shows of it.
LEMMA CompactedIs ==
  ASSUME NEW m \in Message, NEW b \in BOOLEAN
  PROVE  LET c == [m EXCEPT !.compacted = b] IN
         c \in Message /\ Alike(c, m) /\ (c.compacted <=> b)
BY DEF Message, Alike

\* So does recording the usage.
LEMMA UsageIs ==
  ASSUME NEW m \in Message, NEW u \in Nat
  PROVE  LET c == [m EXCEPT !.usage = u] IN
         c \in Message /\ Alike(c, m) /\ (c.compacted <=> m.compacted)
BY DEF Message, Alike

\* A cleared result keeps its number, its id and its place among the calls.
LEMMA ClearedIs ==
  ASSUME NEW m \in Message
  PROVE  LET c == [m EXCEPT !.kind = "cleared", !.size = 1, !.compacted = TRUE] IN
         /\ c \in Message /\ c.kind = "cleared" /\ c.n = m.n /\ c.calls = m.calls
         /\ c.id = m.id /\ c.tail = m.tail /\ c.covers = m.covers /\ c.compacted
BY DEF Message, Kinds

\* A copy in the session of the peer is the message.
LEMMA MirrorIs ==
  ASSUME NEW m \in Message
  PROVE  Mirror(m) \in Message /\ Alike(Mirror(m), m) /\ ~Mirror(m).compacted
BY DEF Message, Alike, Mirror

-----------------------------------------------------------------------------
SumBy(ms, N, f) == f = [i \in 0..N |-> IF i = 0 THEN 0 ELSE f[i - 1] + ms[i].size]

SumStep(ms, f, i) == IF i = 0 THEN 0 ELSE f[i - 1] + ms[i].size

\* The equation of Tokens has a solution.
LEMMA SumExists == ASSUME NEW ms, NEW N \in Nat PROVE \E f : SumBy(ms, N, f)
<1> DEFINE Bad == {n \in Nat : ~\E f : f = [i \in 0..n |-> SumStep(ms, f, i)]}
<1>1. ASSUME Bad # {} PROVE FALSE
  <2>1. PICK n \in Bad : \A m \in Nat : m < n => m \notin Bad
    <3> HIDE DEF Bad
    <3>1. Bad \in SUBSET Nat
      BY DEF Bad
    <3> QED BY <1>1, <3>1, Least
  <2>2. CASE n = 0
    <3> DEFINE f == [i \in 0..n |-> 0]
    <3>1. f = [i \in 0..n |-> SumStep(ms, f, i)]
      BY <2>2 DEF SumStep
    <3> QED BY <3>1
  <2>3. CASE n # 0
    <3>1. n - 1 \in Nat /\ n - 1 < n
      BY <2>3
    <3>2. PICK g : g = [i \in 0..(n - 1) |-> SumStep(ms, g, i)]
      BY <2>1, <3>1
    <3> DEFINE f == [i \in 0..n |-> IF i = n THEN SumStep(ms, g, n) ELSE g[i]]
    <3>3. \A i \in 0..n : f[i] = SumStep(ms, f, i)
      <4> TAKE i \in 0..n
      <4>1. CASE i = n
        BY <4>1, <3>1 DEF SumStep
      <4>2. CASE i # n
        <5>1. i \in 0..(n - 1)
          BY <4>2
        <5>2. g[i] = SumStep(ms, g, i)
          BY <3>2, <5>1
        <5>3. i # 0 => f[i - 1] = g[i - 1]
          BY <5>1
        <5> QED BY <5>1, <5>2, <5>3, <4>2 DEF SumStep
      <4> QED BY <4>1, <4>2
    <3>4. f = [i \in 0..n |-> SumStep(ms, f, i)]
      BY <3>3
    <3> QED BY <3>4
  <2> QED BY <2>2, <2>3
<1>2. N \notin Bad
  BY <1>1
<1>3. PICK f : f = [i \in 0..N |-> SumStep(ms, f, i)]
  BY <1>2
<1> QED BY <1>3 DEF SumStep, SumBy

\* The tokens of a sequence of messages are a number.
LEMMA TokensIsNat ==
  ASSUME NEW ms \in Seq(Message)
  PROVE  Tokens(ms) \in Nat
<1> DEFINE g == CHOOSE f : SumBy(ms, Len(ms), f)
<1>0. Len(ms) \in Nat /\ \A i \in 1..Len(ms) : ms[i].size \in Nat
  <2>1. Len(ms) \in Nat /\ \A i \in 1..Len(ms) : ms[i] \in Message
    OBVIOUS
  <2>2. \A m \in Message : m.size \in Nat
    BY DEF Message
  <2> QED BY <2>1, <2>2
<1>1. Tokens(ms) = g[Len(ms)]
  BY DEF Tokens, SumBy
<1>2. SumBy(ms, Len(ms), g)
  BY <1>0, SumExists
<1>3. g = [i \in 0..Len(ms) |-> IF i = 0 THEN 0 ELSE g[i - 1] + ms[i].size]
  BY <1>2 DEF SumBy
<1> HIDE DEF g
<1> DEFINE Bad == {n \in 0..Len(ms) : g[n] \notin Nat}
<1>4. ASSUME Bad # {} PROVE FALSE
  <2>1. PICK n \in Bad : \A m \in Nat : m < n => m \notin Bad
    <3> HIDE DEF Bad
    <3>1. Bad \in SUBSET Nat
      BY <1>0 DEF Bad
    <3> QED BY <1>4, <3>1, Least
  <2>2. n # 0
    BY <1>3, <2>1
  <2>3. n - 1 \in 0..Len(ms) /\ n - 1 \in Nat /\ n - 1 < n /\ n \in 1..Len(ms)
    BY <2>1, <2>2, <1>0
  <2>4. g[n - 1] \in Nat
    BY <2>1, <2>3
  <2>5. g[n] = g[n - 1] + ms[n].size
    BY <1>3, <2>2, <2>3
  <2>6. g[n] \in Nat
    BY <2>3, <2>4, <2>5, <1>0
  <2> QED BY <2>1, <2>6
<1>5. Len(ms) \in 0..Len(ms)
  BY <1>0
<1>6. g[Len(ms)] \in Nat
  BY <1>4, <1>5
<1> QED BY <1>1, <1>6

-----------------------------------------------------------------------------
(* What marks and copies change.                                            *)

\* What \o makes of two sequences.
LEMMA Joined ==
  ASSUME NEW M, NEW left \in Seq(M), NEW right \in Seq(M)
  PROVE  /\ left \o right \in Seq(M) /\ Len(left \o right) = Len(left) + Len(right)
         /\ Len(left) \in Nat /\ Len(right) \in Nat
         /\ \A i \in 1..Len(left) : (left \o right)[i] = left[i]
         /\ \A i \in 1..Len(right) : (left \o right)[Len(left) + i] = right[i]
         /\ \A i \in 1..Len(left \o right) : i > Len(left) =>
              i - Len(left) \in 1..Len(right) /\ (left \o right)[i] = right[i - Len(left)]
OBVIOUS

\* What Append makes of a sequence.
LEMMA Appended ==
  ASSUME NEW M, NEW left \in Seq(M), NEW elem \in M
  PROVE  /\ Append(left, elem) \in Seq(M) /\ Len(Append(left, elem)) = Len(left) + 1 /\ Len(left) \in Nat
         /\ \A i \in 1..Len(left) : Append(left, elem)[i] = left[i]
         /\ Append(left, elem)[Len(left) + 1] = elem
OBVIOUS

\* g has the messages of h, but for what is marked on them.
Marked(g, h) ==
  /\ g \in Seq(Message) /\ Len(g) = Len(h)
  /\ \A i \in 1..Len(h) : Alike(g[i], h[i])

\* c has the parts of a compaction.
Cut(c) == c.first \in Nat /\ c.covers \in SUBSET Nat

Heads(h, c) ==
  [i \in DOMAIN h |->
     IF i < c.first /\ h[i].kind # "system" THEN [h[i] EXCEPT !.compacted = TRUE] ELSE h[i]]

\* The part of MarkCompaction that marks the head changes Compacted only.
LEMMA HeadsIs ==
  ASSUME NEW h \in Seq(Message), NEW c, Cut(c)
  PROVE  /\ Marked(Heads(h, c), h)
         /\ \A i \in 1..Len(h) : Heads(h, c)[i].compacted <=>
              (h[i].compacted \/ (i < c.first /\ h[i].kind # "system"))
<1> DEFINE g == Heads(h, c)
<1>1. Len(h) \in Nat /\ DOMAIN h = 1..Len(h) /\ \A i \in 1..Len(h) : h[i] \in Message
  OBVIOUS
<1>2. \A i \in 1..Len(h) :
         g[i] = IF i < c.first /\ h[i].kind # "system" THEN [h[i] EXCEPT !.compacted = TRUE]
                ELSE h[i]
  BY <1>1 DEF Heads
<1>3. DOMAIN g = 1..Len(h) /\ g = [i \in 1..Len(h) |-> g[i]]
  BY <1>1 DEF Heads
<1> HIDE DEF g
<1>4. ASSUME NEW i \in 1..Len(h)
      PROVE  /\ g[i] \in Message /\ Alike(g[i], h[i])
             /\ g[i].compacted <=> (h[i].compacted \/ (i < c.first /\ h[i].kind # "system"))
  <2>1. h[i] \in Message
    BY <1>1
  <2>2. CASE i < c.first /\ h[i].kind # "system"
    <3>1. g[i] = [h[i] EXCEPT !.compacted = TRUE]
      BY <1>2, <2>2
    <3>2. /\ [h[i] EXCEPT !.compacted = TRUE] \in Message
          /\ Alike([h[i] EXCEPT !.compacted = TRUE], h[i])
          /\ [h[i] EXCEPT !.compacted = TRUE].compacted <=> TRUE
      <4>1. TRUE \in BOOLEAN
        OBVIOUS
      <4> QED BY <2>1, <4>1, CompactedIs
    <3> QED BY <2>2, <3>1, <3>2
  <2>3. CASE ~(i < c.first /\ h[i].kind # "system")
    <3>1. g[i] = h[i]
      BY <1>2, <2>3
    <3> QED BY <2>1, <2>3, <3>1 DEF Alike
  <2> QED BY <2>2, <2>3
<1>5. g \in Seq(Message) /\ Len(g) = Len(h)
  BY <1>1, <1>3, <1>4
<1>6. Marked(g, h)
  BY <1>4, <1>5 DEF Marked
<1> QED BY <1>4, <1>6 DEF g

\* MarkCompaction marks the head and puts marker and summary behind it all.
LEMMA MarkCompactionIs ==
  ASSUME NEW h \in Seq(Message), NEW c, Cut(c)
  PROVE  LET r == MarkCompaction(h, c)
             n == Len(h) IN
         /\ r \in Seq(Message) /\ Len(r) = n + 2
         /\ \A i \in 1..n : /\ Alike(r[i], h[i])
                            /\ r[i].compacted <=>
                                 (h[i].compacted \/ (i < c.first /\ h[i].kind # "system"))
         /\ r[n + 1] = Msg("marker", 0)
         /\ r[n + 2] = [Msg("summary", 0) EXCEPT !.tail = c.first, !.covers = c.covers]
<1> DEFINE g == Heads(h, c)
           m == Msg("marker", 0)
           s == [Msg("summary", 0) EXCEPT !.tail = c.first, !.covers = c.covers]
           r == MarkCompaction(h, c)
<1>1. r = g \o <<m, s>>
  BY DEF MarkCompaction, Heads
<1>2. /\ Marked(g, h)
      /\ \A i \in 1..Len(h) : g[i].compacted <=>
           (h[i].compacted \/ (i < c.first /\ h[i].kind # "system"))
  BY HeadsIs
<1>3. m \in Message /\ s \in Message
  <2>1. "marker" \in Kinds
    BY DEF Kinds
  <2>2. c.first \in Nat /\ c.covers \in SUBSET Nat
    BY DEF Cut
  <2> QED BY <2>1, <2>2, MsgIs, SummaryIs
<1> HIDE DEF g, m, s, r
<1>4. g \in Seq(Message) /\ Len(g) = Len(h) /\ Len(h) \in Nat
  BY <1>2 DEF Marked
<1>5. /\ r \in Seq(Message) /\ Len(r) = Len(h) + 2
      /\ \A i \in 1..Len(h) : r[i] = g[i]
      /\ r[Len(h) + 1] = m /\ r[Len(h) + 2] = s
  <2> DEFINE t == <<m, s>>
  <2>1. t \in Seq(Message) /\ Len(t) = 2 /\ t[1] = m /\ t[2] = s
    BY <1>3
  <2>2. r = g \o t
    BY <1>1
  <2> HIDE DEF t
  <2>3. /\ r \in Seq(Message) /\ Len(r) = Len(g) + 2
        /\ \A i \in 1..Len(g) : r[i] = g[i]
        /\ r[Len(g) + 1] = t[1] /\ r[Len(g) + 2] = t[2]
    <3>1. 1 \in 1..Len(t) /\ 2 \in 1..Len(t)
      BY <2>1
    <3>2. /\ g \o t \in Seq(Message) /\ Len(g \o t) = Len(g) + Len(t)
          /\ \A i \in 1..Len(g) : (g \o t)[i] = g[i]
          /\ \A i \in 1..Len(t) : (g \o t)[Len(g) + i] = t[i]
      <4>1. g \in Seq(Message)
        BY <1>4
      <4>2. t \in Seq(Message)
        BY <2>1
      <4>3. g \o t \in Seq(Message)
        BY <4>1, <4>2, Joined
      <4>4. Len(g \o t) = Len(g) + Len(t)
        BY <4>1, <4>2, Joined
      <4>5. \A i \in 1..Len(g) : (g \o t)[i] = g[i]
        BY <4>1, <4>2, Joined
      <4>6. \A i \in 1..Len(t) : (g \o t)[Len(g) + i] = t[i]
        BY <4>1, <4>2, Joined
      <4> QED BY <4>3, <4>4, <4>5, <4>6
    <3> QED BY <2>1, <2>2, <3>1, <3>2
  <2> QED BY <1>4, <2>1, <2>3
<1>6. \A i \in 1..Len(h) : /\ Alike(r[i], h[i])
                           /\ r[i].compacted <=>
                                (h[i].compacted \/ (i < c.first /\ h[i].kind # "system"))
  BY <1>2, <1>5 DEF Marked
<1> QED BY <1>5, <1>6 DEF r, m, s

\* RecordUsage changes a usage only.
LEMMA RecordUsageIs ==
  ASSUME NEW h \in Seq(Message), NEW u \in Nat
  PROVE  /\ Marked(RecordUsage(h, u), h)
         /\ \A i \in 1..Len(h) : RecordUsage(h, u)[i].compacted <=> h[i].compacted
<1> DEFINE A == {i \in DOMAIN h : IsAssistant(h[i]) /\ ~IsSummary(h[i])}
           a == Latest(A)
           g == RecordUsage(h, u)
<1>1. Len(h) \in Nat /\ DOMAIN h = 1..Len(h) /\ \A i \in 1..Len(h) : h[i] \in Message
  OBVIOUS
<1>2. g = IF a = 0 \/ u = 0 THEN h ELSE [h EXCEPT ![a].usage = u]
  BY DEF RecordUsage
<1>3. a # 0 => a \in 1..Len(h)
  <2>1. A \in SUBSET (1..Len(h))
    BY <1>1
  <2> HIDE DEF A
  <2>2. Latest(A) \in 0..Len(h)
    BY <1>1, <2>1, LatestIs
  <2> QED BY <2>2, <1>1
<1> HIDE DEF a, g
<1>4. CASE a = 0 \/ u = 0
  <2>1. g = h
    BY <1>2, <1>4
  <2>2. \A i \in 1..Len(h) : Alike(h[i], h[i])
    BY DEF Alike
  <2>3. Marked(h, h)
    BY <2>2 DEF Marked
  <2>4. \A i \in 1..Len(h) : h[i].compacted <=> h[i].compacted
    OBVIOUS
  <2> QED BY <2>1, <2>3, <2>4 DEF g
<1>5. CASE ~(a = 0 \/ u = 0)
  <2>1. g = [h EXCEPT ![a] = [h[a] EXCEPT !.usage = u]]
    BY <1>2, <1>5
  <2>2. a \in 1..Len(h) /\ h[a] \in Message
    BY <1>1, <1>3, <1>5
  <2> DEFINE m == [h[a] EXCEPT !.usage = u]
  <2>3. m \in Message /\ Alike(m, h[a]) /\ (m.compacted <=> h[a].compacted)
    BY <2>2, UsageIs
  <2> HIDE DEF m
  <2>4. g = [h EXCEPT ![a] = m]
    BY <2>1 DEF m
  <2>5. g \in Seq(Message) /\ Len(g) = Len(h) /\ \A i \in 1..Len(h) :
          g[i] = IF i = a THEN m ELSE h[i]
    BY <1>1, <2>2, <2>3, <2>4
  <2>6. \A i \in 1..Len(h) : Alike(g[i], h[i]) /\ (g[i].compacted <=> h[i].compacted)
    BY <2>3, <2>5 DEF Alike
  <2> QED BY <2>5, <2>6 DEF Marked, g
<1> QED BY <1>4, <1>5 DEF g

\* A result that is cleared keeps what it belongs to.
LEMMA MarkClearedIs ==
  ASSUME NEW h \in Seq(Message), NEW S
  PROVE  LET g == MarkCleared(h, S) IN
         /\ g \in Seq(Message) /\ Len(g) = Len(h)
         /\ \A i \in 1..Len(h) : i \notin S => g[i] = h[i]
         /\ \A i \in 1..Len(h) : i \in S =>
              /\ g[i].kind = "cleared" /\ g[i].n = h[i].n /\ g[i].calls = h[i].calls
              /\ g[i].id = h[i].id /\ g[i].tail = h[i].tail /\ g[i].covers = h[i].covers
              /\ g[i].compacted
<1> DEFINE g == MarkCleared(h, S)
<1>1. Len(h) \in Nat /\ DOMAIN h = 1..Len(h) /\ \A i \in 1..Len(h) : h[i] \in Message
  OBVIOUS
<1>2. \A i \in 1..Len(h) :
         g[i] = IF i \in S THEN [h[i] EXCEPT !.kind = "cleared", !.size = 1, !.compacted = TRUE]
                ELSE h[i]
  BY <1>1 DEF MarkCleared
<1>3. DOMAIN g = 1..Len(h) /\ g = [i \in 1..Len(h) |-> g[i]]
  BY <1>1 DEF MarkCleared
<1> HIDE DEF g
<1>4. ASSUME NEW i \in 1..Len(h), i \in S
      PROVE  /\ g[i] \in Message
             /\ g[i].kind = "cleared" /\ g[i].n = h[i].n /\ g[i].calls = h[i].calls
             /\ g[i].id = h[i].id /\ g[i].tail = h[i].tail /\ g[i].covers = h[i].covers
             /\ g[i].compacted
  <2>1. g[i] = [h[i] EXCEPT !.kind = "cleared", !.size = 1, !.compacted = TRUE]
    BY <1>2, <1>4
  <2>2. h[i] \in Message
    BY <1>1
  <2> QED BY <2>1, <2>2, ClearedIs
<1>5. \A i \in 1..Len(h) : i \notin S => g[i] = h[i]
  BY <1>2
<1>6. \A i \in 1..Len(h) : g[i] \in Message
  BY <1>1, <1>4, <1>5
<1>7. g \in Seq(Message) /\ Len(g) = Len(h)
  BY <1>1, <1>3, <1>6
<1> QED BY <1>4, <1>5, <1>7 DEF g

-----------------------------------------------------------------------------
(* Compaction.                                                              *)

\* Where the messages begin that no summary has taken up, and those of them that are open.
Start(h) ==
  LET starts == {i \in DOMAIN h : IsSummary(h[i]) /\ h[i].tail \in 2..(i - 1)}
  IN IF starts = {} THEN 1 ELSE h[Max(starts)].tail
Open(h) == {i \in Start(h)..Len(h) : ~h[i].compacted /\ h[i].kind \notin {"summary", "marker"}}

\* The work list starts at the tail of the last summary that points back.
LEMMA StartIs ==
  ASSUME NEW h \in Seq(Message)
  PROVE  /\ Start(h) \in Nat \ {0}
         /\ Start(h) = 1 \/ \E i \in 1..Len(h) : /\ IsSummary(h[i]) /\ h[i].tail \in 2..(i - 1)
                                                 /\ Start(h) = h[i].tail
                                                 /\ \A j \in 1..Len(h) :
                                                      IsSummary(h[j]) /\ h[j].tail \in 2..(j - 1)
                                                        => j <= i
<1> DEFINE starts == {i \in DOMAIN h : IsSummary(h[i]) /\ h[i].tail \in 2..(i - 1)}
           x == Max(starts)
<1>1. Start(h) = IF starts = {} THEN 1 ELSE h[x].tail
  BY DEF Start
<1>2. CASE starts = {}
  BY <1>1, <1>2
<1>3. CASE starts # {}
  <2>1. Len(h) \in Nat /\ starts \in SUBSET (1..Len(h))
    OBVIOUS
  <2>2. x \in starts /\ \A y \in starts : y <= x
    <3> HIDE DEF starts
    <3> QED BY <1>3, <2>1, Greatest
  <2>3. Start(h) = h[x].tail
    BY <1>1, <1>3
  <2>4. x \in 1..Len(h) /\ IsSummary(h[x]) /\ h[x].tail \in 2..(x - 1)
    BY <2>1, <2>2
  <2>5. \A j \in 1..Len(h) : IsSummary(h[j]) /\ h[j].tail \in 2..(j - 1) => j <= x
    BY <2>2
  <2> HIDE DEF x, starts
  <2>6. h[x].tail \in Nat \ {0}
    BY <2>4
  <2> QED BY <2>3, <2>4, <2>5, <2>6
<1> QED BY <1>2, <1>3

\* The work list is what is open from there on, in order.
LEMMA WorkListIs ==
  ASSUME NEW h \in Seq(Message)
  PROVE  Open(h) \in SUBSET (1..Len(h)) /\ Lists(WorkList(h), Open(h))
<1>1. Len(h) \in Nat /\ Start(h) \in Nat \ {0}
  BY StartIs
<1>2. Open(h) \in SUBSET (1..Len(h))
  BY <1>1 DEF Open
<1>3. WorkList(h) = Ordered(Open(h))
  BY DEF WorkList, Open, Start
<1> QED BY <1>1, <1>2, <1>3, OrderedIs

\* A cut point is not the first of the work list, and no tool message.
LEMMA CutPointIs ==
  ASSUME NEW h, NEW w, Len(w) \in Nat, DOMAIN w = 1..Len(w), FindCutPoint(h, w) # 0
  PROVE  LET cut == FindCutPoint(h, w) IN
         cut \in 2..Len(w) /\ (IsUser(h[w[cut]]) \/ IsAssistant(h[w[cut]]))
<1> DEFINE cuts == {j \in DOMAIN w : IsUser(h[w[j]]) \/ IsAssistant(h[w[j]])}
           full == {j \in DOMAIN w : Tokens([k \in 1..(Len(w) - j + 1) |-> h[w[j + k - 1]]]) >= Keep}
           later == {c \in cuts : c >= Latest(full)}
           among == IF later = {} THEN cuts ELSE later
<1>1. FindCutPoint(h, w) = IF cuts = {} \/ full = {} \/ Min(among) = 1 THEN 0 ELSE Min(among)
  BY DEF FindCutPoint
<1>2. cuts # {} /\ FindCutPoint(h, w) = Min(among) /\ Min(among) # 1
  BY <1>1
<1>3. among \in SUBSET cuts /\ among # {} /\ cuts \in SUBSET (1..Len(w))
  BY <1>2
<1>4. Min(among) \in cuts
  <2>1. among \in SUBSET Nat
    <3> HIDE DEF among, cuts
    <3> QED BY <1>3
  <2> HIDE DEF among, cuts
  <2> QED BY <1>3, <2>1, Lowest
<1>5. Min(among) \in 1..Len(w) /\ (IsUser(h[w[Min(among)]]) \/ IsAssistant(h[w[Min(among)]]))
  BY <1>3, <1>4
<1> HIDE DEF among, cuts
<1> QED BY <1>2, <1>5

\* A compaction ends at a user or assistant message that is still open, and its summary is
\* written from all that was open before it and from the last summary.
LEMMA CompactionIs ==
  ASSUME NEW h \in Seq(Message)
  PROVE  LET c == Compaction(h)
             s == LastSummary(h)
             old == IF s = 0 THEN {} ELSE h[s].covers IN
         /\ Cut(c)
         /\ c.first # 0 =>
              /\ c.first \in Open(h) /\ c.first > Start(h)
              /\ IsUser(h[c.first]) \/ IsAssistant(h[c.first])
              /\ \A i \in Open(h) : i < c.first => h[i].n \in c.covers \cup {0}
              /\ old \subseteq c.covers
         /\ \A x \in c.covers : x \in old \/ \E i \in 1..Len(h) : x = h[i].n
<1> DEFINE c == Compaction(h)
           s == LastSummary(h)
           old == IF s = 0 THEN {} ELSE h[s].covers
           w == WorkList(h)
           cut == FindCutPoint(h, w)
           head == {h[w[j]].n : j \in 1..(cut - 1)} \ {0}
<1>1. c = IF cut = 0 THEN [first |-> 0, covers |-> {}]
          ELSE [first |-> w[cut], covers |-> head \cup old]
  BY DEF Compaction
<1>2. CASE cut = 0
  <2>1. c.first = 0 /\ c.covers = {}
    BY <1>1, <1>2
  <2> HIDE DEF c, s, old
  <2>2. Cut(c)
    BY <2>1 DEF Cut
  <2>3. /\ Cut(c)
        /\ c.first # 0 =>
              /\ c.first \in Open(h) /\ c.first > Start(h)
              /\ IsUser(h[c.first]) \/ IsAssistant(h[c.first])
              /\ \A i \in Open(h) : i < c.first => h[i].n \in c.covers \cup {0}
              /\ old \subseteq c.covers
        /\ \A x \in c.covers : x \in old \/ \E i \in 1..Len(h) : x = h[i].n
    BY <2>1, <2>2
  <2> QED BY <2>3 DEF c, s, old
<1>3. CASE cut # 0
  <2>1. c.first = w[cut] /\ c.covers = head \cup old
    BY <1>1, <1>3
  <2>2. Len(h) \in Nat /\ Open(h) \in SUBSET (1..Len(h)) /\ Lists(w, Open(h))
    BY WorkListIs
  <2>3. /\ w \in Seq(Open(h)) /\ Len(w) \in Nat /\ DOMAIN w = 1..Len(w)
        /\ \A k \in 1..Len(w) : w[k] \in Open(h)
        /\ \A i, j \in 1..Len(w) : i < j => w[i] < w[j]
        /\ \A x \in Open(h) : \E k \in 1..Len(w) : w[k] = x
    <3> HIDE DEF w
    <3>1. w \in Seq(Open(h)) /\ Len(w) \in Nat /\ DOMAIN w = 1..Len(w)
      BY <2>2 DEF Lists
    <3>2. \A k \in 1..Len(w) : w[k] \in Open(h)
      BY <3>1, ElementOfSeq
    <3> QED BY <2>2, <3>1, <3>2 DEF Lists
  <2>4. cut \in 2..Len(w) /\ (IsUser(h[w[cut]]) \/ IsAssistant(h[w[cut]]))
    <3> HIDE DEF w
    <3> QED BY <1>3, <2>3, CutPointIs
  <2>5. head = {h[w[j]].n : j \in 1..(cut - 1)} \ {0}
    OBVIOUS
  <2> HIDE DEF w, cut, head, c
  <2>6. \A x \in Open(h) : x \in Nat /\ x >= Start(h) /\ x \in 1..Len(h)
    <3>1. Start(h) \in Nat
      BY StartIs
    <3> QED BY <2>2, <3>1 DEF Open
  <2>7. \A i \in 1..Len(h) : h[i].n \in Nat /\ h[i].covers \in SUBSET Nat
    <3>1. \A i \in 1..Len(h) : h[i] \in Message
      OBVIOUS
    <3>2. \A m \in Message : m.n \in Nat /\ m.covers \in SUBSET Nat
      BY DEF Message
    <3> QED BY <3>1, <3>2
  <2>8. old \in SUBSET Nat
    <3> DEFINE S == {i \in DOMAIN h : IsSummary(h[i])}
    <3>1. S \in SUBSET (1..Len(h)) /\ s = Latest(S)
      BY DEF LastSummary
    <3> HIDE DEF S
    <3>2. Latest(S) \in 0..Len(h)
      BY <2>2, <3>1, LatestIs
    <3>3. s # 0 => s \in 1..Len(h)
      BY <2>2, <3>1, <3>2
    <3> QED BY <3>3, <2>7
  <2> HIDE DEF old, s
  <2>9. head \in SUBSET Nat /\ \A x \in head : \E i \in 1..Len(h) : x = h[i].n
    <3>1. \A j \in 1..(cut - 1) : w[j] \in 1..Len(h)
      BY <2>3, <2>4, <2>6
    <3>2. \A x \in head : \E j \in 1..(cut - 1) : x = h[w[j]].n
      BY <2>5
    <3>3. \A x \in head : \E i \in 1..Len(h) : x = h[i].n
      BY <3>1, <3>2
    <3> QED BY <3>3, <2>7
  <2>10. Cut(c)
    <3>1. w[cut] \in Nat
      BY <2>3, <2>4, <2>6
    <3> QED BY <2>1, <2>8, <2>9, <3>1 DEF Cut
  <2>11. c.first \in Open(h) /\ c.first > Start(h)
    <3>1. 1 \in 1..Len(w) /\ cut \in 1..Len(w) /\ 1 < cut
      BY <2>3, <2>4
    <3>2. w[1] < w[cut] /\ w[1] \in Open(h) /\ w[cut] \in Open(h)
      BY <2>3, <3>1
    <3>3. w[1] >= Start(h) /\ w[1] \in Nat /\ w[cut] \in Nat /\ Start(h) \in Nat
      BY <3>2, <2>6, StartIs
    <3> QED BY <2>1, <3>2, <3>3
  <2>12. \A i \in Open(h) : i < c.first => h[i].n \in c.covers \cup {0}
    <3> TAKE i \in Open(h)
    <3> HAVE i < c.first
    <3>1. PICK k \in 1..Len(w) : w[k] = i
      BY <2>3
    <3>2. k < cut
      <4>1. cut \in 1..Len(w) /\ cut \in Nat /\ k \in Nat
        BY <2>3, <2>4
      <4>2. w[cut] \in Nat /\ i \in Nat
        BY <4>1, <2>3, <2>6
      <4>3. k # cut
        BY <3>1, <2>1, <4>2
      <4>4. ~(cut < k)
        <5>1. ASSUME cut < k PROVE FALSE
          <6>1. w[cut] < w[k]
            BY <5>1, <4>1, <2>3
          <6> QED BY <6>1, <3>1, <2>1, <4>2
        <5> QED BY <5>1
      <4> QED BY <4>1, <4>3, <4>4
    <3>3. k \in 1..(cut - 1)
      BY <3>2, <2>4, <2>3
    <3>4. h[i].n \in head \cup {0}
      BY <3>1, <3>3, <2>5
    <3> QED BY <3>4, <2>1
  <2>13. old \subseteq c.covers
    BY <2>1
  <2>14. \A x \in c.covers : x \in old \/ \E i \in 1..Len(h) : x = h[i].n
    BY <2>1, <2>9
  <2>15. IsUser(h[c.first]) \/ IsAssistant(h[c.first])
    BY <2>1, <2>4
  <2> QED BY <2>10, <2>11, <2>12, <2>13, <2>14, <2>15 DEF c, s, old
<1> QED BY <1>2, <1>3

-----------------------------------------------------------------------------
(* The session of a turn as a copy of the history.                          *)

Summary(first, covers) == [Msg("summary", 0) EXCEPT !.tail = first, !.covers = covers]

\* How a history is built: the system message, and a marker before each summary, whose tail
\* starts at a message that is no tool result.
Formed(h) ==
  /\ Len(h) >= 1 /\ Alike(h[1], Msg("system", 0))
  /\ \A i \in 1..Len(h) : h[i].kind # "recovered" /\ (h[i].kind = "system" => i = 1)
  /\ \A i \in 1..Len(h) : h[i].kind = "summary" =>
       /\ h[i].tail \in 2..(i - 2) /\ ~IsTool(h[h[i].tail])
       /\ h[i - 1].kind = "marker"
       /\ Alike(h[i], Summary(h[i].tail, h[i].covers))
  /\ \A i \in 1..Len(h) : h[i].kind = "marker" =>
       /\ i + 1 \in 1..Len(h) /\ h[i + 1].kind = "summary"
       /\ Alike(h[i], Msg("marker", 0))

SeedBy(h, f) == f = [i \in 0..Len(h) |-> IF i = 0 THEN <<Msg("system", 0)>>
                                         ELSE Copy(f[i - 1], h[i])]
SeedStep(h, f, i) == IF i = 0 THEN <<Msg("system", 0)>> ELSE Copy(f[i - 1], h[i])

\* The equation of Seed has a solution.
LEMMA SeedExists == ASSUME NEW h, Len(h) \in Nat PROVE \E f : SeedBy(h, f)
<1> DEFINE Bad == {n \in Nat : ~\E f : f = [i \in 0..n |-> SeedStep(h, f, i)]}
<1>1. ASSUME Bad # {} PROVE FALSE
  <2>1. PICK n \in Bad : \A m \in Nat : m < n => m \notin Bad
    <3> HIDE DEF Bad
    <3>1. Bad \in SUBSET Nat
      BY DEF Bad
    <3> QED BY <1>1, <3>1, Least
  <2>2. CASE n = 0
    <3> DEFINE f == [i \in 0..n |-> <<Msg("system", 0)>>]
    <3>1. f = [i \in 0..n |-> SeedStep(h, f, i)]
      BY <2>2 DEF SeedStep
    <3> QED BY <3>1
  <2>3. CASE n # 0
    <3>1. n - 1 \in Nat /\ n - 1 < n
      BY <2>3
    <3>2. PICK g : g = [i \in 0..(n - 1) |-> SeedStep(h, g, i)]
      BY <2>1, <3>1
    <3> DEFINE f == [i \in 0..n |-> IF i = n THEN SeedStep(h, g, n) ELSE g[i]]
    <3>3. \A i \in 0..n : f[i] = SeedStep(h, f, i)
      <4> TAKE i \in 0..n
      <4>1. CASE i = n
        BY <4>1, <3>1 DEF SeedStep
      <4>2. CASE i # n
        <5>1. i \in 0..(n - 1)
          BY <4>2
        <5>2. g[i] = SeedStep(h, g, i)
          BY <3>2, <5>1
        <5>3. i # 0 => f[i - 1] = g[i - 1]
          BY <5>1
        <5> QED BY <5>1, <5>2, <5>3, <4>2 DEF SeedStep
      <4> QED BY <4>1, <4>2
    <3>4. f = [i \in 0..n |-> SeedStep(h, f, i)]
      BY <3>3
    <3> QED BY <3>4
  <2> QED BY <2>2, <2>3
<1>2. Len(h) \notin Bad
  BY <1>1
<1>3. PICK f : f = [i \in 0..Len(h) |-> SeedStep(h, f, i)]
  BY <1>2
<1> QED BY <1>3 DEF SeedStep, SeedBy

\* Seed(h) is the last value of a function that copies message after message.
LEMMA SeedUnfolds ==
  ASSUME NEW h, Len(h) \in Nat
  PROVE  \E f : /\ f[0] = <<Msg("system", 0)>>
                /\ \A i \in 1..Len(h) : f[i] = Copy(f[i - 1], h[i])
                /\ Seed(h) = f[Len(h)]
<1> DEFINE g == CHOOSE f : SeedBy(h, f)
<1>1. Seed(h) = g[Len(h)]
  BY DEF Seed, SeedBy
<1>2. SeedBy(h, g)
  BY SeedExists
<1>3. g = [i \in 0..Len(h) |-> IF i = 0 THEN <<Msg("system", 0)>> ELSE Copy(g[i - 1], h[i])]
  BY <1>2 DEF SeedBy
<1> HIDE DEF g
<1>4. g[0] = <<Msg("system", 0)>> /\ \A i \in 1..Len(h) : g[i] = Copy(g[i - 1], h[i])
  BY <1>3
<1> QED BY <1>1, <1>4

\* The first k messages of h have been copied to g, except for a marker at the end.
Copied(h, k, g) ==
  LET m == IF h[k].kind = "marker" THEN k - 1 ELSE k IN
  /\ g \in Seq(Message) /\ Len(g) = m
  /\ \A i \in 1..m :
       /\ Alike(g[i], h[i])
       /\ g[i].compacted => \E j \in 1..k : h[j].kind = "summary" /\ i < h[j].tail

\* One more message is copied: the indices of the copy stay those of the history.
LEMMA CopyStep ==
  ASSUME NEW h \in Seq(Message), Formed(h), NEW k \in 2..Len(h), NEW g, Copied(h, k - 1, g)
  PROVE  Copied(h, k, Copy(g, h[k]))
<1> DEFINE r == Copy(g, h[k])
<1>0. /\ Len(h) \in Nat /\ k \in Nat /\ k \in 1..Len(h) /\ k - 1 \in 1..Len(h)
      /\ h[k] \in Message /\ h[k].kind # "system"
  BY DEF Formed
<1>1. g \in Seq(Message) /\ Len(g) \in Nat
  BY DEF Copied
<1>2. CASE h[k].kind = "marker"
  <2>1. r = g
    BY <1>2 DEF Copy
  <2>2. h[k - 1].kind # "marker"
    <3>1. h[k - 1].kind = "marker" => h[(k - 1) + 1].kind = "summary"
      BY <1>0 DEF Formed
    <3>2. (k - 1) + 1 = k
      BY <1>0
    <3> QED BY <3>1, <3>2, <1>2
  <2>3. /\ Len(g) = k - 1
        /\ \A i \in 1..(k - 1) :
             /\ Alike(g[i], h[i])
             /\ g[i].compacted => \E j \in 1..(k - 1) : h[j].kind = "summary" /\ i < h[j].tail
    BY <2>2 DEF Copied
  <2>4. \A j \in 1..(k - 1) : j \in 1..k
    BY <1>0
  <2>5. \A i \in 1..(k - 1) :
          g[i].compacted => \E j \in 1..k : h[j].kind = "summary" /\ i < h[j].tail
    BY <2>3, <2>4
  <2> QED BY <1>1, <1>2, <2>1, <2>3, <2>5 DEF Copied
<1>3. CASE h[k].kind = "summary"
  <2> DEFINE c == [first |-> h[k].tail, covers |-> h[k].covers]
  <2>1. r = MarkCompaction(g, c)
    BY <1>3 DEF Copy, IsSummary
  <2>2. c.first = h[k].tail /\ c.covers = h[k].covers /\ Cut(c)
    BY <1>0 DEF Cut, Message
  <2>3. h[k - 1].kind = "marker" /\ Alike(h[k], Summary(h[k].tail, h[k].covers))
    BY <1>0, <1>3 DEF Formed
  <2>4. Alike(h[k - 1], Msg("marker", 0))
    BY <1>0, <2>3 DEF Formed
  <2>5. /\ Len(g) = k - 2
        /\ \A i \in 1..(k - 2) :
             /\ Alike(g[i], h[i])
             /\ g[i].compacted => \E j \in 1..(k - 1) : h[j].kind = "summary" /\ i < h[j].tail
    <3>1. (k - 1) - 1 = k - 2
      BY <1>0
    <3> QED BY <2>3, <3>1 DEF Copied
  <2> HIDE DEF c, r
  <2>6. /\ r \in Seq(Message) /\ Len(r) = Len(g) + 2
        /\ \A i \in 1..Len(g) : /\ Alike(r[i], g[i])
                                /\ r[i].compacted <=>
                                     (g[i].compacted \/ (i < c.first /\ g[i].kind # "system"))
        /\ r[Len(g) + 1] = Msg("marker", 0)
        /\ r[Len(g) + 2] = [Msg("summary", 0) EXCEPT !.tail = c.first, !.covers = c.covers]
    BY <1>1, <2>1, <2>2, MarkCompactionIs
  <2>7. Len(r) = k /\ r[k - 1] = Msg("marker", 0) /\ r[k] = Summary(h[k].tail, h[k].covers)
    <3>1. (k - 2) + 1 = k - 1 /\ (k - 2) + 2 = k
      BY <1>0
    <3> QED BY <3>1, <2>2, <2>5, <2>6 DEF Summary
  <2>8. ~Msg("marker", 0).compacted /\ ~Summary(h[k].tail, h[k].covers).compacted
    BY DEF Msg, Summary
  <2>9. ASSUME NEW i \in 1..k
        PROVE  /\ Alike(r[i], h[i])
               /\ r[i].compacted => \E j \in 1..k : h[j].kind = "summary" /\ i < h[j].tail
    <3>1. CASE i = k
      BY <3>1, <2>3, <2>7, <2>8 DEF Alike
    <3>2. CASE i = k - 1
      BY <3>2, <2>4, <2>7, <2>8 DEF Alike
    <3>3. CASE i \notin {k - 1, k}
      <4>1. i \in 1..(k - 2)
        BY <3>3, <1>0
      <4>2. Alike(r[i], g[i]) /\ Alike(g[i], h[i])
        BY <4>1, <2>5, <2>6
      <4>3. r[i].compacted => g[i].compacted \/ i < h[k].tail
        BY <4>1, <2>2, <2>5, <2>6
      <4>4. g[i].compacted => \E j \in 1..(k - 1) : h[j].kind = "summary" /\ i < h[j].tail
        BY <4>1, <2>5
      <4>5. \A j \in 1..(k - 1) : j \in 1..k
        BY <1>0
      <4>6. k \in 1..k
        BY <1>0
      <4>7. r[i].compacted => \E j \in 1..k : h[j].kind = "summary" /\ i < h[j].tail
        BY <4>3, <4>4, <4>5, <4>6, <1>3
      <4> QED BY <4>2, <4>7 DEF Alike
    <3> QED BY <3>1, <3>2, <3>3
  <2>10. h[k].kind # "marker"
    BY <1>3
  <2>11. Copied(h, k, r)
    BY <2>6, <2>7, <2>9, <2>10 DEF Copied
  <2> QED BY <2>11 DEF r
<1>4. CASE h[k].kind \notin {"marker", "summary"}
  <2> DEFINE m == [h[k] EXCEPT !.compacted = FALSE]
  <2>1. r = Append(g, m)
    BY <1>0, <1>4 DEF Copy, IsSummary
  <2>2. m \in Message /\ Alike(m, h[k]) /\ ~m.compacted
    <3>1. FALSE \in BOOLEAN
      OBVIOUS
    <3>2. m \in Message /\ Alike(m, h[k]) /\ (m.compacted <=> FALSE)
      BY <1>0, <3>1, CompactedIs
    <3> QED BY <3>2
  <2>3. h[k - 1].kind # "marker"
    <3>1. h[k - 1].kind = "marker" => h[(k - 1) + 1].kind = "summary"
      BY <1>0 DEF Formed
    <3>2. (k - 1) + 1 = k
      BY <1>0
    <3> QED BY <3>1, <3>2, <1>4
  <2>4. /\ Len(g) = k - 1
        /\ \A i \in 1..(k - 1) :
             /\ Alike(g[i], h[i])
             /\ g[i].compacted => \E j \in 1..(k - 1) : h[j].kind = "summary" /\ i < h[j].tail
    BY <2>3 DEF Copied
  <2> HIDE DEF m, r
  <2>5. r \in Seq(Message) /\ Len(r) = k /\ r[k] = m /\ \A i \in 1..(k - 1) : r[i] = g[i]
    <3>1. /\ Append(g, m) \in Seq(Message) /\ Len(Append(g, m)) = Len(g) + 1
          /\ \A i \in 1..Len(g) : Append(g, m)[i] = g[i]
          /\ Append(g, m)[Len(g) + 1] = m
      BY <1>1, <2>2
    <3>2. (k - 1) + 1 = k
      BY <1>0
    <3> QED BY <3>1, <3>2, <2>1, <2>4
  <2>6. ASSUME NEW i \in 1..k
        PROVE  /\ Alike(r[i], h[i])
               /\ r[i].compacted => \E j \in 1..k : h[j].kind = "summary" /\ i < h[j].tail
    <3>1. CASE i = k
      BY <3>1, <2>2, <2>5
    <3>2. CASE i # k
      <4>1. i \in 1..(k - 1)
        BY <3>2, <1>0
      <4>2. \A j \in 1..(k - 1) : j \in 1..k
        BY <1>0
      <4> QED BY <4>1, <4>2, <2>4, <2>5
    <3> QED BY <3>1, <3>2
  <2>7. h[k].kind # "marker"
    BY <1>4
  <2>8. Copied(h, k, r)
    BY <2>5, <2>6, <2>7 DEF Copied
  <2> QED BY <2>8 DEF r
<1> QED BY <1>2, <1>3, <1>4

\* The session of a turn has the messages of the peer at their places; what is compacted
\* there, a summary has taken up.
LEMMA SeedIs ==
  ASSUME NEW h \in Seq(Message), Formed(h)
  PROVE  /\ Marked(Seed(h), h)
         /\ \A i \in 1..Len(h) : Seed(h)[i].compacted =>
              \E j \in 1..Len(h) : h[j].kind = "summary" /\ i < h[j].tail
<1>0. Len(h) \in Nat /\ Len(h) >= 1
  BY DEF Formed
<1>1. PICK f : /\ f[0] = <<Msg("system", 0)>>
               /\ \A i \in 1..Len(h) : f[i] = Copy(f[i - 1], h[i])
               /\ Seed(h) = f[Len(h)]
  BY <1>0, SeedUnfolds
<1> DEFINE Good(k) == Copied(h, k, f[k])
           Bad == {k \in 1..Len(h) : ~Good(k)}
<1>2. Good(1)
  <2> DEFINE m == Msg("system", 0)
  <2>1. Alike(h[1], m) /\ h[1].kind = "system"
    <3>1. Alike(h[1], m)
      BY DEF Formed
    <3>2. m.kind = "system"
      BY DEF Msg
    <3> QED BY <3>1, <3>2 DEF Alike
  <2>2. m \in Message /\ ~m.compacted
    <3>1. "system" \in Kinds
      BY DEF Kinds
    <3>2. m \in Message
      BY <3>1, MsgIs
    <3>3. ~m.compacted
      BY DEF Msg
    <3> QED BY <3>2, <3>3
  <2> HIDE DEF m
  <2>3. f[0] = <<m>>
    BY <1>1 DEF m
  <2>4. f[1] = f[0]
    <3>1. 1 \in 1..Len(h)
      BY <1>0
    <3>2. f[1] = Copy(f[1 - 1], h[1])
      BY <1>1, <3>1
    <3>3. f[1] = Copy(f[0], h[1])
      BY <3>2
    <3>4. Copy(f[0], h[1]) = f[0]
      BY <2>1 DEF Copy
    <3> QED BY <3>3, <3>4
  <2>5. f[1] \in Seq(Message) /\ Len(f[1]) = 1 /\ f[1][1] = m
    BY <2>2, <2>3, <2>4
  <2>6. Alike(m, h[1])
    BY <2>1 DEF Alike
  <2> QED BY <2>1, <2>2, <2>5, <2>6 DEF Copied
<1>3. ASSUME Bad # {} PROVE FALSE
  <2>1. PICK n \in Bad : \A m \in Nat : m < n => m \notin Bad
    <3> HIDE DEF Bad
    <3>1. Bad \in SUBSET Nat
      BY <1>0 DEF Bad
    <3> QED BY <1>3, <3>1, Least
  <2>2. n \in 1..Len(h) /\ n # 1
    <3> HIDE DEF Good
    <3> QED BY <1>2
  <2>3. n \in 2..Len(h) /\ n - 1 \in 1..Len(h) /\ n - 1 \in Nat /\ n - 1 < n
    BY <2>2, <1>0
  <2>4. Good(n - 1)
    <3> HIDE DEF Good
    <3> QED BY <2>1, <2>3
  <2>5. Copied(h, n, Copy(f[n - 1], h[n]))
    BY <2>3, <2>4, CopyStep
  <2>6. Good(n)
    BY <2>2, <2>5, <1>1
  <2> HIDE DEF Good
  <2> QED BY <2>1, <2>6
<1>4. Good(Len(h))
  <2>1. Len(h) \in 1..Len(h)
    BY <1>0
  <2> HIDE DEF Good
  <2> QED BY <2>1, <1>3
<1>5. h[Len(h)].kind # "marker"
  <2>1. Len(h) \in 1..Len(h) /\ ~(Len(h) + 1 \in 1..Len(h))
    BY <1>0
  <2> QED BY <2>1 DEF Formed
<1>6. Copied(h, Len(h), Seed(h))
  BY <1>1, <1>4
<1>7. /\ Seed(h) \in Seq(Message) /\ Len(Seed(h)) = Len(h)
      /\ \A i \in 1..Len(h) :
           /\ Alike(Seed(h)[i], h[i])
           /\ Seed(h)[i].compacted => \E j \in 1..Len(h) : h[j].kind = "summary" /\ i < h[j].tail
  BY <1>5, <1>6 DEF Copied
<1> QED BY <1>7 DEF Marked

-----------------------------------------------------------------------------
(* The context of a request.                                                *)

\* The places a request takes its messages from: with a summary, the system message, the
\* marker, the summary, and its tail.
TailOf(h) == (h[LastSummary(h)].tail..Len(h)) \ {LastSummary(h) - 1, LastSummary(h)}
Places(h) ==
  IF LastSummary(h) = 0 THEN [k \in 1..Len(h) |-> k]
  ELSE <<1, LastSummary(h) - 1, LastSummary(h)>> \o Ordered(TailOf(h))

\* The last summary is one, and none is behind it.
LEMMA LastSummaryIs ==
  ASSUME NEW h \in Seq(Message)
  PROVE  LET s == LastSummary(h) IN
         /\ s \in 0..Len(h)
         /\ s # 0 => h[s].kind = "summary"
         /\ \A i \in 1..Len(h) : h[i].kind = "summary" => i <= s /\ s # 0
<1> DEFINE S == {i \in DOMAIN h : IsSummary(h[i])}
<1>1. LastSummary(h) = Latest(S)
  BY DEF LastSummary
<1>2. Len(h) \in Nat /\ S \in SUBSET (1..Len(h))
  OBVIOUS
<1>3. \A i \in 1..Len(h) : i \in S <=> h[i].kind = "summary"
  BY DEF IsSummary
<1> HIDE DEF S
<1>4. /\ Latest(S) \in 0..Len(h)
      /\ S = {} <=> Latest(S) = 0
      /\ S # {} => Latest(S) \in S
      /\ \A x \in S : x <= Latest(S)
  BY <1>2, LatestIs
<1>5. \A i \in 1..Len(h) : h[i].kind = "summary" => i <= Latest(S) /\ Latest(S) # 0
  BY <1>3, <1>4
<1>6. Latest(S) # 0 => h[Latest(S)].kind = "summary"
  BY <1>2, <1>3, <1>4
<1> QED BY <1>1, <1>4, <1>5, <1>6

\* What FilterCompacted leaves of a well-formed history: marker, summary, and the tail.
LEMMA FilterIs ==
  ASSUME NEW h \in Seq(Message), Formed(h)
  PROVE  LET s == LastSummary(h) IN
         FilterCompacted(h) = IF s = 0 THEN h
                              ELSE <<h[s - 1], h[s]>> \o At(h, TailOf(h))
<1> DEFINE s == LastSummary(h)
           U == {i \in 1..s : IsUser(h[i])}
           u == Latest(U)
           tail == IF h[s].tail \in 2..Len(h) THEN h[s].tail ELSE u + 1
<1>1. FilterCompacted(h) = IF s = 0 \/ u = 0 THEN h
                           ELSE <<h[u], h[s]>> \o At(h, (tail..Len(h)) \ {u, s})
  BY DEF FilterCompacted
<1>2. CASE s = 0
  BY <1>1, <1>2
<1>3. CASE s # 0
  <2>1. s \in 1..Len(h) /\ h[s].kind = "summary" /\ Len(h) \in Nat
    BY <1>3, LastSummaryIs
  <2>2. h[s].tail \in 2..(s - 2) /\ h[s - 1].kind = "marker"
    BY <2>1 DEF Formed
  <2>3. tail = h[s].tail
    <3> HIDE DEF s, u
    <3>1. h[s].tail \in 2..Len(h)
      BY <2>1, <2>2
    <3> QED BY <3>1
  <2>4. u = s - 1
    <3>1. s - 1 \in U
      <4>1. s - 1 \in 1..s
        BY <2>1, <2>2
      <4> QED BY <4>1, <2>2 DEF IsUser, UserKinds
    <3>2. s \notin U
      BY <2>1 DEF IsUser, UserKinds
    <3>3. U \in SUBSET (1..s) /\ s \in Nat
      BY <2>1
    <3> HIDE DEF U, s
    <3>4. Latest(U) \in U /\ \A x \in U : x <= Latest(U)
      <4>1. U # {}
        BY <3>1
      <4> QED BY <3>3, <4>1, LatestIs
    <3>5. Latest(U) \in 1..s /\ Latest(U) # s /\ s - 1 <= Latest(U)
      BY <3>1, <3>2, <3>3, <3>4
    <3> QED BY <3>3, <3>5
  <2>5. u # 0
    BY <2>1, <2>2, <2>4
  <2> HIDE DEF s, u, tail
  <2>6. FilterCompacted(h) = <<h[s - 1], h[s]>> \o At(h, (h[s].tail..Len(h)) \ {s - 1, s})
    BY <1>1, <1>3, <2>3, <2>4, <2>5
  <2> QED BY <1>3, <2>6 DEF TailOf, s
<1> QED BY <1>2, <1>3

\* Where the tail of the last summary lies.
LEMMA TailIs ==
  ASSUME NEW h \in Seq(Message), Formed(h), LastSummary(h) # 0
  PROVE  LET s == LastSummary(h) IN
         /\ s \in 4..Len(h) /\ h[s].tail \in 2..(s - 2) /\ ~IsTool(h[h[s].tail])
         /\ h[s - 1].kind = "marker" /\ h[s].kind = "summary"
         /\ TailOf(h) \in SUBSET (2..Len(h)) /\ TailOf(h) \in SUBSET DOMAIN h
         /\ \A i \in 1..Len(h) : i \in TailOf(h) <=> i >= h[s].tail /\ i \notin {s - 1, s}
<1> DEFINE s == LastSummary(h)
<1>1. s \in 1..Len(h) /\ h[s].kind = "summary" /\ Len(h) \in Nat
  BY LastSummaryIs
<1>2. h[s].tail \in 2..(s - 2) /\ h[s - 1].kind = "marker" /\ ~IsTool(h[h[s].tail])
  BY <1>1 DEF Formed
<1>3. TailOf(h) = (h[s].tail..Len(h)) \ {s - 1, s}
  BY DEF TailOf
<1> HIDE DEF s
<1>4. s \in 4..Len(h)
  BY <1>1, <1>2
<1>5. TailOf(h) \in SUBSET (2..Len(h))
  BY <1>1, <1>2, <1>3
<1>6. TailOf(h) \in SUBSET DOMAIN h
  BY <1>1, <1>5
<1>7. \A i \in 1..Len(h) : i \in TailOf(h) <=> i >= h[s].tail /\ i \notin {s - 1, s}
  BY <1>1, <1>2, <1>3
<1> QED BY <1>1, <1>2, <1>4, <1>5, <1>6, <1>7 DEF s

\* Of nothing nothing is taken.
LEMMA NothingIsAt == At(<<>>, {}) = <<>> /\ Ordered({}) = <<>>
<1>1. {} \in SUBSET (1..0) /\ 0 \in Nat
  OBVIOUS
<1>2. Lists(Ordered({}), {})
  BY <1>1, OrderedIs
<1>3. Ordered({}) \in Seq({})
  BY <1>2 DEF Lists
<1>4. Ordered({}) = <<>>
  BY <1>3
<1> QED BY <1>4 DEF At

\* Without pinned prompts the context is the system message and what the filter leaves.
LEMMA ContextIs ==
  ASSUME NEW h \in Seq(Message), Formed(h)
  PROVE  LET s == LastSummary(h) IN
         ContextMessages(h, <<>>) = IF s = 0 THEN h
                                    ELSE <<h[1]>> \o (<<h[s - 1], h[s]>> \o At(h, TailOf(h)))
<1> DEFINE f == FilterCompacted(h)
           v == IF f # h /\ h[1].kind = "system" THEN <<h[1]>> \o f ELSE f
           k == IF v # <<>> /\ v[1].kind = "system" THEN 1 ELSE Len(v)
           s == LastSummary(h)
           pins == <<>>
           P == {j \in DOMAIN pins : \A i \in DOMAIN v : v[i].n # pins[j].n}
<1>1. ContextMessages(h, <<>>) = SubSeq(v, 1, k) \o At(pins, P) \o SubSeq(v, k + 1, Len(v))
  BY DEF ContextMessages
<1>2. P = {}
  OBVIOUS
<1>3. At(pins, P) = <<>>
  BY <1>2, NothingIsAt
<1>4. h[1].kind = "system" /\ Len(h) \in Nat /\ Len(h) >= 1 /\ h[1] \in Message
  <2>1. h[1].kind = "system"
    BY DEF Formed, Alike, Msg
  <2> QED BY <2>1 DEF Formed
<1>5. v \in Seq(Message) /\ v = IF s = 0 THEN h
                                ELSE <<h[1]>> \o (<<h[s - 1], h[s]>> \o At(h, TailOf(h)))
  <2>1. CASE s = 0
    <3>1. f = h
      BY <2>1, FilterIs
    <3> QED BY <2>1, <3>1
  <2>2. CASE s # 0
    <3>1. f = <<h[s - 1], h[s]>> \o At(h, TailOf(h))
      BY <2>2, FilterIs
    <3>2. /\ s \in 4..Len(h) /\ h[s - 1].kind = "marker"
          /\ TailOf(h) \in SUBSET DOMAIN h
      BY <2>2, TailIs
    <3>3. At(h, TailOf(h)) \in Seq(Message)
      BY <3>2, AtIs
    <3>4. h[s - 1] \in Message /\ h[s] \in Message
      BY <3>2, <1>4
    <3> HIDE DEF s, f
    <3>5. f \in Seq(Message) /\ f[1] = h[s - 1]
      <4> DEFINE a == At(h, TailOf(h))
                 x == h[s - 1]
                 y == h[s]
      <4>1. a \in Seq(Message) /\ x \in Message /\ y \in Message /\ f = <<x, y>> \o a
        BY <3>1, <3>3, <3>4
      <4> HIDE DEF a, x, y
      <4>2. f \in Seq(Message) /\ f[1] = x
        BY <4>1
      <4> QED BY <4>2 DEF x
    <3>6. f # h
      BY <3>2, <3>5, <1>4
    <3>7. v = <<h[1]>> \o f
      BY <3>6, <1>4
    <3>8. <<h[1]>> \o f \in Seq(Message)
      <4> DEFINE x == h[1]
      <4>1. x \in Message
        BY <1>4
      <4> HIDE DEF x
      <4>2. <<x>> \o f \in Seq(Message)
        BY <4>1, <3>5
      <4> QED BY <4>2 DEF x
    <3> QED BY <2>2, <3>1, <3>7, <3>8 DEF s
  <2> QED BY <2>1, <2>2
<1>6. k \in 0..Len(v) /\ Len(v) \in Nat
  <2> HIDE DEF v
  <2>1. Len(v) \in Nat
    BY <1>5
  <2>2. v # <<>> => Len(v) >= 1
    BY <1>5
  <2> QED BY <2>1, <2>2
<1>7. SubSeq(v, 1, k) \o <<>> \o SubSeq(v, k + 1, Len(v)) = v
  <2> HIDE DEF v, k
  <2> DEFINE a == SubSeq(v, 1, k)
             b == SubSeq(v, k + 1, Len(v))
  <2>1. v \in Seq(Message)
    BY <1>5
  <2>2. a \in Seq(Message) /\ Len(a) = k /\ \A i \in 1..k : a[i] = v[i]
    BY <1>6, <2>1
  <2>3. b \in Seq(Message) /\ Len(b) = Len(v) - k /\ \A i \in 1..Len(b) : b[i] = v[k + i]
    BY <1>6, <2>1
  <2> HIDE DEF a, b
  <2>4. a \o <<>> = a
    BY <2>2
  <2>5. /\ a \o b \in Seq(Message) /\ Len(a \o b) = Len(v)
        /\ \A i \in 1..Len(v) : (a \o b)[i] = v[i]
    <3>0. a \in Seq(Message) /\ b \in Seq(Message)
      BY <2>2, <2>3
    <3>1. a \o b \in Seq(Message)
      BY <3>0, Joined
    <3>2. Len(a \o b) = Len(a) + Len(b)
      BY <3>0, Joined
    <3>3. Len(a \o b) = Len(v)
      BY <3>2, <2>2, <2>3, <1>6
    <3>4. \A i \in 1..Len(a) : (a \o b)[i] = a[i]
      BY <3>0, Joined
    <3>5. \A i \in 1..Len(a \o b) : i > Len(a) =>
            i - Len(a) \in 1..Len(b) /\ (a \o b)[i] = b[i - Len(a)]
      BY <3>0, Joined
    <3>6. ASSUME NEW i \in 1..Len(v) PROVE (a \o b)[i] = v[i]
      <4>1. CASE i <= k
        <5>1. i \in 1..k /\ i \in 1..Len(a)
          BY <4>1, <2>2, <1>6
        <5> QED BY <5>1, <3>4, <2>2
      <4>2. CASE ~(i <= k)
        <5>1. i - k \in 1..Len(b) /\ (a \o b)[i] = b[i - k]
          BY <4>2, <3>3, <3>5, <2>2, <1>6
        <5>2. k + (i - k) = i
          BY <1>6
        <5> QED BY <5>1, <5>2, <2>3
      <4> QED BY <4>1, <4>2
    <3> QED BY <3>1, <3>3, <3>6
  <2>6. a \o b = v
    BY <2>1, <2>5, SeqEqual
  <2> QED BY <2>4, <2>6 DEF a, b
<1> QED BY <1>1, <1>3, <1>5, <1>7

\* A tool result stands behind a call or another result.
Placed(h) ==
  \A i \in 1..Len(h) : IsTool(h[i]) => i > 1 /\ (h[i - 1].kind = "calls" \/ IsTool(h[i - 1]))

\* Three messages in front of a sequence.
LEMMA ThreePrefixed ==
  ASSUME NEW M, NEW x \in M, NEW y \in M, NEW z \in M, NEW rest \in Seq(M)
  PROVE  LET l == <<x, y, z>> \o rest IN
         /\ l \in Seq(M) /\ Len(l) = Len(rest) + 3 /\ Len(rest) \in Nat
         /\ l[1] = x /\ l[2] = y /\ l[3] = z
         /\ \A k \in 4..Len(l) : k - 3 \in 1..Len(rest) /\ l[k] = rest[k - 3]
         /\ \A k \in 1..Len(rest) : k + 3 \in 4..Len(l) /\ l[k + 3] = rest[k]
<1> DEFINE p == <<x, y, z>>
           l == p \o rest
<1>1. p \in Seq(M) /\ Len(p) = 3 /\ p[1] = x /\ p[2] = y /\ p[3] = z
  OBVIOUS
<1> HIDE DEF p
<1>2. /\ l \in Seq(M) /\ Len(l) = Len(p) + Len(rest) /\ Len(rest) \in Nat
      /\ \A i \in 1..(Len(p) + Len(rest)) : l[i] = IF i <= Len(p) THEN p[i] ELSE rest[i - Len(p)]
  <2>1. l \in Seq(M)
    BY <1>1, ConcatProperties
  <2>2. Len(l) = Len(p) + Len(rest)
    BY <1>1, ConcatProperties
  <2>4. Len(rest) \in Nat
    OBVIOUS
  <2>3. \A i \in 1..(Len(p) + Len(rest)) : l[i] = IF i <= Len(p) THEN p[i] ELSE rest[i - Len(p)]
    BY <1>1, ConcatProperties
  <2> QED BY <2>1, <2>2, <2>3, <2>4
<1> HIDE DEF l
<1>3. Len(l) = Len(rest) + 3 /\ \A i \in 1..Len(l) : l[i] = IF i <= 3 THEN p[i] ELSE rest[i - 3]
  BY <1>1, <1>2
<1>4. l[1] = x /\ l[2] = y /\ l[3] = z
  BY <1>1, <1>2, <1>3
<1>5. \A k \in 4..Len(l) : k - 3 \in 1..Len(rest) /\ l[k] = rest[k - 3]
  BY <1>2, <1>3
<1>6. \A k \in 1..Len(rest) : k + 3 \in 4..Len(l) /\ l[k + 3] = rest[k]
  BY <1>2, <1>3
<1> QED BY <1>2, <1>3, <1>4, <1>5, <1>6 DEF l, p

\* The context is h at the indices Places(h), each once, the tail complete; behind a call or
\* a result in h its results follow in the context, too.
LEMMA PlacesAre ==
  ASSUME NEW h \in Seq(Message), Formed(h)
  PROVE  LET o == Places(h)
             v == ContextMessages(h, <<>>)
             s == LastSummary(h) IN
         /\ o \in Seq(1..Len(h)) /\ v \in Seq(Message) /\ Len(v) = Len(o) /\ Len(o) \in Nat
         /\ \A k \in 1..Len(o) : o[k] \in 1..Len(h) /\ v[k] = h[o[k]]
         /\ \A i, j \in 1..Len(o) : o[i] = o[j] => i = j
         /\ \A i \in 1..Len(h) : (s = 0 \/ i >= h[s].tail) => \E k \in 1..Len(o) : o[k] = i
         /\ Placed(h) => \A k \in 1..Len(o) : IsTool(h[o[k]]) => k > 1 /\ o[k - 1] = o[k] - 1
<1> DEFINE o == Places(h)
           v == ContextMessages(h, <<>>)
           s == LastSummary(h)
           Goal == /\ o \in Seq(1..Len(h)) /\ v \in Seq(Message) /\ Len(v) = Len(o) /\ Len(o) \in Nat
                   /\ \A k \in 1..Len(o) : o[k] \in 1..Len(h) /\ v[k] = h[o[k]]
                   /\ \A i, j \in 1..Len(o) : o[i] = o[j] => i = j
                   /\ \A i \in 1..Len(h) :
                        (s = 0 \/ i >= h[s].tail) => \E k \in 1..Len(o) : o[k] = i
                   /\ Placed(h) => \A k \in 1..Len(o) :
                                     IsTool(h[o[k]]) => k > 1 /\ o[k - 1] = o[k] - 1
<1> SUFFICES Goal
  OBVIOUS
<1>0. Len(h) \in Nat /\ Len(h) >= 1 /\ h[1].kind = "system"
      /\ \A i \in 1..Len(h) : h[i] \in Message
  <2>1. h[1].kind = "system"
    BY DEF Formed, Alike, Msg
  <2> QED BY <2>1 DEF Formed
<1>1. CASE s = 0
  <2>1. v = h /\ o = [k \in 1..Len(h) |-> k]
    BY <1>1, ContextIs DEF Places
  <2> HIDE DEF v, o, s
  <2>2. o \in Seq(1..Len(h)) /\ Len(o) = Len(h) /\ \A k \in 1..Len(o) : o[k] = k
    BY <2>1, <1>0
  <2>3. \A i \in 1..Len(h) : \E k \in 1..Len(o) : o[k] = i
    BY <2>2
  <2>4. Placed(h) => \A k \in 1..Len(o) : IsTool(h[o[k]]) => k > 1 /\ o[k - 1] = o[k] - 1
    <3> HAVE Placed(h)
    <3> TAKE k \in 1..Len(o)
    <3> HAVE IsTool(h[o[k]])
    <3>1. k > 1
      BY <2>2 DEF Placed
    <3>2. k - 1 \in 1..Len(o) /\ k \in 1..Len(o)
      <4>1. Len(o) \in Nat
        BY <2>2, <1>0
      <4> QED BY <3>1, <4>1
    <3> QED BY <3>1, <3>2, <2>2
  <2> QED BY <1>0, <2>1, <2>2, <2>3, <2>4
<1>2. CASE s # 0
  <2> DEFINE T == TailOf(h)
             w == Ordered(T)
             a == At(h, T)
             x == h[1]
             y == h[s - 1]
             z == h[s]
  <2>1. /\ s \in 4..Len(h) /\ h[s].tail \in 2..(s - 2) /\ ~IsTool(h[h[s].tail])
        /\ h[s - 1].kind = "marker" /\ h[s].kind = "summary"
        /\ T \in SUBSET (2..Len(h)) /\ T \in SUBSET DOMAIN h
        /\ \A i \in 1..Len(h) : i \in T <=> i >= h[s].tail /\ i \notin {s - 1, s}
    BY <1>2, TailIs
  <2>2. /\ Lists(w, T) /\ Len(w) \in Nat /\ DOMAIN w = 1..Len(w)
        /\ a \in Seq(Message) /\ Len(a) = Len(w)
        /\ \A k \in 1..Len(w) : w[k] \in DOMAIN h /\ a[k] = h[w[k]]
    BY <2>1, AtIs
  <2>3. o = <<1, s - 1, s>> \o w /\ v = <<x>> \o (<<y, z>> \o a)
    BY <1>2, ContextIs DEF Places
  <2>4. x \in Message /\ y \in Message /\ z \in Message
    BY <2>1, <1>0
  <2>5. \A i \in 1..Len(h) : i \in T => w # <<>> /\ \E k \in 1..Len(w) : w[k] = i
    BY <2>2 DEF Lists
  <2>6. \A k \in 1..Len(w) : w[k] \in T
    <3> HIDE DEF w, T
    <3>1. w \in Seq(T)
      BY <2>2 DEF Lists
    <3> QED BY <3>1, ElementOfSeq
  <2>7. \A k \in 1..Len(w) : w[k] - 1 \in T => k > 1 /\ k - 1 \in 1..Len(w) /\ w[k - 1] = w[k] - 1
    <3> HIDE DEF w, T
    <3>1. T \in SUBSET Nat
      BY <2>1
    <3>2. Lists(w, T)
      BY <2>2
    <3> QED BY <3>1, <3>2, Neighbours
  <2>8. \A i, j \in 1..Len(w) : w[i] = w[j] => i = j
    <3>1. \A i, j \in 1..Len(w) : i < j => w[i] < w[j]
      BY <2>2 DEF Lists
    <3>2. \A k \in 1..Len(w) : w[k] \in Nat
      BY <2>1, <2>6
    <3> HIDE DEF w
    <3> QED BY <3>1, <3>2, <2>2
  <2>9. w \in Seq(1..Len(h))
    <3>1. w \in Seq(T)
      BY <2>2 DEF Lists
    <3>2. T \subseteq 1..Len(h)
      BY <2>1, <1>0
    <3> HIDE DEF w, T
    <3> QED BY <3>1, <3>2, SeqMonotonic
  <2>10. 1 \in 1..Len(h) /\ s - 1 \in 1..Len(h) /\ s \in 1..Len(h)
    BY <2>1, <1>0
  <2>11. <<x>> \o (<<y, z>> \o a) = <<x, y, z>> \o a
    <3> HIDE DEF x, y, z, a
    <3> QED BY <2>2, <2>4
  <2> HIDE DEF v, o, s, T, w, a, x, y, z
  <2>12. /\ o \in Seq(1..Len(h)) /\ Len(o) = Len(w) + 3
         /\ o[1] = 1 /\ o[2] = s - 1 /\ o[3] = s
         /\ \A k \in 4..Len(o) : k - 3 \in 1..Len(w) /\ o[k] = w[k - 3]
         /\ \A k \in 1..Len(w) : k + 3 \in 4..Len(o) /\ o[k + 3] = w[k]
    BY <2>3, <2>9, <2>10, ThreePrefixed
  <2>13. /\ v \in Seq(Message) /\ Len(v) = Len(a) + 3
         /\ v[1] = x /\ v[2] = y /\ v[3] = z
         /\ \A k \in 4..Len(v) : k - 3 \in 1..Len(a) /\ v[k] = a[k - 3]
    BY <2>2, <2>3, <2>4, <2>11, ThreePrefixed
  <2>14. \A k \in 1..Len(o) : k \in 4..Len(o) \/ k = 1 \/ k = 2 \/ k = 3
    BY <2>2, <2>12
  <2>15. ASSUME NEW k \in 1..Len(o) PROVE o[k] \in 1..Len(h) /\ v[k] = h[o[k]]
    <3>1. CASE k \in 4..Len(o)
      <4>1. k - 3 \in 1..Len(w) /\ o[k] = w[k - 3]
        BY <3>1, <2>12
      <4>2. v[k] = a[k - 3]
        BY <3>1, <2>2, <2>12, <2>13
      <4> QED BY <4>1, <4>2, <2>2
    <3>2. CASE k = 1
      BY <3>2, <2>10, <2>12, <2>13 DEF x
    <3>3. CASE k = 2
      BY <3>3, <2>10, <2>12, <2>13 DEF y
    <3>4. CASE k = 3
      BY <3>4, <2>10, <2>12, <2>13 DEF z
    <3> QED BY <3>1, <3>2, <3>3, <3>4, <2>14
  <2>16. \A k \in 4..Len(o) : o[k] \notin {1, s - 1, s}
    <3> TAKE k \in 4..Len(o)
    <3>1. k - 3 \in 1..Len(w) /\ o[k] = w[k - 3]
      BY <2>12
    <3>2. o[k] \in T
      BY <3>1, <2>6
    <3> QED BY <3>2, <2>1, <1>0
  <2>17. ASSUME NEW i \in 1..Len(o), NEW j \in 1..Len(o), o[i] = o[j] PROVE i = j
    <3>1. CASE i \in 4..Len(o) /\ j \in 4..Len(o)
      <4>1. i - 3 \in 1..Len(w) /\ j - 3 \in 1..Len(w) /\ w[i - 3] = w[j - 3]
        BY <3>1, <2>12, <2>17
      <4>2. i - 3 = j - 3
        BY <4>1, <2>8
      <4> QED BY <4>2, <3>1, <2>2, <2>12
    <3>2. CASE i \in 4..Len(o) /\ j \in {1, 2, 3}
      BY <3>2, <2>12, <2>16, <2>17
    <3>3. CASE i \in {1, 2, 3} /\ j \in 4..Len(o)
      BY <3>3, <2>12, <2>16, <2>17
    <3>4. CASE i \in {1, 2, 3} /\ j \in {1, 2, 3}
      <4>1. s \in Nat /\ s >= 4
        BY <2>1
      <4> QED BY <3>4, <4>1, <2>12, <2>17
    <3> QED BY <3>1, <3>2, <3>3, <3>4, <2>14
  <2>18. ASSUME NEW i \in 1..Len(h), i >= h[s].tail PROVE \E k \in 1..Len(o) : o[k] = i
    <3>1. CASE i = s
      <4>1. 3 \in 1..Len(o)
        BY <2>2, <2>12
      <4> QED BY <3>1, <4>1, <2>12
    <3>2. CASE i = s - 1
      <4>1. 2 \in 1..Len(o)
        BY <2>2, <2>12
      <4> QED BY <3>2, <4>1, <2>12
    <3>3. CASE i \notin {s - 1, s}
      <4>1. i \in T
        BY <3>3, <2>1, <2>18
      <4>2. PICK k \in 1..Len(w) : w[k] = i
        BY <4>1, <2>5
      <4>3. k + 3 \in 4..Len(o) /\ o[k + 3] = i
        BY <4>2, <2>12
      <4>4. k + 3 \in 1..Len(o)
        BY <4>3
      <4> QED BY <4>3, <4>4
    <3> QED BY <3>1, <3>2, <3>3
  <2>19. ASSUME Placed(h), NEW k \in 1..Len(o), IsTool(h[o[k]])
         PROVE  k > 1 /\ o[k - 1] = o[k] - 1
    <3>1. k \in 4..Len(o)
      <4>1. ~IsTool(h[1]) /\ ~IsTool(h[s - 1]) /\ ~IsTool(h[s])
        BY <1>0, <2>1 DEF IsTool, ToolKinds
      <4> QED BY <4>1, <2>12, <2>14, <2>19
    <3>2. k - 3 \in 1..Len(w) /\ o[k] = w[k - 3] /\ o[k] \in T /\ o[k] \in 1..Len(h)
      BY <3>1, <2>6, <2>12, <2>15
    <3>3. o[k] >= h[s].tail /\ o[k] # h[s].tail
      BY <3>2, <2>1, <2>19
    <3>4. o[k] > 1 /\ (h[o[k] - 1].kind = "calls" \/ IsTool(h[o[k] - 1]))
      BY <3>2, <2>19 DEF Placed
    <3>5. o[k] - 1 \notin {s - 1, s}
      BY <3>4, <2>1 DEF IsTool, ToolKinds
    <3>6. o[k] - 1 \in 1..Len(h) /\ o[k] - 1 >= h[s].tail
      <4>1. o[k] \in Nat /\ o[k] <= Len(h) /\ o[k] > 1
        BY <3>2, <3>4, <1>0
      <4>2. h[s].tail \in Nat
        BY <2>1
      <4> QED BY <4>1, <4>2, <3>3, <1>0
    <3>7. w[k - 3] - 1 \in T
      BY <3>2, <3>5, <3>6, <2>1
    <3>8. (k - 3) > 1 /\ (k - 3) - 1 \in 1..Len(w) /\ w[(k - 3) - 1] = w[k - 3] - 1
      BY <3>2, <3>7, <2>7
    <3>9. k - 1 \in 4..Len(o) /\ (k - 1) - 3 = (k - 3) - 1
      BY <3>1, <3>8
    <3>10. o[k - 1] = w[(k - 3) - 1]
      BY <3>9, <2>12
    <3> QED BY <3>1, <3>2, <3>8, <3>10
  <2>20. Len(v) = Len(o) /\ Len(o) \in Nat
    BY <2>2, <2>12, <2>13
  <2> QED BY <1>2, <2>12, <2>13, <2>15, <2>17, <2>18, <2>19, <2>20
<1> QED BY <1>1, <1>2

\* Cutting results short changes sizes only.
LEMMA CutShortIs ==
  ASSUME NEW ms \in Seq(Message)
  PROVE  Marked(CutShort(ms), ms)
<1> DEFINE g == CutShort(ms)
<1>1. Len(ms) \in Nat /\ DOMAIN ms = 1..Len(ms) /\ \A i \in 1..Len(ms) : ms[i] \in Message
  OBVIOUS
<1>2. ToolCap \in Nat
  BY TranscriptAssumption
<1>3. /\ \A i \in 1..Len(ms) :
           g[i] = IF IsTool(ms[i]) /\ ms[i].size > ToolCap
                  THEN [ms[i] EXCEPT !.size = ToolCap] ELSE ms[i]
      /\ g = [i \in 1..Len(ms) |-> g[i]]
  BY <1>1 DEF CutShort
<1> HIDE DEF g
<1>4. \A m \in Message :
        [m EXCEPT !.size = ToolCap] \in Message /\ Alike([m EXCEPT !.size = ToolCap], m)
  BY <1>2 DEF Message, Alike
<1>5. ASSUME NEW i \in 1..Len(ms) PROVE g[i] \in Message /\ Alike(g[i], ms[i])
  <2>1. ms[i] \in Message
    BY <1>1
  <2>2. Alike(ms[i], ms[i])
    BY DEF Alike
  <2>3. g[i] = [ms[i] EXCEPT !.size = ToolCap] \/ g[i] = ms[i]
    BY <1>3
  <2> QED BY <2>1, <2>2, <2>3, <1>4
<1>6. g \in Seq(Message) /\ Len(g) = Len(ms)
  BY <1>1, <1>3, <1>5
<1> QED BY <1>5, <1>6 DEF Marked, g

\* What a request is made of before unanswered calls are answered, and where it comes from.
Bare(h) == CutShort(WithoutMarkers(ContextMessages(h, <<>>)))
Unmarked(h) == {k \in DOMAIN Places(h) : h[Places(h)[k]].kind # "marker"}
Sent(h) == At(Places(h), Unmarked(h))

\* So is what is sent, before the repair, without the markers: h at the indices Sent(h).
LEMMA SentIs ==
  ASSUME NEW h \in Seq(Message), Formed(h)
  PROVE  LET o == Sent(h)
             q == Bare(h)
             s == LastSummary(h) IN
         /\ o \in Seq(1..Len(h)) /\ q \in Seq(Message) /\ Len(q) = Len(o) /\ Len(o) \in Nat
         /\ \A k \in 1..Len(o) : o[k] \in 1..Len(h) /\ Alike(q[k], h[o[k]])
         /\ \A i, j \in 1..Len(o) : o[i] = o[j] => i = j
         /\ \A i \in 1..Len(h) : h[i].kind # "marker" /\ (s = 0 \/ i >= h[s].tail) =>
              \E k \in 1..Len(o) : o[k] = i
         /\ Placed(h) => \A k \in 1..Len(o) : IsTool(q[k]) => k > 1 /\ o[k - 1] = o[k] - 1
<1> DEFINE o == Sent(h)
           q == Bare(h)
           s == LastSummary(h)
           P == Places(h)
           v == ContextMessages(h, <<>>)
           M == Unmarked(h)
           w == Ordered(M)
           Goal == /\ o \in Seq(1..Len(h)) /\ q \in Seq(Message) /\ Len(q) = Len(o) /\ Len(o) \in Nat
                   /\ \A k \in 1..Len(o) : o[k] \in 1..Len(h) /\ Alike(q[k], h[o[k]])
                   /\ \A i, j \in 1..Len(o) : o[i] = o[j] => i = j
                   /\ \A i \in 1..Len(h) : h[i].kind # "marker" /\ (s = 0 \/ i >= h[s].tail) =>
                        \E k \in 1..Len(o) : o[k] = i
                   /\ Placed(h) => \A k \in 1..Len(o) :
                        IsTool(q[k]) => k > 1 /\ o[k - 1] = o[k] - 1
<1> SUFFICES Goal
  OBVIOUS
<1>1. /\ P \in Seq(1..Len(h)) /\ v \in Seq(Message) /\ Len(v) = Len(P) /\ Len(P) \in Nat
      /\ \A k \in 1..Len(P) : P[k] \in 1..Len(h) /\ v[k] = h[P[k]]
      /\ \A i, j \in 1..Len(P) : P[i] = P[j] => i = j
      /\ \A i \in 1..Len(h) : (s = 0 \/ i >= h[s].tail) => \E k \in 1..Len(P) : P[k] = i
      /\ Placed(h) => \A k \in 1..Len(P) : IsTool(h[P[k]]) => k > 1 /\ P[k - 1] = P[k] - 1
  BY PlacesAre
<1>2. M = {k \in DOMAIN P : h[P[k]].kind # "marker"}
  BY DEF Unmarked
<1>3. q = CutShort(At(v, {i \in DOMAIN v : v[i].kind # "marker"})) /\ o = At(P, M)
  BY DEF Bare, WithoutMarkers, Sent
<1> HIDE DEF o, q, s, P, v, M
<1>4. DOMAIN P = 1..Len(P) /\ DOMAIN v = 1..Len(P) /\ M \in SUBSET DOMAIN P
  BY <1>1, <1>2
<1>5. {i \in DOMAIN v : v[i].kind # "marker"} = M
  BY <1>1, <1>2, <1>4
<1>6. /\ Lists(w, M) /\ Len(w) \in Nat /\ DOMAIN w = 1..Len(w)
      /\ o \in Seq(1..Len(h)) /\ Len(o) = Len(w)
      /\ \A k \in 1..Len(w) : w[k] \in DOMAIN P /\ o[k] = P[w[k]]
  BY <1>1, <1>3, <1>4, AtIs
<1> DEFINE a == At(v, M)
<1>7. /\ a \in Seq(Message) /\ Len(a) = Len(w)
      /\ \A k \in 1..Len(w) : a[k] = v[w[k]]
  BY <1>1, <1>4, AtIs
<1>8. q = CutShort(a)
  BY <1>3, <1>5
<1> HIDE DEF a
<1>9. q \in Seq(Message) /\ Len(q) = Len(a) /\ \A k \in 1..Len(a) : Alike(q[k], a[k])
  BY <1>7, <1>8, CutShortIs DEF Marked
<1>10. /\ \A k \in 1..Len(w) : w[k] \in M
       /\ \A i, j \in 1..Len(w) : i < j => w[i] < w[j]
       /\ \A x \in M : \E k \in 1..Len(w) : w[k] = x
  <2> HIDE DEF w
  <2>1. w \in Seq(M)
    BY <1>6 DEF Lists
  <2>2. \A k \in 1..Len(w) : w[k] \in M
    BY <2>1, ElementOfSeq
  <2> QED BY <2>2, <1>6 DEF Lists
<1>11. \A k \in 1..Len(w) : w[k] - 1 \in M => k > 1 /\ k - 1 \in 1..Len(w) /\ w[k - 1] = w[k] - 1
  <2>1. M \in SUBSET Nat
    BY <1>4
  <2> HIDE DEF w
  <2> QED BY <2>1, <1>6, Neighbours
<1> HIDE DEF w
<1>12. \A k \in 1..Len(w) : w[k] \in 1..Len(P) /\ w[k] \in Nat
  BY <1>4, <1>6
<1>13. \A k \in 1..Len(o) : o[k] \in 1..Len(h) /\ Alike(q[k], h[o[k]])
  BY <1>1, <1>6, <1>7, <1>9, <1>12
<1>14. ASSUME NEW i \in 1..Len(o), NEW j \in 1..Len(o), o[i] = o[j] PROVE i = j
  <2>1. w[i] = w[j]
    BY <1>1, <1>6, <1>12, <1>14
  <2>2. i \in Nat /\ j \in Nat /\ i \in 1..Len(w) /\ j \in 1..Len(w)
    BY <1>6
  <2>3. ~(i < j) /\ ~(j < i)
    BY <2>1, <2>2, <1>10, <1>12
  <2> QED BY <2>2, <2>3
<1>15. ASSUME NEW i \in 1..Len(h), h[i].kind # "marker" /\ (s = 0 \/ i >= h[s].tail)
       PROVE  \E k \in 1..Len(o) : o[k] = i
  <2>1. PICK k \in 1..Len(P) : P[k] = i
    BY <1>1, <1>15
  <2>2. k \in M
    BY <2>1, <1>2, <1>4, <1>15
  <2>3. PICK l \in 1..Len(w) : w[l] = k
    BY <2>2, <1>10
  <2> QED BY <2>1, <2>3, <1>6
<1>16. ASSUME Placed(h), NEW k \in 1..Len(o), IsTool(q[k])
       PROVE  k > 1 /\ o[k - 1] = o[k] - 1
  <2>1. k \in 1..Len(w) /\ o[k] = P[w[k]] /\ w[k] \in 1..Len(P)
    BY <1>6, <1>12
  <2>2. IsTool(h[P[w[k]]])
    BY <2>1, <1>13, <1>16 DEF IsTool, Alike
  <2>3. w[k] > 1 /\ P[w[k] - 1] = P[w[k]] - 1
    BY <2>1, <2>2, <1>1, <1>16
  <2>4. P[w[k]] \in 1..Len(h)
    BY <2>1, <1>1
  <2>5. h[P[w[k]] - 1].kind # "marker"
    BY <2>2, <2>4, <1>16 DEF Placed, IsTool, ToolKinds
  <2>6. w[k] - 1 \in M
    <3>1. w[k] - 1 \in 1..Len(P)
      BY <2>1, <2>3, <1>1
    <3>2. h[P[w[k] - 1]].kind # "marker"
      BY <2>3, <2>5
    <3> QED BY <3>1, <3>2, <1>2, <1>4
  <2>7. k > 1 /\ k - 1 \in 1..Len(w) /\ w[k - 1] = w[k] - 1
    BY <2>1, <2>6, <1>11
  <2> QED BY <2>1, <2>3, <2>7, <1>6
<1>17. Len(q) = Len(o) /\ Len(o) \in Nat
  BY <1>6, <1>7, <1>9
<1> QED BY <1>6, <1>9, <1>13, <1>14, <1>15, <1>16, <1>17

-----------------------------------------------------------------------------
(* Results behind their calls.                                              *)

\* Calls have identities of their own, a result stands among those behind the call it
\* answers, and no two answer the same.
Runs(h) ==
  /\ \A i \in 1..Len(h) : Len(h[i].calls) > 0 => h[i].kind = "calls"
  /\ \A i, j \in 1..Len(h) : \A k \in 1..Len(h[i].calls), l \in 1..Len(h[j].calls) :
       h[i].calls[k].id = h[j].calls[l].id => i = j /\ k = l
  /\ \A i \in 1..Len(h) : IsTool(h[i]) =>
       \E j \in 1..(i - 1) : /\ \E k \in 1..Len(h[j].calls) : h[i].id = h[j].calls[k].id
                             /\ \A l \in (j + 1)..i : IsTool(h[l])
  /\ \A i, j \in 1..Len(h) : IsTool(h[i]) /\ IsTool(h[j]) /\ h[i].id = h[j].id => i = j

\* Results that stand behind their calls stand behind a call or a result.
LEMMA RunsPlaced ==
  ASSUME NEW h \in Seq(Message), Runs(h)
  PROVE  Placed(h)
<1> SUFFICES ASSUME NEW i \in 1..Len(h), IsTool(h[i])
             PROVE  i > 1 /\ (h[i - 1].kind = "calls" \/ IsTool(h[i - 1]))
  BY DEF Placed
<1>1. PICK j \in 1..(i - 1) : /\ \E k \in 1..Len(h[j].calls) : h[i].id = h[j].calls[k].id
                              /\ \A l \in (j + 1)..i : IsTool(h[l])
  BY DEF Runs
<1>2. i \in Nat /\ i > 1 /\ j \in Nat /\ Len(h) \in Nat
  BY <1>1
<1>3. h[j].kind = "calls"
  <2>1. PICK k \in 1..Len(h[j].calls) : h[i].id = h[j].calls[k].id
    BY <1>1
  <2>2. j \in 1..Len(h) /\ h[j].calls \in Seq(CallOf)
    <3>1. j \in 1..Len(h)
      BY <1>1, <1>2
    <3>2. h[j] \in Message
      BY <3>1
    <3> QED BY <3>1, <3>2 DEF Message
  <2>3. Len(h[j].calls) > 0
    BY <2>1, <2>2
  <2> QED BY <2>2, <2>3 DEF Runs
<1>4. CASE j = i - 1
  BY <1>2, <1>3, <1>4
<1>5. CASE j # i - 1
  <2>1. i - 1 \in (j + 1)..i
    BY <1>1, <1>2, <1>5
  <2> QED BY <1>1, <1>2, <2>1
<1> QED BY <1>4, <1>5

\* q takes messages of h, none twice, and no result without what stands before it.
Picks(o, q, h) ==
  /\ \A k \in 1..Len(q) : o[k] \in 1..Len(h) /\ Alike(q[k], h[o[k]])
  /\ \A i, j \in 1..Len(q) : o[i] = o[j] => i = j
  /\ \A k \in 1..Len(q) : IsTool(q[k]) => k > 1 /\ o[k - 1] = o[k] - 1

\* A request keeps the order of calls and results.
LEMMA RunsPicked ==
  ASSUME NEW h \in Seq(Message), Runs(h), NEW q \in Seq(Message), NEW o, Picks(o, q, h)
  PROVE  Runs(q)
<1>a. \A k \in 1..Len(q) : o[k] \in 1..Len(h) /\ Alike(q[k], h[o[k]])
  BY DEF Picks
<1>b. \A i, j \in 1..Len(q) : o[i] = o[j] => i = j
  BY DEF Picks
<1>c. \A k \in 1..Len(q) : IsTool(q[k]) => k > 1 /\ o[k - 1] = o[k] - 1
  BY DEF Picks
<1>d. \A i, j \in 1..Len(h) : \A k \in 1..Len(h[i].calls), l \in 1..Len(h[j].calls) :
        h[i].calls[k].id = h[j].calls[l].id => i = j /\ k = l
  BY DEF Runs
<1>1. ASSUME NEW i \in 1..Len(q), Len(q[i].calls) > 0 PROVE q[i].kind = "calls"
  <2>1. o[i] \in 1..Len(h) /\ q[i].calls = h[o[i]].calls /\ q[i].kind = h[o[i]].kind
    BY <1>a DEF Alike
  <2> QED BY <2>1, <1>1 DEF Runs
<1>2. ASSUME NEW i \in 1..Len(q), NEW j \in 1..Len(q),
             NEW k \in 1..Len(q[i].calls), NEW l \in 1..Len(q[j].calls),
             q[i].calls[k].id = q[j].calls[l].id
      PROVE  i = j /\ k = l
  <2>1. q[i].calls = h[o[i]].calls /\ q[j].calls = h[o[j]].calls
    BY <1>a DEF Alike
  <2>3. o[i] \in 1..Len(h) /\ o[j] \in 1..Len(h)
    BY <1>a
  <2>4. /\ k \in 1..Len(h[o[i]].calls) /\ l \in 1..Len(h[o[j]].calls)
        /\ h[o[i]].calls[k].id = h[o[j]].calls[l].id
    BY <2>1, <1>2
  <2>2. o[i] = o[j] /\ k = l
    <3>1. \A x \in 1..Len(h[o[i]].calls), y \in 1..Len(h[o[j]].calls) :
            h[o[i]].calls[x].id = h[o[j]].calls[y].id => o[i] = o[j] /\ x = y
      BY <2>3, <1>d
    <3> QED BY <3>1, <2>4
  <2> QED BY <2>2, <1>b
<1>3. ASSUME NEW i \in 1..Len(q), NEW j \in 1..Len(q), IsTool(q[i]), IsTool(q[j]), q[i].id = q[j].id
      PROVE  i = j
  <2>1. o[i] = o[j]
    <3>1. IsTool(h[o[i]]) /\ IsTool(h[o[j]]) /\ h[o[i]].id = h[o[j]].id
      BY <1>3, <1>a DEF Alike, IsTool
    <3>2. o[i] \in 1..Len(h) /\ o[j] \in 1..Len(h)
      BY <1>a
    <3> QED BY <3>1, <3>2 DEF Runs
  <2> QED BY <2>1, <1>b
<1>4. ASSUME NEW i \in 1..Len(q), IsTool(q[i])
      PROVE  \E j \in 1..(i - 1) : /\ \E k \in 1..Len(q[j].calls) : q[i].id = q[j].calls[k].id
                                   /\ \A l \in (j + 1)..i : IsTool(q[l])
  <2>1. IsTool(h[o[i]]) /\ o[i] \in 1..Len(h) /\ q[i].id = h[o[i]].id /\ Len(h) \in Nat
    BY <1>4, <1>a DEF Alike, IsTool
  <2>2. PICK j \in 1..(o[i] - 1) :
               /\ \E k \in 1..Len(h[j].calls) : h[o[i]].id = h[j].calls[k].id
               /\ \A l \in (j + 1)..o[i] : IsTool(h[l])
    BY <2>1 DEF Runs
  <2> DEFINE d == o[i] - j
             Good(e) == e < i /\ o[i - e] = o[i] - e
             Bad == {e \in 0..d : ~Good(e)}
  <2>3. d \in Nat /\ j \in Nat /\ o[i] \in Nat /\ i \in Nat /\ d = o[i] - j /\ d >= 1
    <3>1. o[i] \in Nat /\ o[i] >= 1
      BY <2>1
    <3>2. i \in Nat
      BY <1>4
    <3>3. j \in Nat /\ j <= o[i] - 1
      <4>1. j \in 1..(o[i] - 1)
        OBVIOUS
      <4> QED BY <4>1, <3>1
    <3> QED BY <3>1, <3>2, <3>3
  <2>4. ASSUME Bad # {} PROVE FALSE
    <3>1. PICK e \in Bad : \A m \in Nat : m < e => m \notin Bad
      <4> HIDE DEF Bad
      <4>1. Bad \in SUBSET Nat
        BY <2>3 DEF Bad
      <4> QED BY <2>4, <4>1, Least
    <3>2. e \in 0..d /\ ~Good(e) /\ e \in Nat
      BY <2>3
    <3>3. e # 0
      <4>1. Good(0)
        BY <2>3
      <4> QED BY <4>1, <3>2
    <3>4. e - 1 \in 0..d /\ e - 1 \in Nat /\ e - 1 < e
      BY <3>2, <3>3, <2>3
    <3>5. Good(e - 1)
      <4> HIDE DEF Good
      <4> QED BY <3>1, <3>4
    <3>6. e - 1 < i /\ o[i - (e - 1)] = o[i] - (e - 1)
      BY <3>5
    <3> HIDE DEF Bad, Good, d
    <3>7. i - (e - 1) \in 1..Len(q) /\ o[i] - (e - 1) \in (j + 1)..o[i]
      <4> DEFINE y == o[i]
      <4>1. /\ e \in Nat /\ e >= 1 /\ e <= d /\ d = y - j /\ y \in Nat /\ j \in Nat /\ d \in Nat
            /\ i \in Nat /\ e - 1 < i
        BY <3>2, <3>3, <3>6, <2>3
      <4>2. Len(q) \in Nat /\ i <= Len(q)
        BY <1>4, <1>a
      <4> HIDE DEF y
      <4>3. i - (e - 1) \in 1..Len(q)
        BY <4>1, <4>2
      <4>4. y - (e - 1) \in (j + 1)..y
        BY <4>1
      <4> QED BY <4>3, <4>4 DEF y
    <3>8. IsTool(q[i - (e - 1)])
      BY <3>6, <3>7, <2>2, <1>a DEF Alike, IsTool
    <3>9. i - (e - 1) > 1 /\ o[(i - (e - 1)) - 1] = o[i - (e - 1)] - 1
      BY <3>7, <3>8, <1>c
    <3>10. (i - (e - 1)) - 1 = i - e /\ (o[i] - (e - 1)) - 1 = o[i] - e /\ e < i
      <4> DEFINE y == o[i]
      <4>1. i \in Nat /\ e \in Nat /\ y \in Nat /\ i - (e - 1) > 1
        BY <3>2, <3>9, <2>3
      <4> HIDE DEF y
      <4>2. (i - (e - 1)) - 1 = i - e /\ (y - (e - 1)) - 1 = y - e /\ e < i
        BY <4>1
      <4> QED BY <4>2 DEF y
    <3>11. Good(e)
      BY <3>6, <3>9, <3>10 DEF Good
    <3> QED BY <3>2, <3>11
  <2>5. \A e \in 0..d : e < i /\ o[i - e] = o[i] - e
    BY <2>4
  <2> HIDE DEF d
  <2>6. d < i /\ o[i - d] = j
    <3>1. d \in 0..d
      BY <2>3
    <3> QED BY <3>1, <2>3, <2>5
  <2>7. i - d \in 1..(i - 1) /\ i - d \in 1..Len(q)
    BY <2>3, <2>6
  <2>8. \E k \in 1..Len(q[i - d].calls) : q[i].id = q[i - d].calls[k].id
    <3>1. q[i - d].calls = h[j].calls
      BY <2>6, <2>7, <1>a DEF Alike
    <3> QED BY <3>1, <2>1, <2>2
  <2>9. ASSUME NEW l \in ((i - d) + 1)..i PROVE IsTool(q[l])
    <3>0. i \in Nat /\ d \in Nat /\ d < i /\ i <= Len(q)
      BY <2>3, <2>6
    <3>1. i - l \in 0..d /\ i - (i - l) = l /\ l \in 1..Len(q) /\ l \in Nat
      BY <3>0
    <3>2. o[l] = o[i] - (i - l)
      BY <3>1, <2>5
    <3>4. i - l <= d - 1 /\ i - l \in Nat
      BY <3>0
    <3>3. o[l] \in (j + 1)..o[i]
      <4>1. o[i] \in Nat /\ j \in Nat /\ d = o[i] - j
        BY <2>3
      <4>2. l \in Nat /\ i \in Nat
        BY <3>0, <3>1
      <4>3. i - l \in Nat /\ i - l <= (o[i] - j) - 1
        BY <4>1, <3>4
      <4> DEFINE x == i - l
                 y == o[i]
                 z == o[l]
      <4>4. x \in Nat /\ x <= (y - j) - 1 /\ z = y - x /\ y \in Nat /\ j \in Nat
        BY <4>1, <4>3, <3>2
      <4> HIDE DEF x, y, z
      <4>5. z \in (j + 1)..y
        BY <4>4
      <4> QED BY <4>5 DEF y, z
    <3> QED BY <3>1, <3>3, <2>2, <1>a DEF Alike, IsTool
  <2> QED BY <2>7, <2>8, <2>9
<1> QED BY <1>1, <1>2, <1>3, <1>4 DEF Runs

\* What is sent, before the repair, has its results behind their calls when h has.
LEMMA BareRuns ==
  ASSUME NEW h \in Seq(Message), Formed(h), Runs(h)
  PROVE  Bare(h) \in Seq(Message) /\ Runs(Bare(h))
<1> DEFINE o == Sent(h)
           q == Bare(h)
<1>1. Placed(h)
  BY RunsPlaced
<1>2. /\ q \in Seq(Message) /\ Len(q) = Len(o) /\ Len(o) \in Nat
      /\ \A k \in 1..Len(o) : o[k] \in 1..Len(h) /\ Alike(q[k], h[o[k]])
      /\ \A i, j \in 1..Len(o) : o[i] = o[j] => i = j
      /\ Placed(h) => \A k \in 1..Len(o) : IsTool(q[k]) => k > 1 /\ o[k - 1] = o[k] - 1
  BY SentIs
<1> HIDE DEF o, q
<1>3. Runs(q)
  <2>1. Picks(o, q, h)
    BY <1>1, <1>2 DEF Picks
  <2> QED BY <1>2, <2>1, RunsPicked
<1> QED BY <1>2, <1>3 DEF q

\* An ordered list of a set is as long as the set is large.
LEMMA ListsCount ==
  ASSUME NEW N \in Nat, NEW W \in SUBSET (1..N), NEW w, Lists(w, W)
  PROVE  Cardinality(W) = Len(w) /\ Len(w) \in Nat
<1>1. w \in Seq(W) /\ Len(w) \in Nat /\ DOMAIN w = 1..Len(w)
  BY DEF Lists
<1>2. w \in [1..Len(w) -> W]
  BY <1>1, LenProperties
<1>3. \A x \in W : \E k \in 1..Len(w) : w[k] = x
  BY <1>1 DEF Lists
<1>4. \A i, j \in 1..Len(w) : w[i] = w[j] => i = j
  <2>1. \A i, j \in 1..Len(w) : i < j => w[i] < w[j]
    BY <1>1 DEF Lists
  <2>2. \A k \in 1..Len(w) : w[k] \in Nat
    <3>1. \A k \in 1..Len(w) : w[k] \in W
      BY <1>2
    <3>2. \A x \in W : x \in Nat
      OBVIOUS
    <3> QED BY <3>1, <3>2
  <2> QED BY <2>1, <2>2, <1>1
<1>5. w \in Bijection(1..Len(w), W)
  BY <1>2, <1>3, <1>4 DEF Bijection, Injection, Surjection, IsInjective
<1>6. ExistsBijection(1..Len(w), W)
  BY <1>5 DEF ExistsBijection
<1> QED BY <1>1, <1>6, FS_CountingElements

-----------------------------------------------------------------------------
(* The repair of unanswered calls.                                          *)

Unanswered(m, present) == {k \in 1..Len(m.calls) : m.calls[k].id \notin present}

\* The right part of two joined sequences.
LEMMA JoinedRight ==
  ASSUME NEW M, NEW left \in Seq(M), NEW right \in Seq(M)
  PROVE  \A i \in 1..Len(right) : (left \o right)[Len(left) + i] = right[i]
BY Joined

\* F is m and an answer for each of its calls in X.
Answered(F, m, X) ==
  /\ F \in Seq(Message) /\ F[1] = m
  /\ Cardinality(X) \in Nat /\ Len(F) = Cardinality(X) + 1
  /\ \A b \in 2..Len(F) : /\ F[b].kind = "recovered" /\ F[b].n = 0
                          /\ Len(F[b].calls) = 0 /\ F[b].covers = {}
  /\ \A b \in 2..Len(F) : \E k \in X : F[b].id = m.calls[k].id
  /\ \A k \in X : \E b \in 2..Len(F) : F[b].id = m.calls[k].id

\* A mended message is followed by an answer to each call that had none.
LEMMA MendIs ==
  ASSUME NEW m \in Message, NEW present
  PROVE  Answered(Mend(m, present), m, Unanswered(m, present))
<1> DEFINE X == Unanswered(m, present)
           w == Ordered(X)
           a == Missing(m, present)
           R == [k \in DOMAIN a |-> Recovered(a[k])]
           F == Mend(m, present)
<1>1. m.calls \in Seq(CallOf) /\ Len(m.calls) \in Nat /\ DOMAIN m.calls = 1..Len(m.calls)
  <2>1. m.calls \in Seq(CallOf)
    BY DEF Message
  <2> QED BY <2>1
<1>2. X \in SUBSET DOMAIN m.calls /\ X \in SUBSET (1..Len(m.calls))
  BY <1>1 DEF Unanswered
<1>3. a = At(m.calls, X)
  BY <1>1 DEF Missing, Unanswered
<1>4. F = <<m>> \o R
  BY DEF Mend
<1> HIDE DEF X, a
<1>5. /\ Lists(w, X) /\ Len(w) \in Nat
      /\ a \in Seq(CallOf) /\ Len(a) = Len(w)
      /\ \A k \in 1..Len(w) : a[k] = m.calls[w[k]]
  BY <1>1, <1>2, <1>3, AtIs
<1>6. Cardinality(X) = Len(w)
  <2> HIDE DEF w
  <2> QED BY <1>1, <1>2, <1>5, ListsCount
<1>7. /\ \A k \in 1..Len(w) : w[k] \in X
      /\ \A x \in X : \E k \in 1..Len(w) : w[k] = x
  <2> HIDE DEF w
  <2>1. w \in Seq(X) /\ DOMAIN w = 1..Len(w)
    BY <1>5 DEF Lists
  <2>2. \A k \in 1..Len(w) : w[k] \in X
    BY <2>1, ElementOfSeq
  <2> QED BY <2>1, <2>2, <1>5 DEF Lists
<1> HIDE DEF w
<1>8. DOMAIN a = 1..Len(w) /\ \A k \in 1..Len(w) : a[k] \in CallOf
  BY <1>5
<1>9. R = [k \in 1..Len(w) |-> Recovered(a[k])]
  BY <1>8
<1>10. \A k \in 1..Len(w) : R[k] = Recovered(a[k])
  BY <1>9
<1>11. R \in Seq(Message) /\ Len(R) = Len(w)
  <2>1. \A k \in 1..Len(w) : Recovered(a[k]) \in Message
    BY <1>8, RecoveredIs
  <2> QED BY <2>1, <1>5, <1>9
<1> HIDE DEF R
<1> DEFINE p == <<m>>
<1>12. p \in Seq(Message) /\ Len(p) = 1 /\ p[1] = m
  OBVIOUS
<1>13. F = p \o R
  BY <1>4
<1> HIDE DEF F, p
<1>14. F \in Seq(Message)
  BY <1>11, <1>12, <1>13, Joined
<1>15. Len(F) = Len(w) + 1
  <2>1. Len(F) = Len(p) + Len(R)
    BY <1>11, <1>12, <1>13, Joined
  <2> QED BY <2>1, <1>5, <1>11, <1>12
<1>16. F[1] = m
  <2>1. \A i \in 1..Len(p) : (p \o R)[i] = p[i]
    BY <1>11, <1>12, Joined
  <2>2. 1 \in 1..Len(p)
    BY <1>12
  <2>3. (p \o R)[1] = p[1]
    BY <2>1, <2>2
  <2> QED BY <2>3, <1>12, <1>13
<1>17. \A k \in 1..Len(w) : F[1 + k] = Recovered(a[k])
  <2>1. \A i \in 1..Len(R) : (p \o R)[Len(p) + i] = R[i]
    BY <1>11, <1>12, JoinedRight
  <2>2. \A i \in 1..Len(R) : F[Len(p) + i] = R[i]
    BY <2>1, <1>13
  <2> QED BY <2>2, <1>10, <1>11, <1>12
<1>18. ASSUME NEW b \in 2..Len(F)
       PROVE  /\ F[b].kind = "recovered" /\ F[b].n = 0
              /\ Len(F[b].calls) = 0 /\ F[b].covers = {}
              /\ \E k \in X : F[b].id = m.calls[k].id
  <2>1. b - 1 \in 1..Len(w) /\ 1 + (b - 1) = b
    BY <1>5, <1>15
  <2>2. F[b] = Recovered(a[b - 1])
    BY <2>1, <1>17
  <2>3. a[b - 1] \in CallOf /\ a[b - 1] = m.calls[w[b - 1]] /\ w[b - 1] \in X
    BY <2>1, <1>5, <1>7, <1>8
  <2>4. /\ Recovered(a[b - 1]).kind = "recovered" /\ Recovered(a[b - 1]).n = 0
        /\ Recovered(a[b - 1]).calls = <<>> /\ Recovered(a[b - 1]).id = a[b - 1].id
        /\ Recovered(a[b - 1]).covers = {}
    BY <2>3, RecoveredIs
  <2>5. Len(F[b].calls) = 0
    BY <2>2, <2>4
  <2> QED BY <2>2, <2>3, <2>4, <2>5
<1>19. ASSUME NEW k \in X PROVE \E b \in 2..Len(F) : F[b].id = m.calls[k].id
  <2>1. PICK l \in 1..Len(w) : w[l] = k
    BY <1>7
  <2>2. 1 + l \in 2..Len(F) /\ F[1 + l] = Recovered(a[l]) /\ a[l] = m.calls[k] /\ a[l] \in CallOf
    BY <2>1, <1>5, <1>8, <1>15, <1>17
  <2>3. Recovered(a[l]).id = a[l].id
    BY <2>2, RecoveredIs
  <2> QED BY <2>2, <2>3
<1>20. Answered(F, m, X)
  BY <1>5, <1>6, <1>14, <1>15, <1>16, <1>18, <1>19 DEF Answered
<1> QED BY <1>20 DEF F, X

Paired(r) ==
  \A i \in DOMAIN r :
    /\ Len(r[i].calls) > 0 =>
         /\ i + Len(r[i].calls) <= Len(r)
         /\ \A j \in (i + 1)..(i + Len(r[i].calls)) : IsTool(r[j])
         /\ {r[j].id : j \in (i + 1)..(i + Len(r[i].calls))}
              = {r[i].calls[k].id : k \in 1..Len(r[i].calls)}
    /\ IsTool(r[i]) => \E j \in 1..(i - 1) : r[i].id \in {c.id : c \in Range(r[j].calls)}

Present(q) == {q[i].id : i \in {i \in DOMAIN q : IsTool(q[i])}}
Mended(q) == [i \in DOMAIN q |-> Mend(q[i], Present(q))]

\* A history with its unanswered calls answered, part by part.
LEMMA RepairIs ==
  ASSUME NEW q \in Seq(Message)
  PROVE  /\ RepairToolCallPairing(q) = FlattenSeq(Mended(q))
         /\ Mended(q) \in Seq(Seq(Message)) /\ Len(Mended(q)) = Len(q) /\ Len(q) \in Nat
         /\ \A i \in 1..Len(q) : Mended(q)[i] = Mend(q[i], Present(q)) /\ q[i] \in Message
         /\ RepairToolCallPairing(q) \in Seq(Message)
         /\ \E off : Spread(Mended(q), Len(q), RepairToolCallPairing(q), off)
<1>1. RepairToolCallPairing(q) = FlattenSeq(Mended(q))
  BY DEF RepairToolCallPairing, Mended, Present
<1>2. DOMAIN q = 1..Len(q) /\ Len(q) \in Nat /\ \A i \in 1..Len(q) : q[i] \in Message
  OBVIOUS
<1>3. Mended(q) = [i \in 1..Len(q) |-> Mend(q[i], Present(q))]
  BY <1>2 DEF Mended
<1>4. \A i \in 1..Len(q) : Mend(q[i], Present(q)) \in Seq(Message)
  BY <1>2, MendIs DEF Answered
<1>5. Mended(q) \in Seq(Seq(Message)) /\ Len(Mended(q)) = Len(q)
  BY <1>2, <1>3, <1>4
<1>6. /\ FlattenSeq(Mended(q)) \in Seq(Message)
      /\ \E off : Spread(Mended(q), Len(Mended(q)), FlattenSeq(Mended(q)), off)
  BY <1>5, FlattenIs
<1> QED BY <1>1, <1>2, <1>3, <1>5, <1>6

\* The tools that follow at once.
Row(q, i) == {l \in (i + 1)..Len(q) : \A k \in (i + 1)..l : IsTool(q[k])}

\* The results that follow a message without a gap are so many, from the next one on.
LEMMA RowIs ==
  ASSUME NEW q, Len(q) \in Nat, NEW i \in 1..Len(q)
  PROVE  \E c \in Nat : /\ i + c <= Len(q) /\ Row(q, i) = (i + 1)..(i + c)
                        /\ IsFiniteSet(Row(q, i)) /\ Cardinality(Row(q, i)) = c
<1> DEFINE T == Row(q, i)
           n == Len(q)
<1>1. T \in SUBSET (1..n) /\ T \in SUBSET ((i + 1)..n)
  BY DEF Row
<1>2. \A l \in T : \A k \in (i + 1)..l : k \in T
  BY DEF Row
<1> HIDE DEF T
<1>3. \E c \in Nat : i + c <= n /\ T = (i + 1)..(i + c)
  <2>1. CASE T = {}
    <3>1. T = (i + 1)..(i + 0) /\ i + 0 <= n
      BY <2>1
    <3> QED BY <3>1
  <2>2. CASE T # {}
    <3> DEFINE e == Max(T)
    <3>1. e \in T /\ \A x \in T : x <= e
      BY <1>1, <2>2, Greatest
    <3> HIDE DEF e
    <3>2. e \in (i + 1)..n
      BY <1>1, <3>1
    <3>3. \A x \in T : x \in (i + 1)..e
      BY <1>1, <3>1, <3>2
    <3>4. \A x \in (i + 1)..e : x \in T
      BY <1>2, <3>1
    <3>5. T = (i + 1)..e
      BY <3>3, <3>4
    <3>6. e - i \in Nat /\ i + (e - i) = e /\ e <= n
      BY <3>2
    <3> QED BY <3>5, <3>6
  <2> QED BY <2>1, <2>2
<1>4. PICK c \in Nat : i + c <= n /\ T = (i + 1)..(i + c)
  BY <1>3
<1>5. IsFiniteSet(T) /\ Cardinality(T) = c
  <2>1. i + 1 \in Int /\ i + c \in Int
    BY <1>4
  <2>2. /\ IsFiniteSet((i + 1)..(i + c))
        /\ Cardinality((i + 1)..(i + c)) = IF i + 1 > i + c THEN 0 ELSE (i + c) - (i + 1) + 1
    BY <2>1, FS_Interval
  <2>3. Cardinality((i + 1)..(i + c)) = c
    BY <2>2, <1>4
  <2> QED BY <1>4, <2>2, <2>3
<1> QED BY <1>4, <1>5 DEF T

\* In a history that keeps its runs the tools after a message with calls answer its calls,
\* each one of those that are answered anywhere.
LEMMA RowAnswers ==
  ASSUME NEW q \in Seq(Message), Runs(q), NEW i \in 1..Len(q), Len(q[i].calls) > 0
  PROVE  LET X == Unanswered(q[i], Present(q))
             N == Len(q[i].calls) IN
         \E c \in Nat :
           /\ i + c <= Len(q) /\ Cardinality(X) \in Nat /\ Cardinality(X) + c = N
           /\ \A l \in (i + 1)..(i + c) : /\ IsTool(q[l])
                                          /\ \E k \in 1..N : q[l].id = q[i].calls[k].id
           /\ \A k \in (1..N) \ X : \E l \in (i + 1)..(i + c) : q[l].id = q[i].calls[k].id
<1> DEFINE n == Len(q)
           m == q[i]
           N == Len(m.calls)
           X == Unanswered(m, Present(q))
           P == (1..N) \ X
           T == Row(q, i)
<1>1. n \in Nat /\ DOMAIN q = 1..n /\ \A l \in 1..n : q[l] \in Message
  OBVIOUS
<1>2. N \in Nat /\ N > 0
  <2>1. m \in Message
    BY <1>1
  <2>2. m.calls \in Seq(CallOf)
    BY <2>1 DEF Message
  <2> QED BY <2>2
<1>3. X \in SUBSET (1..N)
  BY DEF Unanswered
<1>4. \A k \in 1..N : k \in P <=> \E l \in 1..n : IsTool(q[l]) /\ q[l].id = m.calls[k].id
  BY <1>1 DEF Unanswered, Present
<1>5. \A l \in 1..n : IsTool(q[l]) => Len(q[l].calls) = 0
  <2> SUFFICES ASSUME NEW l \in 1..n, IsTool(q[l]) PROVE Len(q[l].calls) = 0
    OBVIOUS
  <2>1. q[l].calls \in Seq(CallOf)
    BY <1>1 DEF Message
  <2>2. Len(q[l].calls) \in Nat
    BY <2>1
  <2>3. Len(q[l].calls) > 0 => q[l].kind = "calls"
    BY DEF Runs
  <2> QED BY <2>2, <2>3 DEF IsTool, ToolKinds
<1>6. \A j, l \in 1..n : \A k \in 1..Len(q[j].calls), k2 \in 1..Len(q[l].calls) :
        q[j].calls[k].id = q[l].calls[k2].id => j = l /\ k = k2
  BY DEF Runs
<1>7. \A l \in 1..n : IsTool(q[l]) =>
        \E j \in 1..(l - 1) : /\ \E k \in 1..Len(q[j].calls) : q[l].id = q[j].calls[k].id
                              /\ \A x \in (j + 1)..l : IsTool(q[x])
  BY DEF Runs
<1>8. \A j, l \in 1..n : IsTool(q[j]) /\ IsTool(q[l]) /\ q[j].id = q[l].id => j = l
  BY DEF Runs
<1>9. T \in SUBSET (1..n) /\ \A l \in T : l > i /\ \A x \in (i + 1)..l : IsTool(q[x])
  BY <1>1 DEF Row
<1>10. \A l \in 1..n : l > i /\ (\A x \in (i + 1)..l : IsTool(q[x])) => l \in T
  BY <1>1 DEF Row
<1>11. PICK c \in Nat : /\ i + c <= n /\ T = (i + 1)..(i + c)
                        /\ IsFiniteSet(T) /\ Cardinality(T) = c
  BY <1>1, RowIs
<1> HIDE DEF X, T, N, m
<1>12. \A l \in T : IsTool(q[l]) /\ \E k \in P : q[l].id = m.calls[k].id
  <2> SUFFICES ASSUME NEW l \in T
               PROVE  IsTool(q[l]) /\ \E k \in P : q[l].id = m.calls[k].id
    OBVIOUS
  <2>1. l \in 1..n /\ l > i /\ \A x \in (i + 1)..l : IsTool(q[x])
    BY <1>9
  <2>2. IsTool(q[l])
    <3>1. l \in (i + 1)..l
      BY <2>1
    <3> QED BY <2>1, <3>1
  <2>3. PICK j \in 1..(l - 1) : /\ \E k \in 1..Len(q[j].calls) : q[l].id = q[j].calls[k].id
                                /\ \A x \in (j + 1)..l : IsTool(q[x])
    BY <1>7, <2>1, <2>2
  <2>4. PICK k \in 1..Len(q[j].calls) : q[l].id = q[j].calls[k].id
    BY <2>3
  <2>5. j \in 1..n /\ j < l
    BY <2>1, <2>3, <1>1
  <2>6. Len(q[j].calls) # 0
    <3>1. q[j].calls \in Seq(CallOf)
      BY <1>1, <2>5 DEF Message
    <3>2. Len(q[j].calls) \in Nat
      BY <3>1
    <3> QED BY <2>4, <3>2
  <2>7. ~(j < i)
    <3>1. SUFFICES ASSUME j < i PROVE FALSE
      OBVIOUS
    <3>2. i \in (j + 1)..l
      BY <2>1, <2>5, <3>1
    <3>3. IsTool(q[i])
      BY <2>3, <3>2
    <3>4. N = 0
      BY <1>5, <3>3 DEF N, m
    <3> QED BY <3>4, <1>2
  <2>8. ~(j > i)
    <3>1. SUFFICES ASSUME j > i PROVE FALSE
      OBVIOUS
    <3>2. j \in (i + 1)..l
      BY <2>1, <2>5, <3>1
    <3> QED BY <3>2, <2>1, <2>5, <2>6, <1>5
  <2>9. j = i
    BY <2>5, <2>7, <2>8
  <2>10. k \in 1..N /\ q[l].id = m.calls[k].id
    BY <2>4, <2>9 DEF N, m
  <2>11. k \in P
    BY <2>1, <2>2, <2>10, <1>4
  <2> QED BY <2>2, <2>10, <2>11
<1>13. \A k \in P : \E l \in T : q[l].id = m.calls[k].id
  <2> SUFFICES ASSUME NEW k \in P PROVE \E l \in T : q[l].id = m.calls[k].id
    OBVIOUS
  <2>1. PICK l \in 1..n : IsTool(q[l]) /\ q[l].id = m.calls[k].id
    BY <1>4
  <2>2. PICK j \in 1..(l - 1) : /\ \E k2 \in 1..Len(q[j].calls) : q[l].id = q[j].calls[k2].id
                                /\ \A x \in (j + 1)..l : IsTool(q[x])
    BY <1>7, <2>1
  <2>3. PICK k2 \in 1..Len(q[j].calls) : q[l].id = q[j].calls[k2].id
    BY <2>2
  <2>4. j \in 1..n /\ j < l
    BY <2>1, <2>2, <1>1
  <2>5. q[j].calls[k2].id = q[i].calls[k].id /\ k \in 1..Len(q[i].calls)
    BY <2>1, <2>3 DEF m, N
  <2>6. j = i
    BY <2>3, <2>4, <2>5, <1>6
  <2>7. l \in T
    BY <2>1, <2>2, <2>4, <2>6, <1>10
  <2> QED BY <2>1, <2>7
<1>14. Cardinality(P) = c
  <2> DEFINE g == [l \in T |-> CHOOSE k \in P : q[l].id = m.calls[k].id]
  <2>1. \A l \in T : g[l] \in P /\ q[l].id = m.calls[g[l]].id
    BY <1>12
  <2>2. g \in [T -> P]
    BY <2>1
  <2>3. \A l, l2 \in T : g[l] = g[l2] => l = l2
    <3> SUFFICES ASSUME NEW l \in T, NEW l2 \in T, g[l] = g[l2] PROVE l = l2
      OBVIOUS
    <3>1. q[l].id = q[l2].id
      BY <2>1
    <3>2. l \in 1..n /\ l2 \in 1..n /\ IsTool(q[l]) /\ IsTool(q[l2])
      BY <1>9, <1>12
    <3> QED BY <3>1, <3>2, <1>8
  <2>4. \A k \in P : \E l \in T : g[l] = k
    <3> SUFFICES ASSUME NEW k \in P PROVE \E l \in T : g[l] = k
      OBVIOUS
    <3>1. PICK l \in T : q[l].id = m.calls[k].id
      BY <1>13
    <3>2. g[l] \in P /\ q[l].id = m.calls[g[l]].id
      BY <2>1
    <3>3. /\ k \in 1..Len(q[i].calls) /\ g[l] \in 1..Len(q[i].calls)
          /\ q[i].calls[k].id = q[i].calls[g[l]].id
      BY <3>1, <3>2 DEF m, N
    <3>4. k = g[l]
      BY <3>3, <1>6
    <3> QED BY <3>4
  <2> HIDE DEF g
  <2>5. g \in Bijection(T, P)
    BY <2>2, <2>3, <2>4 DEF Bijection, Injection, Surjection, IsInjective
  <2>6. ExistsBijection(T, P)
    BY <2>5 DEF ExistsBijection
  <2> HIDE DEF P
  <2> QED BY <2>6, <1>11, FS_Bijection
<1>15. Cardinality(X) \in Nat /\ Cardinality(X) + c = N
  <2>1. IsFiniteSet(1..N) /\ Cardinality(1..N) = N
    <3>1. 1 \in Int /\ N \in Int
      BY <1>2
    <3>2. IsFiniteSet(1..N) /\ Cardinality(1..N) = IF 1 > N THEN 0 ELSE N - 1 + 1
      BY <3>1, FS_Interval
    <3> QED BY <3>2, <1>2
  <2>2. IsFiniteSet(X) /\ Cardinality(X) \in Nat
    BY <2>1, <1>3, FS_Subset, FS_CardinalityType
  <2>3. IsFiniteSet(P)
    BY <2>1, FS_Subset
  <2>4. X \cup P = 1..N /\ X \cap P = {}
    BY <1>3
  <2>5. Cardinality(X \cup P) = Cardinality(X) + Cardinality(P) - Cardinality(X \cap P)
    <3> HIDE DEF P
    <3> QED BY <2>2, <2>3, FS_Union
  <2>6. Cardinality(X \cap P) = 0
    BY <2>4, FS_EmptySet
  <2>7. N = Cardinality(X) + c - 0
    BY <2>1, <2>4, <2>5, <2>6, <1>14
  <2> QED BY <2>2, <2>7, <1>11
<1>16. \A l \in (i + 1)..(i + c) : IsTool(q[l]) /\ \E k \in 1..N : q[l].id = m.calls[k].id
  BY <1>11, <1>12
<1>17. \A k \in (1..N) \ X : \E l \in (i + 1)..(i + c) : q[l].id = m.calls[k].id
  BY <1>11, <1>13
<1> QED BY <1>11, <1>15, <1>16, <1>17 DEF m, N, X

\* Tools in a row stand in a row in the request as well.
Single(F, from, to) == \A l \in from..to : Len(F[l]) = 1

Steady(off, from, c) == \A d \in 0..c : off[from + d] = off[from] + d

\* Parts of one message each lie one behind the other.
LEMMA RowSpread ==
  ASSUME NEW F \in Seq(Seq(Message)), NEW r, Len(r) \in Nat,
         NEW off, Spread(F, Len(F), r, off),
         NEW i \in 1..Len(F), NEW c \in Nat, i + c <= Len(F),
         Single(F, i + 1, i + c)
  PROVE  Steady(off, i + 1, c)
<1> SUFFICES \A d \in 0..c : off[i + 1 + d] = off[i + 1] + d
  BY DEF Steady
<1> DEFINE W == {d \in 0..c : off[i + 1 + d] # off[i + 1] + d}
<1>1. SUFFICES ASSUME W # {} PROVE FALSE
  OBVIOUS
<1>2. W \in SUBSET Nat
  OBVIOUS
<1>3. PICK d \in W : \A x \in Nat : x < d => x \notin W
  <2> HIDE DEF W
  <2> QED BY <1>1, <1>2, Least
<1>4. d \in 0..c /\ off[i + 1 + d] # off[i + 1] + d
  BY <1>3
<1>5. Len(F) \in Nat /\ \A l \in 1..(Len(F) + 1) : off[l] \in Nat
  BY DEF Spread
<1>6. d # 0
  <2>1. off[i + 1] \in Nat /\ off[i + 1 + 0] = off[i + 1]
    BY <1>5
  <2> QED BY <1>4, <2>1
<1>7. d - 1 \in 0..c /\ d - 1 < d /\ d - 1 \in Nat
  BY <1>4, <1>6
<1>8. off[i + 1 + (d - 1)] = off[i + 1] + (d - 1)
  BY <1>3, <1>7
<1>9. i + d \in 1..Len(F) /\ i + d \in (i + 1)..(i + c)
  BY <1>4, <1>5, <1>6
<1>10. off[(i + d) + 1] = off[i + d] + 1
  BY <1>9 DEF Spread, Single
<1>11. i + 1 + (d - 1) = i + d /\ (i + d) + 1 = i + 1 + d
  BY <1>4
<1>12. off[i + 1] \in Nat /\ off[i + d] \in Nat
  BY <1>5, <1>9
<1>13. off[i + d] = off[i + 1] + (d - 1)
  BY <1>8, <1>11
<1>14. off[i + 1 + d] = off[i + d] + 1
  BY <1>10, <1>11
<1> DEFINE x == off[i + 1]
           y == off[i + d]
           z == off[i + 1 + d]
<1>15. z = y + 1 /\ y = x + (d - 1) /\ x \in Nat /\ d \in Nat
  BY <1>12, <1>13, <1>14, <1>4
<1> HIDE DEF x, y, z
<1>16. z = x + d
  BY <1>15
<1> QED BY <1>16, <1>4 DEF x, z

\* What MendIs says of the parts that a mended message has.
LEMMA PartsOfMend ==
  ASSUME NEW m \in Message, NEW present, NEW F, F = Mend(m, present)
  PROVE  /\ \A b \in 2..Len(F) : F[b].kind = "recovered" /\ Len(F[b].calls) = 0
         /\ \A b \in 2..Len(F) : \E k \in Unanswered(m, present) : F[b].id = m.calls[k].id
         /\ \A k \in Unanswered(m, present) : \E b \in 2..Len(F) : F[b].id = m.calls[k].id
<1>1. Answered(F, m, Unanswered(m, present))
  BY MendIs
<1> QED BY <1>1 DEF Answered

\* The repair leaves each call with its answers behind it, and each answer behind its call.
LEMMA RepairedPaired ==
  ASSUME NEW q \in Seq(Message), Runs(q)
  PROVE  Paired(RepairToolCallPairing(q))
<1> DEFINE r == RepairToolCallPairing(q)
           F == Mended(q)
           n == Len(q)
<1>1. /\ F \in Seq(Seq(Message)) /\ Len(F) = n /\ n \in Nat
      /\ \A i \in 1..n : F[i] = Mend(q[i], Present(q)) /\ q[i] \in Message
      /\ r \in Seq(Message)
  BY RepairIs
<1>2. PICK off : Spread(F, n, r, off)
  BY RepairIs
<1>3. DOMAIN r = 1..Len(r) /\ Len(r) \in Nat
  BY <1>1
<1> DEFINE U(i) == Unanswered(q[i], Present(q))
<1>4. \A i \in 1..n : /\ F[i][1] = q[i]
                      /\ Cardinality(U(i)) \in Nat /\ Len(F[i]) = Cardinality(U(i)) + 1
  BY <1>1, MendIs DEF Answered
<1>5. \A i \in 1..n : \A b \in 2..Len(F[i]) :
        /\ F[i][b].kind = "recovered" /\ Len(F[i][b].calls) = 0
        /\ \E k \in U(i) : F[i][b].id = q[i].calls[k].id
  <2> TAKE i \in 1..n
  <2>1. q[i] \in Message /\ F[i] = Mend(q[i], Present(q))
    BY <1>1
  <2> HIDE DEF F
  <2>2. \A b \in 2..Len(F[i]) : F[i][b].kind = "recovered" /\ Len(F[i][b].calls) = 0
    BY <2>1, PartsOfMend
  <2>3. \A b \in 2..Len(F[i]) : \E k \in U(i) : F[i][b].id = q[i].calls[k].id
    BY <2>1, PartsOfMend
  <2> QED BY <2>2, <2>3
<1>6. \A i \in 1..n : \A k \in U(i) : \E b \in 2..Len(F[i]) : F[i][b].id = q[i].calls[k].id
  <2> TAKE i \in 1..n
  <2>1. q[i] \in Message /\ F[i] = Mend(q[i], Present(q))
    BY <1>1
  <2> HIDE DEF F
  <2> QED BY <2>1, PartsOfMend
<1>7. \A i \in 1..n : U(i) \in SUBSET (1..Len(q[i].calls))
  BY DEF Unanswered
<1>8. \A l \in 1..n : IsTool(q[l]) => Len(q[l].calls) = 0
  <2> SUFFICES ASSUME NEW l \in 1..n, IsTool(q[l]) PROVE Len(q[l].calls) = 0
    OBVIOUS
  <2>1. q[l].calls \in Seq(CallOf)
    BY <1>1 DEF Message
  <2>2. Len(q[l].calls) \in Nat
    BY <2>1
  <2>3. Len(q[l].calls) > 0 => q[l].kind = "calls"
    BY DEF Runs
  <2> QED BY <2>2, <2>3 DEF IsTool, ToolKinds
<1>9. \A l \in 1..n : IsTool(q[l]) => Len(F[l]) = 1
  <2> SUFFICES ASSUME NEW l \in 1..n, IsTool(q[l]) PROVE Len(F[l]) = 1
    OBVIOUS
  <2>1. Len(q[l].calls) = 0 /\ U(l) \in SUBSET (1..Len(q[l].calls))
    BY <1>7, <1>8
  <2> HIDE DEF U
  <2>2. U(l) = {}
    BY <2>1
  <2>3. Cardinality(U(l)) = 0
    BY <2>2, FS_EmptySet
  <2>4. Len(F[l]) = Cardinality(U(l)) + 1
    BY <1>4
  <2> HIDE DEF F
  <2> QED BY <2>3, <2>4
<1> HIDE DEF r, F, U
<1>10. \A i \in 1..n : /\ off[i] \in Nat /\ off[i + 1] \in Nat
                       /\ off[i + 1] = off[i] + Len(F[i]) /\ off[i + 1] <= Len(r)
  <2> TAKE i \in 1..n
  <2>1. i \in 1..(n + 1) /\ i + 1 \in 1..(n + 1)
    BY <1>1
  <2>2. off[i] \in 0..Len(r) /\ off[i + 1] \in 0..Len(r) /\ off[i + 1] = off[i] + Len(F[i])
    BY <1>2, <2>1 DEF Spread
  <2> QED BY <2>2, <1>3
<1>11. \A i \in 1..n : \A b \in 1..Len(F[i]) : r[off[i] + b] = F[i][b]
  BY <1>2 DEF Spread
<1>12. \A p \in 1..Len(r) : \E i \in 1..n : \E b \in 1..Len(F[i]) : p = off[i] + b
  BY <1>2 DEF Spread
<1>13. \A i \in 1..n : r[off[i] + 1] = q[i]
  <2> TAKE i \in 1..n
  <2>1. 1 \in 1..Len(F[i])
    BY <1>4
  <2> QED BY <2>1, <1>4, <1>11
<1>14. ASSUME NEW p \in 1..Len(r), Len(r[p].calls) > 0
       PROVE  /\ p + Len(r[p].calls) <= Len(r)
              /\ \A j \in (p + 1)..(p + Len(r[p].calls)) : IsTool(r[j])
              /\ {r[j].id : j \in (p + 1)..(p + Len(r[p].calls))}
                   = {r[p].calls[k].id : k \in 1..Len(r[p].calls)}
  <2>1. PICK i \in 1..n : \E b \in 1..Len(F[i]) : p = off[i] + b
    BY <1>12
  <2>2. PICK b \in 1..Len(F[i]) : p = off[i] + b
    BY <2>1
  <2>3. b = 1
    <3>1. SUFFICES ASSUME b # 1 PROVE FALSE
      OBVIOUS
    <3>2. b \in 2..Len(F[i])
      BY <3>1, <1>4
    <3>3. Len(F[i][b].calls) = 0
      BY <3>2, <1>5
    <3>4. r[p] = F[i][b]
      BY <2>2, <1>11
    <3> QED BY <3>3, <3>4, <1>14
  <2>4. p = off[i] + 1 /\ r[p] = q[i]
    BY <2>2, <2>3, <1>13
  <2> DEFINE N == Len(q[i].calls)
             x == Cardinality(U(i))
  <2>5. N > 0
    BY <2>4, <1>14
  <2>6. PICK c \in Nat :
           /\ i + c <= n /\ x \in Nat /\ x + c = N
           /\ \A l \in (i + 1)..(i + c) : /\ IsTool(q[l])
                                          /\ \E k \in 1..N : q[l].id = q[i].calls[k].id
           /\ \A k \in (1..N) \ U(i) : \E l \in (i + 1)..(i + c) : q[l].id = q[i].calls[k].id
    BY <2>5, RowAnswers DEF U
  <2>7. Len(F[i]) = x + 1 /\ off[i + 1] = p + x
    <3>1. Len(F[i]) = x + 1
      BY <1>4
    <3>2. off[i + 1] = off[i] + Len(F[i]) /\ off[i] \in Nat
      BY <1>10
    <3>3. x \in Nat
      BY <2>6
    <3>4. off[i + 1] = off[i] + (x + 1)
      BY <3>1, <3>2
    <3> DEFINE u == off[i]
               v == off[i + 1]
    <3>5. v = u + (x + 1) /\ u \in Nat /\ p = u + 1
      BY <3>2, <3>4, <2>4
    <3> HIDE DEF u, v, x
    <3>6. v = p + x
      BY <3>3, <3>5
    <3> QED BY <3>1, <3>6 DEF v
  <2> HIDE DEF x, N
  <2>8. \A l \in (i + 1)..(i + c) : l \in 1..n
    BY <2>6, <1>1
  <2>9. \A l \in (i + 1)..(i + c) : Len(F[l]) = 1
    BY <2>6, <2>8, <1>9
  <2>10. \A d \in 0..c : off[i + 1 + d] = p + x + d
    <3>1. Len(F) = n /\ F \in Seq(Seq(Message)) /\ Len(r) \in Nat
      BY <1>1, <1>3
    <3>2. /\ Spread(F, Len(F), r, off) /\ i \in 1..Len(F) /\ i + c <= Len(F)
      BY <3>1, <1>2, <2>6
    <3> HIDE DEF n
    <3>3. \A d \in 0..c : off[i + 1 + d] = off[i + 1] + d
      <4>1. Single(F, i + 1, i + c)
        BY <2>9 DEF Single
      <4>2. c \in Nat
        BY <2>6
      <4>3. i \in 1..Len(F) /\ i + c <= Len(F) /\ Spread(F, Len(F), r, off)
        BY <3>2
      <4>4. F \in Seq(Seq(Message)) /\ Len(r) \in Nat
        BY <3>1
      <4> HIDE DEF N, x
      <4>5. Steady(off, i + 1, c)
        BY <4>1, <4>2, <4>3, <4>4, RowSpread
      <4> QED BY <4>5 DEF Steady
    <3> QED BY <3>3, <2>7
  <2>11. \A d \in 1..c : r[p + x + d] = q[i + d]
    <3> SUFFICES ASSUME NEW d \in 1..c PROVE r[p + x + d] = q[i + d]
      OBVIOUS
    <3>1. i + d \in 1..n /\ d - 1 \in 0..c /\ i + 1 + (d - 1) = i + d
      BY <2>6, <1>1
    <3>2. off[i + d] = p + x + (d - 1)
      BY <3>1, <2>10
    <3>3. off[i + d] + 1 = p + x + d
      BY <3>2, <2>6
    <3> QED BY <3>1, <3>3, <1>13
  <2>12. \A a \in 1..x : r[p + a] = F[i][1 + a] /\ 1 + a \in 2..Len(F[i])
    <3> SUFFICES ASSUME NEW a \in 1..x
                 PROVE  r[p + a] = F[i][1 + a] /\ 1 + a \in 2..Len(F[i])
      OBVIOUS
    <3>1. 1 + a \in 1..Len(F[i]) /\ 1 + a \in 2..Len(F[i])
      BY <2>6, <2>7
    <3>2. off[i] + (1 + a) = p + a
      <4> DEFINE u == off[i]
      <4>1. u \in Nat /\ p = u + 1 /\ a \in Nat
        BY <2>4, <2>6, <1>10
      <4> HIDE DEF u
      <4>2. u + (1 + a) = p + a
        BY <4>1
      <4> QED BY <4>2 DEF u
    <3>3. r[off[i] + (1 + a)] = F[i][1 + a]
      BY <3>1, <1>11
    <3> QED BY <3>1, <3>2, <3>3
  <2>13. N = Len(r[p].calls) /\ N = x + c
    BY <2>4, <2>6 DEF N
  <2>14. p + N <= Len(r)
    <3>1. i + c \in 1..n /\ c \in 0..c /\ i + 1 + c = (i + c) + 1
      BY <2>6, <1>1
    <3>2. off[(i + c) + 1] <= Len(r)
      BY <3>1, <1>10
    <3>3. off[i + 1 + c] = p + x + c
      BY <3>1, <2>10
    <3>4. p + x + c <= Len(r)
      BY <3>1, <3>2, <3>3
    <3> QED BY <3>4, <2>6, <2>13
  <2>15. \A j \in (p + 1)..(p + N) : (j - p) \in 1..x \/ (j - p - x) \in 1..c
    BY <2>6, <2>13
  <2>16. \A j \in (p + 1)..(p + N) : IsTool(r[j]) /\ \E k \in 1..N : r[j].id = q[i].calls[k].id
    <3> SUFFICES ASSUME NEW j \in (p + 1)..(p + N)
                 PROVE  IsTool(r[j]) /\ \E k \in 1..N : r[j].id = q[i].calls[k].id
      OBVIOUS
    <3>1. CASE (j - p) \in 1..x
      <4>1. r[p + (j - p)] = F[i][1 + (j - p)] /\ 1 + (j - p) \in 2..Len(F[i])
        BY <3>1, <2>12
      <4>2. p + (j - p) = j
        OBVIOUS
      <4>3. /\ F[i][1 + (j - p)].kind = "recovered"
            /\ \E k \in U(i) : F[i][1 + (j - p)].id = q[i].calls[k].id
        BY <4>1, <1>5
      <4>4. IsTool(F[i][1 + (j - p)])
        BY <4>3 DEF IsTool, ToolKinds
      <4>5. U(i) \in SUBSET (1..N)
        BY <1>7 DEF N
      <4>6. r[j] = F[i][1 + (j - p)]
        BY <4>1, <4>2
      <4> QED BY <4>3, <4>4, <4>5, <4>6
    <3>2. CASE (j - p - x) \in 1..c
      <4>1. p + x + (j - p - x) = j /\ i + (j - p - x) \in (i + 1)..(i + c)
        <5>1. x \in Nat /\ c \in Nat /\ p \in Nat /\ j \in Nat /\ i \in Nat
          BY <2>6, <1>1
        <5> QED BY <5>1, <3>2
      <4>2. r[j] = q[i + (j - p - x)]
        BY <4>1, <3>2, <2>11
      <4> QED BY <4>1, <4>2, <2>6
    <3> QED BY <3>1, <3>2, <2>15
  <2>17. \A k \in 1..N : \E j \in (p + 1)..(p + N) : r[j].id = q[i].calls[k].id
    <3> SUFFICES ASSUME NEW k \in 1..N
                 PROVE  \E j \in (p + 1)..(p + N) : r[j].id = q[i].calls[k].id
      OBVIOUS
    <3>1. CASE k \in U(i)
      <4>1. PICK d \in 2..Len(F[i]) : F[i][d].id = q[i].calls[k].id
        BY <3>1, <1>6
      <4>2. d - 1 \in 1..x /\ 1 + (d - 1) = d
        BY <2>6, <2>7
      <4>3. r[p + (d - 1)] = F[i][d]
        BY <4>2, <2>12
      <4>4. p + (d - 1) \in (p + 1)..(p + N)
        BY <4>2, <2>6, <2>13
      <4> QED BY <4>1, <4>3, <4>4
    <3>2. CASE k \notin U(i)
      <4>1. PICK l \in (i + 1)..(i + c) : q[l].id = q[i].calls[k].id
        BY <3>2, <2>6
      <4>2. l - i \in 1..c /\ i + (l - i) = l
        BY <2>6
      <4>3. r[p + x + (l - i)] = q[l]
        BY <4>2, <2>11
      <4>4. p + x + (l - i) \in (p + 1)..(p + N)
        BY <4>2, <2>6, <2>13
      <4> QED BY <4>1, <4>3, <4>4
    <3> QED BY <3>1, <3>2
  <2>18. r[p].calls = q[i].calls
    BY <2>4
  <2>19. {r[j].id : j \in (p + 1)..(p + N)} = {r[p].calls[k].id : k \in 1..N}
    <3>1. \A k \in 1..N : r[p].calls[k].id = q[i].calls[k].id
      BY <2>18
    <3>2. \A j \in (p + 1)..(p + N) : \E k \in 1..N : r[j].id = r[p].calls[k].id
      BY <2>16, <3>1
    <3>3. \A k \in 1..N : \E j \in (p + 1)..(p + N) : r[j].id = r[p].calls[k].id
      BY <2>17, <3>1
    <3> DEFINE A == {r[j].id : j \in (p + 1)..(p + N)}
               B == {r[p].calls[k].id : k \in 1..N}
    <3>4. \A z \in A : z \in B
      BY <3>2
    <3>5. \A z \in B : z \in A
      BY <3>3
    <3> QED BY <3>4, <3>5
  <2>20. \A j \in (p + 1)..(p + N) : IsTool(r[j])
    BY <2>16
  <2> QED BY <2>13, <2>14, <2>19, <2>20
<1>15. ASSUME NEW p \in 1..Len(r), IsTool(r[p])
       PROVE  \E j \in 1..(p - 1) : r[p].id \in {c.id : c \in Range(r[j].calls)}
  <2>1. PICK i \in 1..n : \E b \in 1..Len(F[i]) : p = off[i] + b
    BY <1>12
  <2>2. PICK b \in 1..Len(F[i]) : p = off[i] + b
    BY <2>1
  <2>3. ASSUME NEW j \in 1..n, NEW k \in 1..Len(q[j].calls), r[p].id = q[j].calls[k].id,
               off[j] + 1 < p
        PROVE  \E y \in 1..(p - 1) : r[p].id \in {c.id : c \in Range(r[y].calls)}
    <3>1. off[j] + 1 \in 1..(p - 1) /\ r[off[j] + 1] = q[j]
      <4>1. off[j] \in Nat
        BY <1>10
      <4> QED BY <4>1, <2>3, <1>13
    <3>2. q[j].calls \in Seq(CallOf)
      <4>1. q[j] \in Message
        BY <1>1
      <4> QED BY <4>1 DEF Message
    <3>3. q[j].calls[k] \in Range(q[j].calls)
      BY <3>2 DEF Range
    <3>4. r[p].id \in {c.id : c \in Range(q[j].calls)}
      BY <3>3, <2>3
    <3> QED BY <3>1, <3>4
  <2>4. CASE b = 1
    <3>1. r[p] = q[i] /\ p = off[i] + 1
      BY <2>2, <2>4, <1>13
    <3>2. PICK j \in 1..(i - 1) : \E k \in 1..Len(q[j].calls) : q[i].id = q[j].calls[k].id
      BY <3>1, <1>15 DEF Runs
    <3>3. PICK k \in 1..Len(q[j].calls) : q[i].id = q[j].calls[k].id
      BY <3>2
    <3>4. j \in 1..n /\ j < i
      BY <3>2, <1>1
    <3>5. off[j] + Len(F[j]) <= off[i]
      BY <3>4, <1>1, <1>2, <1>3, SpreadInOrder
    <3>6. off[j] + 1 < p
      <4>1. off[j] \in Nat /\ off[i] \in Nat /\ Len(F[j]) \in Nat /\ Len(F[j]) >= 1
        <5>1. off[j] \in Nat /\ off[i] \in Nat
          BY <3>4, <1>10
        <5>2. Len(F[j]) \in Nat /\ Len(F[j]) >= 1
          BY <3>4, <1>4
        <5> QED BY <5>1, <5>2
      <4> DEFINE u == off[j]
                 v == off[i]
                 w == Len(F[j])
      <4>2. u + w <= v /\ p = v + 1 /\ u \in Nat /\ v \in Nat /\ w \in Nat /\ w >= 1
        BY <4>1, <3>1, <3>5
      <4> HIDE DEF u, v, w
      <4>3. u + 1 < p
        BY <4>2
      <4> QED BY <4>3 DEF u
    <3> QED BY <3>1, <3>3, <3>4, <3>6, <2>3
  <2>5. CASE b # 1
    <3>1. b \in 2..Len(F[i])
      BY <2>5, <1>4
    <3>2. PICK k \in U(i) : F[i][b].id = q[i].calls[k].id
      BY <3>1, <1>5
    <3>3. r[p] = F[i][b]
      BY <2>2, <1>11
    <3>4. k \in 1..Len(q[i].calls)
      BY <1>7
    <3>5. off[i] + 1 < p
      BY <2>2, <3>1, <1>10
    <3> QED BY <3>2, <3>3, <3>4, <3>5, <2>3
  <2> QED BY <2>4, <2>5
<1> QED BY <1>3, <1>14, <1>15 DEF Paired, r

\* What the model is sent of a history that keeps its runs is paired.
LEMMA RequestIsPaired ==
  ASSUME NEW h \in Seq(Message), Formed(h), Runs(h)
  PROVE  Paired(TurnRequest(h))
<1>1. TurnRequest(h) = RepairToolCallPairing(Bare(h))
  BY DEF TurnRequest, Request, Bare
<1> QED BY <1>1, BareRuns, RepairedPaired

-----------------------------------------------------------------------------
(* Histories that grow.                                                     *)

\* What marking, copying and clearing leave of a message.
Kept(a, b) ==
  /\ a.kind = b.kind \/ (IsTool(b) /\ a.kind = "cleared")
  /\ a.n = b.n /\ a.calls = b.calls /\ a.id = b.id
  /\ a.tail = b.tail /\ a.covers = b.covers

\* g begins with the messages of h.
Grown(g, h) ==
  /\ g \in Seq(Message) /\ Len(h) <= Len(g)
  /\ \A i \in 1..Len(h) : Kept(g[i], h[i])

Same(g, h) == Grown(g, h) /\ Len(g) = Len(h)

\* What does not change of a message that is kept.
LEMMA KeptIs ==
  ASSUME NEW a, NEW b, Kept(a, b)
  PROVE  /\ IsTool(a) <=> IsTool(b)
         /\ \A kind \in Kinds \ ToolKinds : a.kind = kind <=> b.kind = kind
         /\ a.kind = "recovered" => b.kind = "recovered"
         /\ a.n = b.n /\ a.calls = b.calls /\ a.id = b.id
         /\ a.tail = b.tail /\ a.covers = b.covers
BY DEF Kept, IsTool, ToolKinds, Kinds

\* A message is kept as it is
LEMMA AlikeKept == ASSUME NEW a, NEW b, Alike(a, b) PROVE Kept(a, b)
BY DEF Alike, Kept

\* and only a result is kept otherwise.
LEMMA KeptAlike == ASSUME NEW a, NEW b, Kept(a, b), ~IsTool(b) PROVE Alike(a, b)
BY DEF Alike, Kept

\* To keep a message twice keeps it.
LEMMA KeptOn ==
  ASSUME NEW a, NEW b, NEW c, Kept(a, b), Kept(b, c)
  PROVE  Kept(a, c)
BY DEF Kept, IsTool, ToolKinds

\* A marked history is the same history.
LEMMA MarkedGrown ==
  ASSUME NEW h \in Seq(Message), NEW g, Marked(g, h)
  PROVE  Same(g, h)
BY AlikeKept DEF Marked, Same, Grown

\* A history is the same as itself.
LEMMA GrownSelf == ASSUME NEW h \in Seq(Message) PROVE Same(h, h)
BY DEF Same, Grown, Kept

\* To grow twice is to grow.
LEMMA GrownOn ==
  ASSUME NEW h \in Seq(Message), NEW g, NEW f, Grown(f, g), Grown(g, h)
  PROVE  Grown(f, h)
<1>1. f \in Seq(Message) /\ g \in Seq(Message)
  BY DEF Grown
<1>2. Len(h) \in Nat /\ Len(g) \in Nat /\ Len(f) \in Nat /\ Len(h) <= Len(g) /\ Len(g) <= Len(f)
  BY <1>1 DEF Grown
<1>3. ASSUME NEW i \in 1..Len(h) PROVE Kept(f[i], h[i])
  <2>1. i \in 1..Len(g)
    BY <1>2
  <2>2. Kept(f[i], g[i]) /\ Kept(g[i], h[i])
    BY <2>1 DEF Grown
  <2> QED BY <2>2, KeptOn
<1> QED BY <1>1, <1>2, <1>3 DEF Grown

\* A history grows by what is put behind it.
LEMMA GrownJoined ==
  ASSUME NEW h \in Seq(Message), NEW w \in Seq(Message)
  PROVE  Grown(h \o w, h)
<1>1. h \o w \in Seq(Message) /\ Len(h \o w) = Len(h) + Len(w) /\ Len(h) \in Nat /\ Len(w) \in Nat
  BY Joined
<1>2. \A i \in 1..Len(h) : (h \o w)[i] = h[i]
  BY Joined
<1> QED BY <1>1, <1>2 DEF Grown, Kept

\* The same history is as well-formed.
LEMMA FormedSame ==
  ASSUME NEW h \in Seq(Message), Formed(h), NEW g, Same(g, h)
  PROVE  Formed(g)
<1>1. Len(g) = Len(h) /\ Len(h) \in Nat /\ \A i \in 1..Len(h) : Kept(g[i], h[i])
  BY DEF Same, Grown
<1>2. Len(g) >= 1 /\ Alike(g[1], Msg("system", 0))
  <2>1. Len(h) >= 1 /\ Alike(h[1], Msg("system", 0))
    BY DEF Formed
  <2>2. h[1].kind = "system" /\ Kept(g[1], h[1])
    BY <1>1, <2>1 DEF Alike, Msg
  <2>3. Alike(g[1], h[1])
    BY <2>2 DEF Kept, Alike, IsTool, ToolKinds
  <2> QED BY <1>1, <2>1, <2>3 DEF Alike
<1>3. ASSUME NEW i \in 1..Len(h)
      PROVE  /\ g[i].kind # "recovered"
             /\ \A kind \in {"system", "marker", "summary"} : g[i].kind = kind <=> h[i].kind = kind
             /\ IsTool(g[i]) <=> IsTool(h[i])
             /\ g[i].tail = h[i].tail /\ g[i].covers = h[i].covers
  <2>1. Kept(g[i], h[i]) /\ h[i].kind # "recovered"
    BY <1>1 DEF Formed
  <2> QED BY <2>1, KeptIs DEF Kinds, ToolKinds
<1>4. ASSUME NEW i \in 1..Len(h), g[i].kind = "summary"
      PROVE  /\ g[i].tail \in 2..(i - 2) /\ ~IsTool(g[g[i].tail])
             /\ g[i - 1].kind = "marker"
             /\ Alike(g[i], Summary(g[i].tail, g[i].covers))
  <2>1. h[i].kind = "summary"
    BY <1>3, <1>4
  <2>2. /\ h[i].tail \in 2..(i - 2) /\ ~IsTool(h[h[i].tail])
        /\ h[i - 1].kind = "marker" /\ Alike(h[i], Summary(h[i].tail, h[i].covers))
    BY <2>1 DEF Formed
  <2>3. h[i].tail \in 1..Len(h) /\ i - 1 \in 1..Len(h)
    BY <2>2, <1>1
  <2>4. ~IsTool(g[h[i].tail]) /\ g[i - 1].kind = "marker"
    BY <2>2, <2>3, <1>3
  <2>5. g[i].tail = h[i].tail /\ g[i].covers = h[i].covers
    BY <1>3
  <2>6. Alike(g[i], h[i])
    BY <2>1, <1>1, KeptAlike DEF IsTool, ToolKinds
  <2>7. Alike(g[i], Summary(h[i].tail, h[i].covers))
    BY <2>2, <2>6 DEF Alike
  <2> QED BY <2>2, <2>4, <2>5, <2>7
<1>5. ASSUME NEW i \in 1..Len(h), g[i].kind = "marker"
      PROVE  /\ i + 1 \in 1..Len(h) /\ g[i + 1].kind = "summary"
             /\ Alike(g[i], Msg("marker", 0))
  <2>1. h[i].kind = "marker"
    BY <1>3, <1>5
  <2>2. i + 1 \in 1..Len(h) /\ h[i + 1].kind = "summary" /\ Alike(h[i], Msg("marker", 0))
    BY <2>1 DEF Formed
  <2>3. Alike(g[i], h[i])
    BY <2>1, <1>1, KeptAlike DEF IsTool, ToolKinds
  <2>4. g[i + 1].kind = "summary"
    BY <2>2, <1>3
  <2> QED BY <2>2, <2>3, <2>4 DEF Alike
<1>6. \A i \in 1..Len(h) : g[i].kind # "recovered" /\ (g[i].kind = "system" => i = 1)
  BY <1>3 DEF Formed
<1> QED BY <1>1, <1>2, <1>4, <1>5, <1>6 DEF Formed

\* In the same history results stand behind their calls as before.
LEMMA RunsSame ==
  ASSUME NEW h \in Seq(Message), Runs(h), NEW g, Same(g, h)
  PROVE  Runs(g)
<1>1. Len(g) = Len(h) /\ Len(h) \in Nat /\ \A i \in 1..Len(h) : Kept(g[i], h[i])
  BY DEF Same, Grown
<1>2. \A i \in 1..Len(h) : /\ g[i].calls = h[i].calls /\ g[i].id = h[i].id
                           /\ IsTool(g[i]) <=> IsTool(h[i])
                           /\ h[i].kind = "calls" => g[i].kind = "calls"
  <2> TAKE i \in 1..Len(h)
  <2>1. Kept(g[i], h[i])
    BY <1>1
  <2> QED BY <2>1, KeptIs DEF Kept, IsTool, ToolKinds
<1>3. \A i \in 1..Len(g) : Len(g[i].calls) > 0 => g[i].kind = "calls"
  BY <1>1, <1>2 DEF Runs
<1>4. \A i, j \in 1..Len(g) : \A k \in 1..Len(g[i].calls), l \in 1..Len(g[j].calls) :
        g[i].calls[k].id = g[j].calls[l].id => i = j /\ k = l
  <2>1. \A i, j \in 1..Len(h) : \A k \in 1..Len(h[i].calls), l \in 1..Len(h[j].calls) :
          h[i].calls[k].id = h[j].calls[l].id => i = j /\ k = l
    BY DEF Runs
  <2> SUFFICES ASSUME NEW i \in 1..Len(h), NEW j \in 1..Len(h),
                      NEW k \in 1..Len(g[i].calls), NEW l \in 1..Len(g[j].calls),
                      g[i].calls[k].id = g[j].calls[l].id
               PROVE  i = j /\ k = l
    BY <1>1
  <2>2. g[i].calls = h[i].calls /\ g[j].calls = h[j].calls
    BY <1>2
  <2> QED BY <2>1, <2>2
<1>5. ASSUME NEW i \in 1..Len(h), IsTool(g[i])
      PROVE  \E j \in 1..(i - 1) : /\ \E k \in 1..Len(g[j].calls) : g[i].id = g[j].calls[k].id
                                   /\ \A l \in (j + 1)..i : IsTool(g[l])
  <2>1. IsTool(h[i])
    BY <1>2, <1>5
  <2>2. PICK j \in 1..(i - 1) : /\ \E k \in 1..Len(h[j].calls) : h[i].id = h[j].calls[k].id
                                /\ \A l \in (j + 1)..i : IsTool(h[l])
    BY <2>1 DEF Runs
  <2>3. j \in 1..Len(h) /\ \A l \in (j + 1)..i : l \in 1..Len(h)
    BY <2>2, <1>1
  <2>4. g[j].calls = h[j].calls /\ g[i].id = h[i].id
    BY <2>3, <1>2
  <2>5. \E k \in 1..Len(g[j].calls) : g[i].id = g[j].calls[k].id
    BY <2>2, <2>4
  <2>6. \A l \in (j + 1)..i : IsTool(g[l])
    BY <2>2, <2>3, <1>2
  <2> QED BY <2>2, <2>5, <2>6
<1>6. \A i, j \in 1..Len(g) : IsTool(g[i]) /\ IsTool(g[j]) /\ g[i].id = g[j].id => i = j
  BY <1>1, <1>2 DEF Runs
<1> QED BY <1>1, <1>3, <1>4, <1>5, <1>6 DEF Runs

\* g goes on where h ends.
Continues(g, h) ==
  /\ g \in Seq(Message) /\ Len(h) <= Len(g)
  /\ \A i \in 1..Len(h) : g[i] = h[i]

Later(g, h) == (Len(h) + 1)..Len(g)

\* What is put behind a history continues it
LEMMA JoinContinues ==
  ASSUME NEW h \in Seq(Message), NEW w \in Seq(Message)
  PROVE  /\ Continues(h \o w, h)
         /\ \A i \in Later(h \o w, h) : i - Len(h) \in 1..Len(w) /\ (h \o w)[i] = w[i - Len(h)]
<1> DEFINE g == h \o w
<1>1. g \in Seq(Message) /\ Len(g) = Len(h) + Len(w) /\ Len(h) \in Nat /\ Len(w) \in Nat
  BY Joined
<1>2. \A i \in 1..Len(h) : g[i] = h[i]
  BY Joined
<1>3. \A i \in 1..Len(g) : i > Len(h) => i - Len(h) \in 1..Len(w) /\ g[i] = w[i - Len(h)]
  BY Joined
<1> HIDE DEF g
<1>4. \A i \in Later(g, h) : i - Len(h) \in 1..Len(w) /\ g[i] = w[i - Len(h)]
  BY <1>1, <1>3 DEF Later
<1>5. Continues(g, h)
  BY <1>1, <1>2 DEF Continues
<1> QED BY <1>4, <1>5 DEF g

\* and so does one message.
LEMMA AppendContinues ==
  ASSUME NEW h \in Seq(Message), NEW m \in Message
  PROVE  /\ Continues(Append(h, m), h) /\ Len(Append(h, m)) = Len(h) + 1
         /\ \A i \in Later(Append(h, m), h) : i = Len(h) + 1 /\ Append(h, m)[i] = m
<1>1. /\ Append(h, m) \in Seq(Message) /\ Len(Append(h, m)) = Len(h) + 1 /\ Len(h) \in Nat
      /\ \A i \in 1..Len(h) : Append(h, m)[i] = h[i]
      /\ Append(h, m)[Len(h) + 1] = m
  BY Appended
<1> DEFINE g == Append(h, m)
<1> HIDE DEF g
<1> QED BY <1>1 DEF Continues, Later

\* What continues a history is grown from it.
LEMMA ContinuesGrown ==
  ASSUME NEW h \in Seq(Message), NEW g, Continues(g, h)
  PROVE  Grown(g, h)
BY DEF Continues, Grown, Kept

\* Messages of the kinds in question change nothing in how a history is built.
LEMMA FormedContinued ==
  ASSUME NEW h \in Seq(Message), Formed(h), NEW g, Continues(g, h),
         \A i \in Later(g, h) : g[i].kind \notin {"recovered", "system", "marker", "summary"}
  PROVE  Formed(g)
<1>1. /\ Len(h) \in Nat /\ Len(g) \in Nat /\ Len(h) <= Len(g) /\ Len(h) >= 1
      /\ \A i \in 1..Len(h) : g[i] = h[i]
  BY DEF Continues, Formed
<1>2. \A i \in 1..Len(g) : i \in 1..Len(h) \/ i \in Later(g, h)
  BY <1>1 DEF Later
<1>3. Len(g) >= 1 /\ Alike(g[1], Msg("system", 0))
  BY <1>1 DEF Formed
<1>4. \A i \in 1..Len(g) : g[i].kind # "recovered" /\ (g[i].kind = "system" => i = 1)
  BY <1>1, <1>2 DEF Formed
<1>5. ASSUME NEW i \in 1..Len(g), g[i].kind = "summary"
      PROVE  /\ g[i].tail \in 2..(i - 2) /\ ~IsTool(g[g[i].tail])
             /\ g[i - 1].kind = "marker"
             /\ Alike(g[i], Summary(g[i].tail, g[i].covers))
  <2>1. i \in 1..Len(h) /\ g[i] = h[i]
    BY <1>1, <1>2, <1>5
  <2>2. /\ h[i].tail \in 2..(i - 2) /\ ~IsTool(h[h[i].tail])
        /\ h[i - 1].kind = "marker" /\ Alike(h[i], Summary(h[i].tail, h[i].covers))
    BY <2>1, <1>5 DEF Formed
  <2>3. h[i].tail \in 1..Len(h) /\ i - 1 \in 1..Len(h)
    BY <2>1, <2>2, <1>1
  <2>4. g[h[i].tail] = h[h[i].tail] /\ g[i - 1] = h[i - 1]
    BY <2>3, <1>1
  <2> QED BY <2>1, <2>2, <2>4
<1>6. ASSUME NEW i \in 1..Len(g), g[i].kind = "marker"
      PROVE  /\ i + 1 \in 1..Len(g) /\ g[i + 1].kind = "summary"
             /\ Alike(g[i], Msg("marker", 0))
  <2>1. i \in 1..Len(h) /\ g[i] = h[i]
    BY <1>1, <1>2, <1>6
  <2>2. i + 1 \in 1..Len(h) /\ h[i + 1].kind = "summary" /\ Alike(h[i], Msg("marker", 0))
    BY <2>1, <1>6 DEF Formed
  <2>3. g[i + 1] = h[i + 1] /\ i + 1 \in 1..Len(g)
    BY <2>2, <1>1
  <2> QED BY <2>1, <2>2, <2>3
<1> QED BY <1>3, <1>4, <1>5, <1>6 DEF Formed

\* Results stay behind their calls when what continues the history puts its own so.
LEMMA RunsContinued ==
  ASSUME NEW h \in Seq(Message), Runs(h), NEW g, Continues(g, h),
         \A i \in Later(g, h) : Len(g[i].calls) > 0 => g[i].kind = "calls",
         \A i \in Later(g, h), j \in 1..Len(g) :
           \A k \in 1..Len(g[i].calls), l \in 1..Len(g[j].calls) :
             g[i].calls[k].id = g[j].calls[l].id => i = j /\ k = l,
         \A i \in Later(g, h) : IsTool(g[i]) =>
           \E j \in 1..(i - 1) : /\ \E k \in 1..Len(g[j].calls) : g[i].id = g[j].calls[k].id
                                 /\ \A l \in (j + 1)..i : IsTool(g[l]),
         \A i \in Later(g, h), j \in 1..Len(g) :
           IsTool(g[i]) /\ IsTool(g[j]) /\ g[i].id = g[j].id => i = j
  PROVE  Runs(g)
<1>1. /\ Len(h) \in Nat /\ Len(g) \in Nat /\ Len(h) <= Len(g)
      /\ \A i \in 1..Len(h) : g[i] = h[i]
  BY DEF Continues
<1>2. \A i \in 1..Len(g) : i \in 1..Len(h) \/ i \in Later(g, h)
  BY <1>1 DEF Later
<1>3. \A i \in 1..Len(g) : Len(g[i].calls) > 0 => g[i].kind = "calls"
  BY <1>1, <1>2 DEF Runs
<1>4. ASSUME NEW i \in 1..Len(g), NEW j \in 1..Len(g),
             NEW k \in 1..Len(g[i].calls), NEW l \in 1..Len(g[j].calls),
             g[i].calls[k].id = g[j].calls[l].id
      PROVE  i = j /\ k = l
  <2>1. CASE i \in Later(g, h)
    <3>1. \A x \in 1..Len(g[i].calls), y \in 1..Len(g[j].calls) :
            g[i].calls[x].id = g[j].calls[y].id => i = j /\ x = y
      BY <2>1
    <3> QED BY <3>1, <1>4
  <2>2. CASE j \in Later(g, h)
    <3>1. \A x \in 1..Len(g[j].calls), y \in 1..Len(g[i].calls) :
            g[j].calls[x].id = g[i].calls[y].id => j = i /\ x = y
      BY <2>2
    <3> QED BY <3>1, <1>4
  <2>3. CASE i \in 1..Len(h) /\ j \in 1..Len(h)
    <3>1. g[i] = h[i] /\ g[j] = h[j]
      BY <2>3, <1>1
    <3>2. \A k1 \in 1..Len(h[i].calls), l1 \in 1..Len(h[j].calls) :
            h[i].calls[k1].id = h[j].calls[l1].id => i = j /\ k1 = l1
      BY <2>3 DEF Runs
    <3> QED BY <3>1, <3>2, <1>4
  <2> QED BY <2>1, <2>2, <2>3, <1>2
<1>5. ASSUME NEW i \in 1..Len(g), IsTool(g[i])
      PROVE  \E j \in 1..(i - 1) : /\ \E k \in 1..Len(g[j].calls) : g[i].id = g[j].calls[k].id
                                   /\ \A l \in (j + 1)..i : IsTool(g[l])
  <2>1. CASE i \in Later(g, h)
    BY <2>1, <1>5
  <2>2. CASE i \in 1..Len(h)
    <3>1. g[i] = h[i]
      BY <2>2, <1>1
    <3>2. PICK j \in 1..(i - 1) : /\ \E k \in 1..Len(h[j].calls) : h[i].id = h[j].calls[k].id
                                  /\ \A l \in (j + 1)..i : IsTool(h[l])
      BY <2>2, <3>1, <1>5 DEF Runs
    <3>3. j \in 1..Len(h) /\ \A l \in (j + 1)..i : l \in 1..Len(h)
      BY <2>2, <3>2, <1>1
    <3>4. g[j] = h[j] /\ \A l \in (j + 1)..i : g[l] = h[l]
      BY <3>3, <1>1
    <3> QED BY <3>1, <3>2, <3>4
  <2> QED BY <2>1, <2>2, <1>2
<1>6. ASSUME NEW i \in 1..Len(g), NEW j \in 1..Len(g), IsTool(g[i]), IsTool(g[j]), g[i].id = g[j].id
      PROVE  i = j
  <2>1. CASE i \in Later(g, h)
    BY <2>1, <1>6
  <2>2. CASE j \in Later(g, h)
    BY <2>2, <1>6
  <2>3. CASE i \in 1..Len(h) /\ j \in 1..Len(h)
    BY <2>3, <1>1, <1>6 DEF Runs
  <2> QED BY <2>1, <2>2, <2>3, <1>2
<1> QED BY <1>3, <1>4, <1>5, <1>6 DEF Runs

Plain(m) == /\ m.kind \in {"prompt", "steer", "notice", "pin", "auto", "text", "marker", "summary"}
            /\ Len(m.calls) = 0

\* Messages that are no calls and no results leave the runs as they are.
LEMMA RunsPlain ==
  ASSUME NEW h \in Seq(Message), Runs(h), NEW g, Continues(g, h),
         \A i \in Later(g, h) : Plain(g[i])
  PROVE  Runs(g)
<1>1. \A i \in Later(g, h) : Len(g[i].calls) = 0 /\ ~IsTool(g[i])
  BY DEF Plain, IsTool, ToolKinds
<1>2. \A i \in Later(g, h) : Len(g[i].calls) > 0 => g[i].kind = "calls"
  BY <1>1
<1>3. \A i \in Later(g, h), j \in 1..Len(g) :
        \A k \in 1..Len(g[i].calls), l \in 1..Len(g[j].calls) :
          g[i].calls[k].id = g[j].calls[l].id => i = j /\ k = l
  BY <1>1
<1>4. \A i \in Later(g, h) : IsTool(g[i]) =>
        \E j \in 1..(i - 1) : /\ \E k \in 1..Len(g[j].calls) : g[i].id = g[j].calls[k].id
                              /\ \A l \in (j + 1)..i : IsTool(g[l])
  BY <1>1
<1>5. \A i \in Later(g, h), j \in 1..Len(g) :
        IsTool(g[i]) /\ IsTool(g[j]) /\ g[i].id = g[j].id => i = j
  BY <1>1
<1> QED BY <1>2, <1>3, <1>4, <1>5, RunsContinued

\* The message with the calls: each has an id of its own, that no call before it has.
LEMMA RunsCalls ==
  ASSUME NEW h \in Seq(Message), Runs(h), NEW m \in Message, m.kind = "calls",
         \A k, l \in 1..Len(m.calls) : m.calls[k].id = m.calls[l].id => k = l,
         \A i \in 1..Len(h) : \A k \in 1..Len(h[i].calls), l \in 1..Len(m.calls) :
           h[i].calls[k].id # m.calls[l].id
  PROVE  Runs(Append(h, m))
<1> DEFINE g == Append(h, m)
<1>1. /\ Continues(g, h) /\ Len(g) = Len(h) + 1 /\ Len(h) \in Nat
      /\ \A i \in Later(g, h) : i = Len(h) + 1 /\ g[i] = m
  <2>1. Len(h) \in Nat
    OBVIOUS
  <2> QED BY <2>1, AppendContinues
<1> HIDE DEF g
<1>2. \A i \in Later(g, h) : g[i].kind = "calls" /\ ~IsTool(g[i])
  BY <1>1 DEF IsTool, ToolKinds
<1>3. ASSUME NEW i \in Later(g, h), NEW j \in 1..Len(g),
             NEW k \in 1..Len(g[i].calls), NEW l \in 1..Len(g[j].calls),
             g[i].calls[k].id = g[j].calls[l].id
      PROVE  i = j /\ k = l
  <2>1. i = Len(h) + 1 /\ g[i] = m
    BY <1>1
  <2>2. CASE j = Len(h) + 1
    BY <2>1, <2>2, <1>3
  <2>3. CASE j \in 1..Len(h)
    <3>1. g[j] = h[j]
      BY <2>3, <1>1 DEF Continues
    <3>2. k \in 1..Len(m.calls) /\ l \in 1..Len(h[j].calls)
      BY <2>1, <3>1
    <3>3. h[j].calls[l].id # m.calls[k].id
      BY <2>3, <3>2
    <3> QED BY <2>1, <3>1, <3>3, <1>3
  <2> QED BY <2>2, <2>3, <1>1
<1>4. \A i \in Later(g, h) : Len(g[i].calls) > 0 => g[i].kind = "calls"
  BY <1>2
<1>5. \A i \in Later(g, h) : IsTool(g[i]) =>
        \E j \in 1..(i - 1) : /\ \E k \in 1..Len(g[j].calls) : g[i].id = g[j].calls[k].id
                              /\ \A l \in (j + 1)..i : IsTool(g[l])
  BY <1>2
<1>6. \A i \in Later(g, h), j \in 1..Len(g) :
        IsTool(g[i]) /\ IsTool(g[j]) /\ g[i].id = g[j].id => i = j
  BY <1>2
<1>7. Runs(g)
  BY <1>1, <1>3, <1>4, <1>5, <1>6, RunsContinued
<1> QED BY <1>7 DEF g

\* The results of a message with calls, when nothing but results has followed it.
LEMMA RunsResults ==
  ASSUME NEW h \in Seq(Message), Runs(h), NEW g, Continues(g, h),
         NEW j \in 1..Len(h), \A l \in (j + 1)..Len(h) : IsTool(h[l]),
         \A i \in Later(g, h) : IsTool(g[i]) /\ Len(g[i].calls) = 0,
         \A i \in Later(g, h) : \E k \in 1..Len(h[j].calls) : g[i].id = h[j].calls[k].id,
         \A i, l \in Later(g, h) : g[i].id = g[l].id => i = l,
         \A i \in Later(g, h), l \in 1..Len(h) : IsTool(h[l]) => g[i].id # h[l].id
  PROVE  Runs(g)
<1>1. /\ Len(h) \in Nat /\ Len(g) \in Nat /\ Len(h) <= Len(g)
      /\ \A i \in 1..Len(h) : g[i] = h[i]
  BY DEF Continues
<1>2. \A i \in 1..Len(g) : i \in 1..Len(h) \/ i \in Later(g, h)
  BY <1>1 DEF Later
<1>3. \A i \in Later(g, h) : Len(g[i].calls) > 0 => g[i].kind = "calls"
  OBVIOUS
<1>4. ASSUME NEW i \in Later(g, h), NEW x \in 1..Len(g), NEW k \in 1..Len(g[i].calls),
             NEW l \in 1..Len(g[x].calls), g[i].calls[k].id = g[x].calls[l].id
      PROVE  i = x /\ k = l
  <2>1. Len(g[i].calls) = 0
    OBVIOUS
  <2>2. k \in 1..0
    BY <2>1
  <2> QED BY <2>2
<1>5. ASSUME NEW i \in Later(g, h), IsTool(g[i])
      PROVE  \E x \in 1..(i - 1) : /\ \E k \in 1..Len(g[x].calls) : g[i].id = g[x].calls[k].id
                                   /\ \A l \in (x + 1)..i : IsTool(g[l])
  <2>1. j \in 1..(i - 1) /\ g[j] = h[j]
    BY <1>1 DEF Later
  <2>2. \E k \in 1..Len(g[j].calls) : g[i].id = g[j].calls[k].id
    BY <2>1
  <2>3. ASSUME NEW l \in (j + 1)..i PROVE IsTool(g[l])
    <3>1. l \in 1..Len(g) /\ l > j
      BY <1>1 DEF Later
    <3>2. CASE l \in Later(g, h)
      BY <3>2
    <3>3. CASE l \in 1..Len(h)
      <4>1. l \in (j + 1)..Len(h) /\ g[l] = h[l]
        BY <3>1, <3>3, <1>1
      <4> QED BY <4>1
    <3> QED BY <3>1, <3>2, <3>3, <1>2
  <2> QED BY <2>1, <2>2, <2>3
<1>6. ASSUME NEW i \in Later(g, h), NEW x \in 1..Len(g), IsTool(g[i]), IsTool(g[x]), g[i].id = g[x].id
      PROVE  i = x
  <2>1. CASE x \in Later(g, h)
    BY <2>1, <1>6
  <2>2. CASE x \in 1..Len(h)
    <3>1. g[x] = h[x]
      BY <2>2, <1>1
    <3> QED BY <2>2, <3>1, <1>6
  <2> QED BY <2>1, <2>2, <1>2
<1> QED BY <1>3, <1>4, <1>5, <1>6, RunsContinued

-----------------------------------------------------------------------------
(* What keeps a history well-formed.                                        *)

\* A history as the program leaves it.
History(h) == h \in Seq(Message) /\ Formed(h)

\* What becomes of a history.
Follows(g, h) ==
  /\ History(g) /\ Grown(g, h) /\ (Runs(h) => Runs(g))
  /\ \A i \in Later(g, h) : Plain(g[i])

\* What a compaction may be applied to.
Cuts(c, h) == Cut(c) /\ c.first \in 2..Len(h) /\ ~IsTool(h[c.first])

\* The fields of a summary.
LEMMA SummaryFacts ==
  ASSUME NEW first \in Nat, NEW covers \in SUBSET Nat
  PROVE  /\ Summary(first, covers) \in Message /\ Summary(first, covers).kind = "summary"
         /\ Summary(first, covers).n = 0 /\ Summary(first, covers).calls = <<>>
         /\ Summary(first, covers).tail = first /\ Summary(first, covers).covers = covers
<1> DEFINE m == Msg("summary", 0)
<1>1. m \in Message /\ m.kind = "summary" /\ m.n = 0 /\ m.calls = <<>>
  <2>1. "summary" \in Kinds
    BY DEF Kinds
  <2> QED BY <2>1, MsgIs
<1>2. Summary(first, covers) = [m EXCEPT !.tail = first, !.covers = covers]
  BY DEF Summary
<1> HIDE DEF m
<1> QED BY <1>1, <1>2 DEF Message

\* To follow twice is to follow.
LEMMA FollowsOn ==
  ASSUME NEW h, History(h), NEW g, NEW f, Follows(f, g), Follows(g, h)
  PROVE  Follows(f, h)
<1>1. h \in Seq(Message) /\ g \in Seq(Message) /\ f \in Seq(Message)
  BY DEF History, Follows
<1>2. Grown(f, h)
  BY <1>1, GrownOn DEF Follows
<1>3. Len(h) \in Nat /\ Len(g) \in Nat /\ Len(f) \in Nat
  BY <1>1
<1>4. ASSUME NEW i \in Later(f, h) PROVE Plain(f[i])
  <2>1. CASE i \in Later(f, g)
    BY <2>1 DEF Follows
  <2>2. CASE i \notin Later(f, g)
    <3>1. i \in Later(g, h) /\ i \in 1..Len(g)
      BY <2>2, <1>3 DEF Later
    <3>2. Plain(g[i]) /\ Kept(f[i], g[i])
      BY <3>1 DEF Follows, Grown
    <3> QED BY <3>2 DEF Plain, Kept, IsTool, ToolKinds
  <2> QED BY <2>1, <2>2
<1> QED BY <1>2, <1>4 DEF Follows

\* The same history has nothing later
LEMMA NothingLater ==
  ASSUME NEW h \in Seq(Message), NEW g, Same(g, h)
  PROVE  Later(g, h) = {}
<1>1. Len(g) = Len(h) /\ Len(h) \in Nat
  BY DEF Same
<1> QED BY <1>1 DEF Later

\* A history follows itself
LEMMA FollowsSelf == ASSUME NEW h, History(h) PROVE Follows(h, h)
BY GrownSelf, NothingLater DEF Follows, History, Same

\* and the same history follows it
LEMMA FollowsSame ==
  ASSUME NEW h, History(h), NEW g, Same(g, h)
  PROVE  Follows(g, h)
BY FormedSame, RunsSame, NothingLater DEF History, Same, Grown, Follows

\* and so does one with messages behind it that neither call nor answer
LEMMA FollowsPlain ==
  ASSUME NEW h, History(h), NEW g, Continues(g, h),
         \A i \in Later(g, h) : Plain(g[i]) /\ g[i].kind \notin {"marker", "summary"}
  PROVE  Follows(g, h)
<1>1. h \in Seq(Message) /\ Formed(h) /\ g \in Seq(Message)
  BY DEF History, Continues
<1>2. \A i \in Later(g, h) : g[i].kind \notin {"recovered", "system", "marker", "summary"}
  BY DEF Plain
<1>3. Formed(g)
  BY <1>1, <1>2, FormedContinued
<1>4. Runs(h) => Runs(g)
  BY <1>1, RunsPlain
<1>5. Grown(g, h)
  BY <1>1, ContinuesGrown
<1>6. History(g)
  BY <1>1, <1>3 DEF History
<1> QED BY <1>4, <1>5, <1>6 DEF Follows

\* or with one of them.
LEMMA AppendPlain ==
  ASSUME NEW h, History(h), NEW m \in Message, Plain(m), m.kind \notin {"marker", "summary"}
  PROVE  Follows(Append(h, m), h) /\ Continues(Append(h, m), h)
<1>1. h \in Seq(Message)
  BY DEF History
<1> DEFINE g == Append(h, m)
<1>2. Continues(g, h) /\ \A i \in Later(g, h) : g[i] = m
  BY <1>1, AppendContinues
<1> HIDE DEF g
<1>3. Follows(g, h)
  BY <1>2, FollowsPlain
<1> QED BY <1>2, <1>3 DEF g

\* A compaction that finds something cuts within the history, and not before a result.
LEMMA CompactionCuts ==
  ASSUME NEW h \in Seq(Message), Compaction(h).first # 0
  PROVE  Cuts(Compaction(h), h)
<1> DEFINE c == Compaction(h)
<1>1. /\ Cut(c) /\ c.first \in Open(h) /\ c.first > Start(h)
      /\ IsUser(h[c.first]) \/ IsAssistant(h[c.first])
  BY CompactionIs
<1>2. Open(h) \in SUBSET (1..Len(h))
  BY WorkListIs
<1>3. Start(h) \in Nat \ {0}
  BY StartIs
<1> HIDE DEF c
<1>4. c.first \in 2..Len(h)
  BY <1>1, <1>2, <1>3
<1>5. ~IsTool(h[c.first])
  BY <1>1 DEF IsTool, IsUser, IsAssistant, ToolKinds, UserKinds, AssistantKinds
<1>6. Cuts(c, h)
  BY <1>1, <1>4, <1>5 DEF Cuts
<1> QED BY <1>6 DEF c

\* A compaction leaves a history, with a marker and a summary at its end.
LEMMA HistoryCompacted ==
  ASSUME NEW h, History(h), NEW c, Cuts(c, h)
  PROVE  LET g == MarkCompaction(h, c) IN
         Follows(g, h) /\ Len(g) = Len(h) + 2
<1> DEFINE f == Heads(h, c)
           w == <<Msg("marker", 0), Summary(c.first, c.covers)>>
           g == MarkCompaction(h, c)
           n == Len(h)
<1>1. h \in Seq(Message) /\ Formed(h) /\ n \in Nat
  BY DEF History
<1>2. Cut(c) /\ c.first \in Nat /\ c.covers \in SUBSET Nat
  BY DEF Cuts, Cut
<1>3. Marked(f, h)
  BY <1>1, <1>2, HeadsIs
<1>4. Same(f, h)
  BY <1>1, <1>3, MarkedGrown
<1>5. f \in Seq(Message) /\ Len(f) = n /\ \A i \in 1..n : Kept(f[i], h[i])
  BY <1>4 DEF Same, Grown
<1>6. Formed(f) /\ (Runs(h) => Runs(f))
  BY <1>1, <1>4, FormedSame, RunsSame
<1>7. g = f \o w
  BY DEF MarkCompaction, Heads, Summary
<1>8. /\ Msg("marker", 0) \in Message /\ Msg("marker", 0).kind = "marker"
      /\ Msg("marker", 0).calls = <<>>
  BY MsgIs DEF Kinds
<1>9. /\ Summary(c.first, c.covers) \in Message /\ Summary(c.first, c.covers).kind = "summary"
      /\ Summary(c.first, c.covers).calls = <<>>
      /\ Summary(c.first, c.covers).tail = c.first /\ Summary(c.first, c.covers).covers = c.covers
  BY <1>2, SummaryFacts
<1>10. w \in Seq(Message) /\ Len(w) = 2
  BY <1>8, <1>9
<1> DEFINE mk == Msg("marker", 0)
           sm == Summary(c.first, c.covers)
<1>11. w[1] = mk /\ w[2] = sm
  OBVIOUS
<1> HIDE DEF f, w, g
<1>12. Continues(g, f) /\ \A i \in Later(g, f) : i - n \in 1..2 /\ g[i] = w[i - n]
  BY <1>5, <1>7, <1>10, JoinContinues
<1>13. Len(g) = n + 2 /\ g \in Seq(Message)
  <2>1. Len(f \o w) = Len(f) + Len(w) /\ f \o w \in Seq(Message)
    BY <1>5, <1>10, Joined
  <2> QED BY <2>1, <1>5, <1>7, <1>10
<1>14. Later(g, f) = (n + 1)..(n + 2)
  BY <1>5, <1>13 DEF Later
<1>15. g[n + 1] = mk /\ g[n + 2] = sm
  <2>1. n + 1 \in Later(g, f) /\ n + 2 \in Later(g, f) /\ (n + 1) - n = 1 /\ (n + 2) - n = 2
    BY <1>1, <1>14
  <2>2. g[n + 1] = w[1] /\ g[n + 2] = w[2]
    BY <2>1, <1>12
  <2> QED BY <2>2, <1>11
<1>16. \A i \in 1..n : g[i] = f[i]
  BY <1>5, <1>12 DEF Continues
<1>17. \A i \in 1..(n + 2) : i \in 1..n \/ i = n + 1 \/ i = n + 2
  BY <1>1
<1>18. (\A i \in Later(g, f) : Plain(g[i])) /\ (Runs(h) => Runs(g))
  <2>1. \A i \in Later(g, f) : i = n + 1 \/ i = n + 2
    BY <1>1, <1>14
  <2>2. Plain(mk) /\ Plain(sm)
    BY <1>8, <1>9 DEF Plain
  <2> HIDE DEF mk, sm
  <2>3. \A i \in Later(g, f) : Plain(g[i])
    BY <2>1, <2>2, <1>15
  <2>4. Runs(f) => Runs(g)
    BY <2>3, <1>5, <1>12, RunsPlain
  <2> QED BY <2>3, <2>4, <1>6
<1>19. Formed(g)
  <2>1. Len(g) >= 1 /\ Alike(g[1], Msg("system", 0))
    <3>1. n >= 1 /\ Alike(f[1], Msg("system", 0))
      BY <1>5, <1>6 DEF Formed
    <3>2. 1 \in 1..n
      BY <3>1, <1>1
    <3> QED BY <3>1, <3>2, <1>13, <1>16
  <2>2. \A i \in 1..Len(g) : g[i].kind # "recovered" /\ (g[i].kind = "system" => i = 1)
    <3>1. \A i \in 1..n : f[i].kind # "recovered" /\ (f[i].kind = "system" => i = 1)
      BY <1>5, <1>6 DEF Formed
    <3> QED BY <3>1, <1>8, <1>9, <1>13, <1>15, <1>16, <1>17
  <2>3. ASSUME NEW i \in 1..Len(g), g[i].kind = "summary"
        PROVE  /\ g[i].tail \in 2..(i - 2) /\ ~IsTool(g[g[i].tail])
               /\ g[i - 1].kind = "marker"
               /\ Alike(g[i], Summary(g[i].tail, g[i].covers))
    <3>1. CASE i \in 1..n
      <4>1. f[i].kind = "summary" /\ i \in 1..Len(f)
        BY <3>1, <2>3, <1>5, <1>16
      <4>2. /\ f[i].tail \in 2..(i - 2) /\ ~IsTool(f[f[i].tail])
            /\ f[i - 1].kind = "marker" /\ Alike(f[i], Summary(f[i].tail, f[i].covers))
        BY <4>1, <1>6 DEF Formed
      <4>3. f[i].tail \in 1..n /\ i - 1 \in 1..n
        BY <3>1, <4>2, <1>1
      <4>4. g[f[i].tail] = f[f[i].tail] /\ g[i - 1] = f[i - 1] /\ g[i] = f[i]
        BY <3>1, <4>3, <1>16
      <4> QED BY <4>2, <4>4
    <3>2. CASE i = n + 1
      BY <3>2, <2>3, <1>8, <1>15
    <3>3. CASE i = n + 2
      <4>1. g[i] = sm /\ g[i].tail = c.first /\ g[i].covers = c.covers
        BY <3>3, <1>9, <1>15
      <4>2. c.first \in 2..n /\ c.first \in 1..n /\ ~IsTool(h[c.first])
        BY DEF Cuts
      <4>3. ~IsTool(g[c.first])
        <5>1. Kept(f[c.first], h[c.first]) /\ g[c.first] = f[c.first]
          BY <4>2, <1>5, <1>16
        <5> QED BY <5>1, <4>2 DEF Kept, IsTool
      <4>4. i - 1 = n + 1 /\ i - 2 = n
        BY <3>3, <1>1
      <4>5. g[i - 1].kind = "marker"
        BY <4>4, <1>8, <1>15
      <4>6. Alike(g[i], Summary(g[i].tail, g[i].covers))
        BY <4>1 DEF Alike
      <4> QED BY <4>1, <4>2, <4>3, <4>4, <4>5, <4>6
    <3> QED BY <3>1, <3>2, <3>3, <1>13, <1>17
  <2>4. ASSUME NEW i \in 1..Len(g), g[i].kind = "marker"
        PROVE  /\ i + 1 \in 1..Len(g) /\ g[i + 1].kind = "summary"
               /\ Alike(g[i], Msg("marker", 0))
    <3>1. CASE i \in 1..n
      <4>1. f[i].kind = "marker" /\ i \in 1..Len(f)
        BY <3>1, <2>4, <1>5, <1>16
      <4>2. i + 1 \in 1..Len(f) /\ f[i + 1].kind = "summary" /\ Alike(f[i], Msg("marker", 0))
        BY <4>1, <1>6 DEF Formed
      <4>3. i + 1 \in 1..n /\ g[i + 1] = f[i + 1] /\ g[i] = f[i]
        BY <3>1, <4>2, <1>5, <1>16
      <4> QED BY <4>2, <4>3, <1>13, <1>1
    <3>2. CASE i = n + 1
      <4>1. i + 1 = n + 2 /\ g[i] = mk
        BY <3>2, <1>1, <1>15
      <4>2. g[i + 1].kind = "summary" /\ i + 1 \in 1..Len(g)
        BY <4>1, <1>1, <1>9, <1>13, <1>15
      <4>3. Alike(g[i], Msg("marker", 0))
        BY <4>1 DEF Alike
      <4> QED BY <4>2, <4>3
    <3>3. CASE i = n + 2
      BY <3>3, <2>4, <1>9, <1>15
    <3> QED BY <3>1, <3>2, <3>3, <1>13, <1>17
  <2> QED BY <2>1, <2>2, <2>3, <2>4 DEF Formed
<1>20. Grown(g, h)
  <2>1. \A i \in 1..n : Kept(g[i], h[i])
    BY <1>5, <1>16
  <2> QED BY <2>1, <1>1, <1>13 DEF Grown
<1>21. History(g)
  BY <1>13, <1>19 DEF History
<1>22. Later(g, h) = Later(g, f)
  BY <1>5 DEF Later
<1>23. Follows(g, h)
  BY <1>18, <1>20, <1>21, <1>22 DEF Follows
<1> QED BY <1>13, <1>23 DEF g

\* What is pruned are results.
LEMMA PrunableAre ==
  ASSUME NEW h \in Seq(Message)
  PROVE  \A i \in Prunable(h) : i \in DOMAIN h /\ IsTool(h[i])
BY DEF Prunable

\* Only results are cleared, and they stay where they are.
LEMMA HistoryPruned ==
  ASSUME NEW h, History(h)
  PROVE  Follows(Pruned(h), h) /\ Same(Pruned(h), h)
<1> DEFINE g == Pruned(h)
           S == Prunable(h)
<1>1. h \in Seq(Message)
  BY DEF History
<1>2. g = MarkCleared(h, S)
  BY DEF Pruned
<1>3. \A i \in S : IsTool(h[i])
  BY <1>1, PrunableAre
<1> HIDE DEF S, g
<1>4. /\ g \in Seq(Message) /\ Len(g) = Len(h)
      /\ \A i \in 1..Len(h) : i \notin S => g[i] = h[i]
  BY <1>1, <1>2, MarkClearedIs
<1>5. \A i \in 1..Len(h) : i \in S =>
              /\ g[i].kind = "cleared" /\ g[i].n = h[i].n /\ g[i].calls = h[i].calls
              /\ g[i].id = h[i].id /\ g[i].tail = h[i].tail /\ g[i].covers = h[i].covers
  BY <1>1, <1>2, MarkClearedIs
<1>6. ASSUME NEW i \in 1..Len(h) PROVE Kept(g[i], h[i])
  <2>1. CASE i \in S
    BY <2>1, <1>3, <1>5 DEF Kept
  <2>2. CASE i \notin S
    <3>1. g[i] = h[i]
      BY <2>2, <1>4
    <3> QED BY <3>1 DEF Kept
  <2> QED BY <2>1, <2>2
<1>7. Same(g, h)
  <2>1. Len(h) \in Nat
    BY <1>1
  <2> QED BY <2>1, <1>4, <1>6 DEF Same, Grown
<1>8. Follows(g, h)
  BY <1>7, FollowsSame
<1> QED BY <1>7, <1>8 DEF g

\* A history in which a usage is recorded follows the history.
LEMMA HistoryRecorded ==
  ASSUME NEW h, History(h), NEW u \in Nat
  PROVE  Follows(RecordUsage(h, u), h) /\ Same(RecordUsage(h, u), h)
<1>1. h \in Seq(Message)
  BY DEF History
<1>2. Marked(RecordUsage(h, u), h)
  BY <1>1, RecordUsageIs
<1>3. Same(RecordUsage(h, u), h)
  BY <1>1, <1>2, MarkedGrown
<1> QED BY <1>3, FollowsSame

\* The message that tells the model to go on.
LEMMA AutoIs == Msg("auto", 0) \in Message /\ Plain(Msg("auto", 0)) /\ Msg("auto", 0).kind = "auto"
<1>1. Msg("auto", 0) \in Message /\ Msg("auto", 0).kind = "auto" /\ Msg("auto", 0).calls = <<>>
  BY MsgIs DEF Kinds
<1>2. Len(Msg("auto", 0).calls) = 0
  BY <1>1
<1> QED BY <1>1, <1>2 DEF Plain

\* Whatever comes of an attempt to compact.
LEMMA HistoryForced ==
  ASSUME NEW h, History(h), NEW continue, NEW g \in ForceCompact(h, continue)
  PROVE  Follows(g, h)
<1> DEFINE c == Compaction(h)
           k == MarkCompaction(h, c)
<1>1. h \in Seq(Message)
  BY DEF History
<1>2. g = h \/ (c.first # 0 /\ (g = Append(k, Msg("auto", 0)) \/ g = k))
  BY DEF ForceCompact
<1>3. CASE g = h
  BY <1>3, FollowsSelf
<1>4. CASE c.first # 0 /\ (g = Append(k, Msg("auto", 0)) \/ g = k)
  <2>1. Cuts(c, h)
    BY <1>1, <1>4, CompactionCuts
  <2> HIDE DEF c
  <2>2. Follows(k, h)
    BY <2>1, HistoryCompacted
  <2> HIDE DEF k
  <2>3. CASE g = k
    BY <2>2, <2>3
  <2>4. CASE g = Append(k, Msg("auto", 0))
    <3> DEFINE a == Msg("auto", 0)
    <3>1. a \in Message /\ Plain(a) /\ a.kind \notin {"marker", "summary"}
      BY AutoIs
    <3> HIDE DEF a
    <3>2. Follows(Append(k, a), k)
      BY <2>2, <3>1, AppendPlain DEF Follows
    <3>3. Follows(Append(k, a), h)
      BY <2>2, <3>2, FollowsOn
    <3> QED BY <2>4, <3>3 DEF a
  <2> QED BY <2>3, <2>4, <1>4
<1> QED BY <1>2, <1>3, <1>4

-----------------------------------------------------------------------------
(* What a history tells: summaries cover what is compacted.                 *)

\* Summaries reach further one after another,
InOrder(h) ==
  \A i, j \in 1..Len(h) :
    h[i].kind = "summary" /\ h[j].kind = "summary" /\ i < j => h[i].tail <= h[j].tail

\* each tells of all that is before its tail, but for the results that were cleared,
Summarised(h) ==
  \A j \in 1..Len(h) : h[j].kind = "summary" =>
    \A i \in 1..Len(h) : i < h[j].tail => h[i].n \in h[j].covers \cup Cleared(h) \cup {0}

\* and what is compacted is cleared or before the tail of a summary.
Accounted(h) ==
  \A i \in 1..Len(h) : h[i].compacted =>
    h[i].kind = "cleared" \/ \E j \in 1..Len(h) : h[j].kind = "summary" /\ i < h[j].tail

Covered(h) == InOrder(h) /\ Summarised(h) /\ Accounted(h)

\* A summary c may be put behind h.
Takes(c, h) ==
  /\ \A j \in 1..Len(h) : h[j].kind = "summary" => h[j].tail <= c.first
  /\ \A i \in 1..Len(h) : i < c.first => h[i].n \in c.covers \cup Cleared(h) \cup {0}

\* What has been cleared
LEMMA ClearedHas ==
  ASSUME NEW h \in Seq(Message), NEW x
  PROVE  x \in Cleared(h) <=> \E i \in 1..Len(h) : h[i].kind = "cleared" /\ h[i].n = x
<1>1. DOMAIN h = 1..Len(h)
  OBVIOUS
<1> QED BY <1>1 DEF Cleared

\* What was cleared stays so when a history grows.
LEMMA ClearedGrown ==
  ASSUME NEW h \in Seq(Message), NEW g, Grown(g, h)
  PROVE  Cleared(h) \subseteq Cleared(g)
<1> SUFFICES ASSUME NEW x \in Cleared(h) PROVE x \in Cleared(g)
  OBVIOUS
<1>1. PICK i \in 1..Len(h) : h[i].kind = "cleared" /\ h[i].n = x
  BY ClearedHas
<1>2. g \in Seq(Message) /\ Len(h) <= Len(g) /\ Len(h) \in Nat /\ Len(g) \in Nat /\ Kept(g[i], h[i])
  BY DEF Grown
<1>3. i \in 1..Len(g)
  BY <1>2
<1>4. g[i].kind = "cleared" /\ g[i].n = x
  BY <1>1, <1>2 DEF Kept
<1> QED BY <1>2, <1>3, <1>4, ClearedHas

\* Where the tail of a summary starts.
LEMMA TailStarts ==
  ASSUME NEW h \in Seq(Message), Formed(h), NEW j \in 1..Len(h), h[j].kind = "summary"
  PROVE  h[j].tail \in Nat /\ h[j].tail >= 2 /\ h[j].tail <= j - 2 /\ j \in Nat /\ Len(h) \in Nat
<1>1. h[j].tail \in 2..(j - 2) /\ j \in Nat /\ Len(h) \in Nat
  BY DEF Formed
<1> QED BY <1>1

\* A history without new summaries stays covered.
LEMMA CoveredGrown ==
  ASSUME NEW h \in Seq(Message), Formed(h), Covered(h), NEW g, Grown(g, h),
         \A i \in Later(g, h) : g[i].kind # "summary" /\ ~g[i].compacted,
         \A i \in 1..Len(h) : g[i].compacted =>
           \/ h[i].compacted \/ g[i].kind = "cleared"
           \/ \E j \in 1..Len(h) : h[j].kind = "summary" /\ i < h[j].tail
  PROVE  Covered(g)
<1>1. g \in Seq(Message) /\ Len(h) <= Len(g) /\ Len(h) \in Nat /\ Len(g) \in Nat
  BY DEF Grown
<1>2. \A i \in 1..Len(g) : i \in 1..Len(h) \/ i \in Later(g, h)
  BY <1>1 DEF Later
<1>3. \A i \in 1..Len(h) : i \in 1..Len(g)
  BY <1>1
<1>4. ASSUME NEW i \in 1..Len(h)
      PROVE  /\ g[i].kind = "summary" <=> h[i].kind = "summary"
             /\ g[i].tail = h[i].tail /\ g[i].covers = h[i].covers /\ g[i].n = h[i].n
             /\ h[i].kind = "cleared" => g[i].kind = "cleared"
  <2>1. Kept(g[i], h[i])
    BY DEF Grown
  <2>2. "summary" \in Kinds \ ToolKinds
    BY DEF Kinds, ToolKinds
  <2>3. h[i].kind = "cleared" => g[i].kind = "cleared"
    BY <2>1 DEF Kept
  <2> QED BY <2>1, <2>2, <2>3, KeptIs
<1>5. \A i \in 1..Len(g) : g[i].kind = "summary" => i \in 1..Len(h) /\ h[i].kind = "summary"
  BY <1>2, <1>4
<1>6. InOrder(g)
  <2> SUFFICES ASSUME NEW i \in 1..Len(g), NEW j \in 1..Len(g),
                      g[i].kind = "summary", g[j].kind = "summary", i < j
               PROVE  g[i].tail <= g[j].tail
    BY DEF InOrder
  <2>1. i \in 1..Len(h) /\ h[i].kind = "summary" /\ j \in 1..Len(h) /\ h[j].kind = "summary"
    BY <1>5
  <2>2. h[i].tail <= h[j].tail
    BY <2>1 DEF Covered, InOrder
  <2> QED BY <2>1, <2>2, <1>4
<1>7. Summarised(g)
  <2> SUFFICES ASSUME NEW j \in 1..Len(g), g[j].kind = "summary", NEW i \in 1..Len(g), i < g[j].tail
               PROVE  g[i].n \in g[j].covers \cup Cleared(g) \cup {0}
    BY DEF Summarised
  <2>1. j \in 1..Len(h) /\ h[j].kind = "summary"
    BY <1>5
  <2>2. g[j].tail = h[j].tail /\ g[j].covers = h[j].covers
    BY <2>1, <1>4
  <2>3. h[j].tail \in Nat /\ h[j].tail <= j - 2 /\ j \in Nat
    BY <2>1, TailStarts
  <2>4. i \in 1..Len(h) /\ i < h[j].tail
    BY <1>1, <2>1, <2>2, <2>3
  <2>5. h[i].n \in h[j].covers \cup Cleared(h) \cup {0}
    BY <2>1, <2>4 DEF Covered, Summarised
  <2>6. g[i].n = h[i].n
    BY <2>4, <1>4
  <2> QED BY <2>2, <2>5, <2>6, ClearedGrown
<1>8. Accounted(g)
  <2> SUFFICES ASSUME NEW i \in 1..Len(g), g[i].compacted, g[i].kind # "cleared"
               PROVE  \E j \in 1..Len(g) : g[j].kind = "summary" /\ i < g[j].tail
    BY DEF Accounted
  <2>1. i \in 1..Len(h)
    BY <1>2
  <2>2. h[i].compacted \/ \E j \in 1..Len(h) : h[j].kind = "summary" /\ i < h[j].tail
    BY <2>1
  <2>3. h[i].kind # "cleared"
    BY <2>1, <1>4
  <2>4. PICK j \in 1..Len(h) : h[j].kind = "summary" /\ i < h[j].tail
    BY <2>1, <2>2, <2>3 DEF Covered, Accounted
  <2>5. j \in 1..Len(g) /\ g[j].kind = "summary" /\ g[j].tail = h[j].tail
    BY <2>4, <1>3, <1>4
  <2> QED BY <2>4, <2>5
<1> QED BY <1>6, <1>7, <1>8 DEF Covered

\* What a summary may be put behind it may be put behind when no other has come since.
LEMMA TakesGrown ==
  ASSUME NEW h \in Seq(Message), NEW c, Cuts(c, h), Takes(c, h), NEW g, Grown(g, h),
         \A i \in Later(g, h) : g[i].kind # "summary"
  PROVE  Takes(c, g)
<1>1. g \in Seq(Message) /\ Len(h) <= Len(g) /\ Len(h) \in Nat /\ Len(g) \in Nat
  BY DEF Grown
<1>2. \A i \in 1..Len(g) : i \in 1..Len(h) \/ i \in Later(g, h)
  BY <1>1 DEF Later
<1>3. c.first \in Nat /\ c.first <= Len(h)
  BY <1>1 DEF Cuts
<1>4. ASSUME NEW j \in 1..Len(g), g[j].kind = "summary" PROVE g[j].tail <= c.first
  <2>1. j \in 1..Len(h)
    BY <1>2, <1>4
  <2>2. Kept(g[j], h[j])
    BY <2>1 DEF Grown
  <2>3. "summary" \in Kinds \ ToolKinds
    BY DEF Kinds, ToolKinds
  <2>4. h[j].kind = "summary" /\ g[j].tail = h[j].tail
    BY <1>4, <2>2, <2>3, KeptIs
  <2> QED BY <2>1, <2>4 DEF Takes
<1>5. ASSUME NEW i \in 1..Len(g), i < c.first PROVE g[i].n \in c.covers \cup Cleared(g) \cup {0}
  <2>1. i \in 1..Len(h)
    BY <1>1, <1>3, <1>5
  <2>2. Kept(g[i], h[i])
    BY <2>1 DEF Grown
  <2>3. g[i].n = h[i].n
    BY <2>2, KeptIs
  <2>4. h[i].n \in c.covers \cup Cleared(h) \cup {0}
    BY <2>1, <1>5 DEF Takes
  <2> QED BY <2>3, <2>4, ClearedGrown
<1> QED BY <1>4, <1>5 DEF Takes

\* A compaction adds a summary that tells of all before its tail.
LEMMA CompactionTakes ==
  ASSUME NEW h \in Seq(Message), Formed(h), Covered(h), Compaction(h).first # 0
  PROVE  Takes(Compaction(h), h)
<1> DEFINE c == Compaction(h)
           s == LastSummary(h)
<1>1. /\ c.first \in Open(h) /\ c.first > Start(h)
      /\ \A i \in Open(h) : i < c.first => h[i].n \in c.covers \cup {0}
      /\ s # 0 => h[s].covers \subseteq c.covers
  BY CompactionIs
<1>2. /\ s \in 0..Len(h)
      /\ s # 0 => h[s].kind = "summary"
      /\ \A i \in 1..Len(h) : h[i].kind = "summary" => i <= s /\ s # 0
  BY LastSummaryIs
<1>0. c.first \in 1..Len(h) /\ Len(h) \in Nat /\ Start(h) \in Nat
  BY <1>1, WorkListIs, StartIs
<1> HIDE DEF c, s
<1>3. ASSUME NEW j \in 1..Len(h), h[j].kind = "summary"
      PROVE  h[j].tail <= h[s].tail /\ h[s].tail \in Nat /\ h[j].tail \in Nat /\ s \in 1..Len(h)
  <2>1. s \in 1..Len(h) /\ j <= s /\ h[s].kind = "summary" /\ s \in Nat /\ j \in Nat
    BY <1>0, <1>2, <1>3
  <2>2. h[s].tail \in Nat /\ h[j].tail \in Nat
    BY <1>3, <2>1, TailStarts
  <2>3. CASE j = s
    BY <2>1, <2>2, <2>3
  <2>4. CASE j # s
    <3>1. j < s
      BY <2>1, <2>4
    <3> QED BY <1>3, <2>1, <2>2, <3>1 DEF Covered, InOrder
  <2> QED BY <2>3, <2>4
<1>4. ASSUME s # 0 PROVE Start(h) = h[s].tail
  <2>1. s \in 1..Len(h) /\ h[s].kind = "summary"
    BY <1>0, <1>2, <1>4
  <2>2. h[s].tail \in Nat /\ h[s].tail >= 2 /\ h[s].tail <= s - 2 /\ s \in Nat
    BY <2>1, TailStarts
  <2>3. h[s].tail \in 2..(s - 1)
    BY <2>2
  <2>4. IsSummary(h[s])
    BY <2>1 DEF IsSummary
  <2>5. CASE Start(h) = 1
    \* The work list starts at 1 only when no summary points back.
    <3> DEFINE starts == {i \in DOMAIN h : IsSummary(h[i]) /\ h[i].tail \in 2..(i - 1)}
    <3>1. s \in starts /\ starts # {} /\ starts \in SUBSET (1..Len(h))
      BY <2>1, <2>3, <2>4
    <3>2. Start(h) = h[Max(starts)].tail
      BY <3>1 DEF Start
    <3> HIDE DEF starts
    <3>3. Max(starts) \in starts
      BY <1>0, <3>1, Greatest
    <3>4. h[Max(starts)].tail \in 2..(Max(starts) - 1)
      BY <3>3 DEF starts
    <3> QED BY <2>5, <3>2, <3>4
  <2>6. CASE Start(h) # 1
    <3>1. PICK i \in 1..Len(h) : /\ IsSummary(h[i]) /\ Start(h) = h[i].tail
                                 /\ \A j \in 1..Len(h) :
                                      IsSummary(h[j]) /\ h[j].tail \in 2..(j - 1) => j <= i
      BY <2>6, StartIs
    <3>2. s <= i
      BY <2>1, <2>3, <2>4, <3>1
    <3>3. i <= s
      BY <1>2, <3>1 DEF IsSummary
    <3>4. i = s
      BY <2>2, <3>2, <3>3
    <3> QED BY <3>1, <3>4
  <2> QED BY <2>5, <2>6
<1>5. ASSUME NEW j \in 1..Len(h), h[j].kind = "summary" PROVE h[j].tail <= c.first
  <2>1. h[j].tail <= h[s].tail /\ h[s].tail \in Nat /\ h[j].tail \in Nat /\ s # 0
    BY <1>2, <1>3, <1>5
  <2>2. h[s].tail < c.first /\ c.first \in Nat
    BY <1>0, <1>1, <1>4, <2>1
  <2> QED BY <2>1, <2>2
<1>6. ASSUME NEW i \in 1..Len(h), s # 0, i < h[s].tail
      PROVE  h[i].n \in c.covers \cup Cleared(h) \cup {0}
  <2>1. s \in 1..Len(h) /\ h[s].kind = "summary"
    BY <1>0, <1>2, <1>6
  <2>2. h[i].n \in h[s].covers \cup Cleared(h) \cup {0}
    BY <1>6, <2>1 DEF Covered, Summarised
  <2> QED BY <1>1, <1>6, <2>2
<1>7. ASSUME NEW i \in 1..Len(h), i < c.first PROVE h[i].n \in c.covers \cup Cleared(h) \cup {0}
  <2>1. CASE i \in Open(h)
    BY <1>1, <1>7, <2>1
  <2>2. CASE i < Start(h)
    <3>1. s # 0
      <4> SUFFICES ASSUME s = 0 PROVE FALSE
        OBVIOUS
      <4>1. Start(h) # 1
        BY <2>2
      <4>2. PICK j \in 1..Len(h) : IsSummary(h[j])
        BY <4>1, StartIs
      <4> QED BY <4>2, <1>2 DEF IsSummary
    <3>2. i < h[s].tail
      BY <2>2, <3>1, <1>4
    <3> QED BY <3>1, <3>2, <1>6
  <2>3. CASE h[i].compacted
    <3>1. CASE h[i].kind = "cleared"
      BY <3>1, ClearedHas
    <3>2. CASE h[i].kind # "cleared"
      <4>1. PICK j \in 1..Len(h) : h[j].kind = "summary" /\ i < h[j].tail
        BY <2>3, <3>2 DEF Covered, Accounted
      <4>2. h[j].tail <= h[s].tail /\ h[s].tail \in Nat /\ h[j].tail \in Nat /\ s \in 1..Len(h)
        BY <4>1, <1>3
      <4>3. i < h[s].tail /\ s # 0
        BY <4>1, <4>2
      <4> QED BY <4>3, <1>6
    <3> QED BY <3>1, <3>2
  <2>4. CASE h[i].kind \in {"summary", "marker"}
    <3>1. Alike(h[i], Summary(h[i].tail, h[i].covers)) \/ Alike(h[i], Msg("marker", 0))
      BY <2>4 DEF Formed
    <3>2. h[i].n = 0
      BY <3>1 DEF Alike, Summary, Msg
    <3> QED BY <3>2
  <2>5. i \in Open(h) \/ i < Start(h) \/ h[i].compacted \/ h[i].kind \in {"summary", "marker"}
    <3>1. i \in Start(h)..Len(h) \/ i < Start(h)
      BY <1>0
    <3> QED BY <3>1 DEF Open
  <2> QED BY <2>1, <2>2, <2>3, <2>4, <2>5
<1>8. Takes(c, h)
  BY <1>5, <1>7 DEF Takes
<1> QED BY <1>8 DEF c

\* A history with a summary behind it that may be put there is covered.
LEMMA CoveredCompacted ==
  ASSUME NEW h \in Seq(Message), Formed(h), Covered(h), NEW c, Cuts(c, h), Takes(c, h)
  PROVE  Covered(MarkCompaction(h, c))
<1> DEFINE g == MarkCompaction(h, c)
           n == Len(h)
<1>1. Cut(c) /\ c.first \in Nat /\ c.covers \in SUBSET Nat /\ n \in Nat
  BY DEF Cuts, Cut
<1>2. /\ g \in Seq(Message) /\ Len(g) = n + 2
      /\ \A i \in 1..n : /\ Alike(g[i], h[i])
                         /\ g[i].compacted <=>
                              (h[i].compacted \/ (i < c.first /\ h[i].kind # "system"))
      /\ g[n + 1] = Msg("marker", 0)
      /\ g[n + 2] = Summary(c.first, c.covers)
  BY <1>1, MarkCompactionIs DEF Summary
<1>3. /\ g[n + 2].kind = "summary" /\ g[n + 2].tail = c.first /\ g[n + 2].covers = c.covers
      /\ g[n + 2].n = 0
  BY <1>1, <1>2, SummaryFacts
<1>4. g[n + 1].kind = "marker" /\ ~g[n + 1].compacted
  BY <1>2, MsgIs DEF Kinds
<1>5. ~g[n + 2].compacted
  BY <1>2 DEF Summary, Msg
<1>6. Grown(g, h)
  <2>1. \A i \in 1..n : Kept(g[i], h[i])
    BY <1>2, AlikeKept
  <2> QED BY <1>1, <1>2, <2>1 DEF Grown
<1> HIDE DEF g
<1>7. \A i \in 1..Len(g) : i \in 1..n \/ i = n + 1 \/ i = n + 2
  BY <1>1, <1>2
<1>8. \A i \in 1..n : /\ g[i].kind = h[i].kind /\ g[i].n = h[i].n
                      /\ g[i].tail = h[i].tail /\ g[i].covers = h[i].covers
  BY <1>2 DEF Alike
<1>9. \A i \in 1..n : h[i].kind = "summary" => h[i].tail <= c.first /\ h[i].tail \in Nat /\ h[i].tail <= n
  <2> SUFFICES ASSUME NEW i \in 1..n, h[i].kind = "summary"
               PROVE  h[i].tail <= c.first /\ h[i].tail \in Nat /\ h[i].tail <= n
    OBVIOUS
  <2>1. h[i].tail \in Nat /\ h[i].tail <= i - 2 /\ i \in Nat
    BY TailStarts
  <2>2. i <= n
    BY <1>1
  <2> QED BY <1>1, <2>1, <2>2 DEF Takes
<1>10. InOrder(g)
  <2> SUFFICES ASSUME NEW i \in 1..Len(g), NEW j \in 1..Len(g),
                      g[i].kind = "summary", g[j].kind = "summary", i < j
               PROVE  g[i].tail <= g[j].tail
    BY DEF InOrder
  <2>1. (i \in 1..n \/ i = n + 2) /\ (j \in 1..n \/ j = n + 2)
    BY <1>7, <1>4
  <2>2. i \in 1..n
    BY <1>1, <1>2, <2>1
  <2>3. CASE j \in 1..n
    BY <2>2, <2>3, <1>8 DEF Covered, InOrder
  <2>4. CASE j = n + 2
    BY <2>2, <2>4, <1>3, <1>8, <1>9
  <2> QED BY <2>1, <2>3, <2>4
<1>11. Summarised(g)
  <2> SUFFICES ASSUME NEW j \in 1..Len(g), g[j].kind = "summary", NEW i \in 1..Len(g), i < g[j].tail
               PROVE  g[i].n \in g[j].covers \cup Cleared(g) \cup {0}
    BY DEF Summarised
  <2>0. Cleared(h) \subseteq Cleared(g)
    BY <1>6, ClearedGrown
  <2>1. j \in 1..n \/ j = n + 2
    BY <1>7, <1>4
  <2>2. CASE j \in 1..n
    <3>1. h[j].kind = "summary" /\ g[j].tail = h[j].tail /\ g[j].covers = h[j].covers
      BY <2>2, <1>8
    <3>2. h[j].tail \in Nat /\ h[j].tail <= n
      BY <2>2, <3>1, <1>9
    <3>3. i \in 1..n /\ i < h[j].tail
      BY <1>1, <3>1, <3>2
    <3>4. h[i].n \in h[j].covers \cup Cleared(h) \cup {0}
      BY <2>2, <3>1, <3>3 DEF Covered, Summarised
    <3> QED BY <2>0, <3>1, <3>3, <3>4, <1>8
  <2>3. CASE j = n + 2
    <3>1. g[j].tail = c.first /\ g[j].covers = c.covers
      BY <2>3, <1>3
    <3>2. c.first <= n
      BY <1>1 DEF Cuts
    <3>3. i \in 1..n /\ i < c.first
      BY <1>1, <3>1, <3>2
    <3>4. h[i].n \in c.covers \cup Cleared(h) \cup {0}
      BY <3>3 DEF Takes
    <3> QED BY <2>0, <3>1, <3>3, <3>4, <1>8
  <2> QED BY <2>1, <2>2, <2>3
<1>12. Accounted(g)
  <2> SUFFICES ASSUME NEW i \in 1..Len(g), g[i].compacted, g[i].kind # "cleared"
               PROVE  \E j \in 1..Len(g) : g[j].kind = "summary" /\ i < g[j].tail
    BY DEF Accounted
  <2>1. i \in 1..n
    BY <1>7, <1>4, <1>5
  <2>2. CASE h[i].compacted
    <3>1. PICK j \in 1..n : h[j].kind = "summary" /\ i < h[j].tail
      BY <2>1, <2>2, <1>8 DEF Covered, Accounted
    <3>2. j \in 1..Len(g)
      BY <1>1, <1>2
    <3> QED BY <3>1, <3>2, <1>8
  <2>3. CASE i < c.first
    <3>1. n + 2 \in 1..Len(g)
      BY <1>1, <1>2
    <3> QED BY <2>3, <3>1, <1>3
  <2> QED BY <2>1, <2>2, <2>3, <1>2
<1>13. Covered(g)
  BY <1>10, <1>11, <1>12 DEF Covered
<1> QED BY <1>13 DEF g

\* h tells of x, in a message or in a summary.
Tells(h, x) == \E i \in 1..Len(h) : h[i].n = x \/ x \in h[i].covers

\* g tells what h tells, and of X.
TellsNoMore(g, h, X) == \A x : Tells(g, x) => Tells(h, x) \/ x \in X \/ x = 0

\* What the steps of a turn make of a history, when they add messages that tell of X.
Extends(g, h, X) == Follows(g, h) /\ (Covered(h) => Covered(g)) /\ TellsNoMore(g, h, X)

\* A message that tells of X.
Quiet(m, X) ==
  /\ Plain(m) /\ m.kind \notin {"marker", "summary"}
  /\ ~m.compacted /\ m.covers = {} /\ m.n \in X \cup {0}

\* Two extensions are one,
LEMMA ExtendsOn ==
  ASSUME NEW h, History(h), NEW g, NEW f, NEW X, Extends(f, g, X), Extends(g, h, X)
  PROVE  Extends(f, h, X)
<1>1. Follows(f, h)
  BY FollowsOn DEF Extends
<1>2. TellsNoMore(f, h, X)
  BY DEF Extends, TellsNoMore
<1> QED BY <1>1, <1>2 DEF Extends

\* one by less is one by more,
LEMMA ExtendsMore ==
  ASSUME NEW g, NEW h, NEW X, NEW Y, X \subseteq Y, Extends(g, h, X)
  PROVE  Extends(g, h, Y)
<1>1. TellsNoMore(g, h, Y)
  BY DEF Extends, TellsNoMore
<1> QED BY <1>1 DEF Extends

\* and a history extends itself.
LEMMA ExtendsSelf == ASSUME NEW h, History(h), NEW X PROVE Extends(h, h, X)
<1>1. TellsNoMore(h, h, X)
  BY DEF TellsNoMore
<1> QED BY <1>1, FollowsSelf DEF Extends

\* A history of the same length tells the same.
LEMMA TellsSame ==
  ASSUME NEW h \in Seq(Message), NEW g, Same(g, h), NEW x
  PROVE  Tells(g, x) <=> Tells(h, x)
<1>1. Len(g) = Len(h) /\ \A i \in 1..Len(h) : g[i].n = h[i].n /\ g[i].covers = h[i].covers
  BY KeptIs DEF Same, Grown
<1> QED BY <1>1 DEF Tells

\* With such messages at its end a history is extended.
LEMMA ExtendsContinued ==
  ASSUME NEW h, History(h), NEW g, Continues(g, h), NEW X,
         \A i \in Later(g, h) : Quiet(g[i], X)
  PROVE  Extends(g, h, X)
<1>1. h \in Seq(Message) /\ Formed(h) /\ g \in Seq(Message) /\ Len(h) \in Nat /\ Len(g) \in Nat
  BY DEF History, Continues
<1>2. \A i \in Later(g, h) : Plain(g[i]) /\ g[i].kind \notin {"marker", "summary"}
  BY DEF Quiet
<1>3. Follows(g, h)
  BY <1>2, FollowsPlain
<1>4. Covered(h) => Covered(g)
  <2>1. \A i \in Later(g, h) : g[i].kind # "summary" /\ ~g[i].compacted
    BY DEF Quiet
  <2>2. \A i \in 1..Len(h) : g[i].compacted => h[i].compacted
    BY DEF Continues
  <2>3. Grown(g, h)
    BY <1>3 DEF Follows
  <2> QED BY <1>1, <2>1, <2>2, <2>3, CoveredGrown
<1>5. TellsNoMore(g, h, X)
  <2> SUFFICES ASSUME NEW x, Tells(g, x) PROVE Tells(h, x) \/ x \in X \/ x = 0
    BY DEF TellsNoMore
  <2>1. PICK i \in 1..Len(g) : g[i].n = x \/ x \in g[i].covers
    BY DEF Tells
  <2>2. CASE i \in 1..Len(h)
    <3>1. g[i] = h[i]
      BY <2>2 DEF Continues
    <3> QED BY <2>1, <2>2, <3>1 DEF Tells
  <2>3. CASE i \notin 1..Len(h)
    <3>1. i \in Later(g, h)
      BY <1>1, <2>3 DEF Later
    <3>2. g[i].covers = {} /\ g[i].n \in X \cup {0}
      BY <3>1 DEF Quiet
    <3> QED BY <2>1, <3>2
  <2> QED BY <2>2, <2>3
<1> QED BY <1>3, <1>4, <1>5 DEF Extends

\* With one of them
LEMMA ExtendsAppend ==
  ASSUME NEW h, History(h), NEW m \in Message, NEW X, Quiet(m, X)
  PROVE  Extends(Append(h, m), h, X)
<1> DEFINE g == Append(h, m)
<1>1. Continues(g, h) /\ \A i \in Later(g, h) : g[i] = m
  BY AppendContinues DEF History
<1> HIDE DEF g
<1>2. Extends(g, h, X)
  BY <1>1, ExtendsContinued
<1> QED BY <1>2 DEF g

\* or some.
LEMMA ExtendsJoined ==
  ASSUME NEW h, History(h), NEW w \in Seq(Message), NEW X, \A k \in 1..Len(w) : Quiet(w[k], X)
  PROVE  Extends(h \o w, h, X)
<1> DEFINE g == h \o w
<1>1. Continues(g, h) /\ \A i \in Later(g, h) : i - Len(h) \in 1..Len(w) /\ g[i] = w[i - Len(h)]
  BY JoinContinues DEF History
<1> HIDE DEF g
<1>2. \A i \in Later(g, h) : Quiet(g[i], X)
  BY <1>1
<1>3. Extends(g, h, X)
  BY <1>1, <1>2, ExtendsContinued
<1> QED BY <1>3 DEF g

\* A usage that is recorded tells nothing,
LEMMA ExtendsRecorded ==
  ASSUME NEW h, History(h), NEW u \in Nat, NEW X
  PROVE  Extends(RecordUsage(h, u), h, X)
<1> DEFINE g == RecordUsage(h, u)
<1>1. Follows(g, h) /\ Same(g, h)
  BY HistoryRecorded
<1>2. h \in Seq(Message) /\ Formed(h)
  BY DEF History
<1>3. \A i \in 1..Len(h) : g[i].compacted => h[i].compacted
  BY <1>2, RecordUsageIs
<1> HIDE DEF g
<1>4. Later(g, h) = {}
  BY <1>1, <1>2, NothingLater
<1>5. Grown(g, h)
  BY <1>1 DEF Same
<1>6. Covered(h) => Covered(g)
  BY <1>2, <1>3, <1>4, <1>5, CoveredGrown
<1>7. TellsNoMore(g, h, X)
  BY <1>1, <1>2, TellsSame DEF TellsNoMore
<1> QED BY <1>1, <1>6, <1>7 DEF Extends, g

\* nor does pruning.
LEMMA ExtendsPruned ==
  ASSUME NEW h, History(h), NEW X
  PROVE  Extends(Pruned(h), h, X)
<1> DEFINE g == Pruned(h)
<1>1. Follows(g, h) /\ Same(g, h)
  BY HistoryPruned
<1>2. h \in Seq(Message) /\ Formed(h)
  BY DEF History
<1>3. \A i \in 1..Len(h) : g[i].compacted => h[i].compacted \/ g[i].kind = "cleared"
  BY <1>2, MarkClearedIs DEF Pruned
<1> HIDE DEF g
<1>4. Later(g, h) = {}
  BY <1>1, <1>2, NothingLater
<1>5. Grown(g, h)
  BY <1>1 DEF Same
<1>6. Covered(h) => Covered(g)
  BY <1>2, <1>3, <1>4, <1>5, CoveredGrown
<1>7. TellsNoMore(g, h, X)
  BY <1>1, <1>2, TellsSame DEF TellsNoMore
<1> QED BY <1>1, <1>6, <1>7 DEF Extends, g

\* A compaction tells, besides, what its summary covers.
LEMMA CompactedTells ==
  ASSUME NEW h, History(h), NEW c, Cuts(c, h)
  PROVE  TellsNoMore(MarkCompaction(h, c), h, c.covers)
<1> DEFINE g == MarkCompaction(h, c)
           n == Len(h)
<1>1. h \in Seq(Message) /\ n \in Nat /\ Cut(c) /\ c.first \in Nat /\ c.covers \in SUBSET Nat
  BY DEF History, Cuts, Cut
<1>2. /\ Len(g) = n + 2
      /\ \A i \in 1..n : Alike(g[i], h[i])
      /\ g[n + 1] = Msg("marker", 0)
      /\ g[n + 2] = Summary(c.first, c.covers)
  BY <1>1, MarkCompactionIs DEF Summary
<1>3. g[n + 2].covers = c.covers /\ g[n + 2].n = 0
  BY <1>1, <1>2, SummaryFacts
<1>4. g[n + 1].covers = {} /\ g[n + 1].n = 0
  BY <1>2, MsgIs DEF Kinds
<1> HIDE DEF g
<1> SUFFICES ASSUME NEW x, Tells(g, x) PROVE Tells(h, x) \/ x \in c.covers \/ x = 0
  BY DEF TellsNoMore, g
<1>5. PICK i \in 1..Len(g) : g[i].n = x \/ x \in g[i].covers
  BY DEF Tells
<1>6. i \in 1..n \/ i = n + 1 \/ i = n + 2
  BY <1>1, <1>2
<1>7. CASE i \in 1..n
  <2>1. g[i].n = h[i].n /\ g[i].covers = h[i].covers
    BY <1>2, <1>7 DEF Alike
  <2> QED BY <1>5, <1>7, <2>1 DEF Tells
<1> QED BY <1>3, <1>4, <1>5, <1>6, <1>7

\* What a compaction covers was told.
LEMMA CompactionTells ==
  ASSUME NEW h \in Seq(Message), NEW x \in Compaction(h).covers
  PROVE  Tells(h, x)
<1> DEFINE s == LastSummary(h)
           c == Compaction(h)
<1>1. x \in (IF s = 0 THEN {} ELSE h[s].covers) \/ \E i \in 1..Len(h) : x = h[i].n
  BY CompactionIs
<1>2. s \in 0..Len(h)
  BY LastSummaryIs
<1> HIDE DEF s
<1>3. s # 0 => s \in 1..Len(h)
  BY <1>2
<1> QED BY <1>1, <1>3 DEF Tells

\* The message that tells the model to go on adds nothing.
LEMMA AutoQuiet == ASSUME NEW X PROVE Quiet(Msg("auto", 0), X)
<1>1. "auto" \in Kinds
  BY DEF Kinds
<1>2. /\ Msg("auto", 0).n = 0 /\ Msg("auto", 0).covers = {} /\ ~Msg("auto", 0).compacted
      /\ Msg("auto", 0).kind = "auto"
  BY <1>1, MsgIs
<1> QED BY <1>2, AutoIs DEF Quiet

\* A compaction of a history now, with that message or without, extends it.
LEMMA ExtendsCompacted ==
  ASSUME NEW h, History(h), NEW X, Compaction(h).first # 0
  PROVE  LET g == MarkCompaction(h, Compaction(h)) IN
         Extends(g, h, X) /\ Extends(Append(g, Msg("auto", 0)), h, X)
<1> DEFINE c == Compaction(h)
           g == MarkCompaction(h, c)
           a == Msg("auto", 0)
<1>1. h \in Seq(Message) /\ Formed(h)
  BY DEF History
<1>2. Cuts(c, h)
  BY <1>1, CompactionCuts
<1>3. Covered(h) => Takes(c, h)
  BY <1>1, CompactionTakes
<1>4. \A x : x \in c.covers => Tells(h, x)
  BY <1>1, CompactionTells
<1> HIDE DEF c
<1>5. Follows(g, h)
  BY <1>2, HistoryCompacted
<1>6. Covered(h) => Covered(g)
  BY <1>1, <1>2, <1>3, CoveredCompacted
<1>7. TellsNoMore(g, h, X)
  BY <1>2, <1>4, CompactedTells DEF TellsNoMore
<1> HIDE DEF g
<1>8. Extends(g, h, X) /\ History(g)
  BY <1>5, <1>6, <1>7 DEF Extends, Follows
<1>9. a \in Message /\ Quiet(a, X)
  BY AutoIs, AutoQuiet
<1> HIDE DEF a
<1>10. Extends(Append(g, a), g, X)
  BY <1>8, <1>9, ExtendsAppend
<1>11. Extends(Append(g, a), h, X)
  BY <1>8, <1>10, ExtendsOn
<1> QED BY <1>8, <1>11 DEF a, g, c

\* So does whatever comes of an attempt to compact.
LEMMA ExtendsForced ==
  ASSUME NEW h, History(h), NEW X, NEW continue, NEW g \in ForceCompact(h, continue)
  PROVE  Extends(g, h, X)
<1> DEFINE c == Compaction(h)
           k == MarkCompaction(h, c)
<1>1. g = h \/ (c.first # 0 /\ (g = Append(k, Msg("auto", 0)) \/ g = k))
  BY DEF ForceCompact
<1>2. CASE g = h
  BY <1>2, ExtendsSelf
<1>3. CASE c.first # 0 /\ (g = Append(k, Msg("auto", 0)) \/ g = k)
  BY <1>3, ExtendsCompacted
<1> QED BY <1>1, <1>2, <1>3

\* The session of a turn is covered as the history of the peer is.
LEMMA CoveredSeeded ==
  ASSUME NEW h, History(h), Covered(h)
  PROVE  Covered(Seed(h))
<1> DEFINE g == Seed(h)
<1>1. h \in Seq(Message) /\ Formed(h)
  BY DEF History
<1>2. /\ Marked(g, h)
      /\ \A i \in 1..Len(h) : g[i].compacted => \E j \in 1..Len(h) : h[j].kind = "summary" /\ i < h[j].tail
  BY <1>1, SeedIs
<1> HIDE DEF g
<1>3. Same(g, h)
  BY <1>1, <1>2, MarkedGrown
<1>4. Later(g, h) = {} /\ Grown(g, h)
  BY <1>1, <1>3, NothingLater DEF Same
<1>5. Covered(g)
  BY <1>1, <1>2, <1>4, CoveredGrown
<1> QED BY <1>5 DEF g

\* A history with messages behind it that are no summaries and not compacted stays covered.
LEMMA CoveredContinued ==
  ASSUME NEW h, History(h), Covered(h), NEW g, Continues(g, h),
         \A i \in Later(g, h) : g[i].kind # "summary" /\ ~g[i].compacted
  PROVE  Covered(g)
<1>1. h \in Seq(Message) /\ Formed(h)
  BY DEF History
<1>2. Grown(g, h)
  BY <1>1, ContinuesGrown
<1>3. \A i \in 1..Len(h) : g[i].compacted => h[i].compacted
  BY DEF Continues
<1> QED BY <1>1, <1>2, <1>3, CoveredGrown

\* The history a peer starts with
LEMMA CoveredAtFirst ==
  ASSUME NEW h, h = <<Msg("system", 0)>>
  PROVE  Covered(h)
<1> DEFINE m == Msg("system", 0)
<1>1. m.kind = "system" /\ ~m.compacted
  BY MsgIs DEF Kinds
<1>2. h = <<m>>
  OBVIOUS
<1> HIDE DEF m
<1>3. Len(h) = 1 /\ h[1] = m
  BY <1>2
<1>4. \A i \in 1..Len(h) : h[i].kind # "summary" /\ ~h[i].compacted
  BY <1>1, <1>3
<1> QED BY <1>4 DEF Covered, InOrder, Summarised, Accounted

\* Two histories in a row tell what each of them tells.
LEMMA TellsJoined ==
  ASSUME NEW h \in Seq(Message), NEW w \in Seq(Message), NEW x, Tells(h \o w, x)
  PROVE  Tells(h, x) \/ Tells(w, x)
<1> DEFINE g == h \o w
<1>1. PICK i \in 1..Len(g) : g[i].n = x \/ x \in g[i].covers
  BY DEF Tells
<1>2. Len(g) = Len(h) + Len(w) /\ Len(h) \in Nat /\ Len(w) \in Nat
  BY Joined
<1>3. \A k \in 1..Len(h) : g[k] = h[k]
  BY Joined
<1>4. \A k \in 1..Len(g) : k > Len(h) => k - Len(h) \in 1..Len(w) /\ g[k] = w[k - Len(h)]
  BY Joined
<1> HIDE DEF g
<1>5. CASE i <= Len(h)
  <2>1. i \in 1..Len(h)
    BY <1>2, <1>5
  <2> QED BY <1>1, <1>3, <2>1 DEF Tells
<1>6. CASE i > Len(h)
  BY <1>1, <1>4, <1>6 DEF Tells
<1> QED BY <1>2, <1>5, <1>6

-----------------------------------------------------------------------------
(* What a request tells.                                                    *)

\* What of a history is not compacted is in its request.
LEMMA RequestHas ==
  ASSUME NEW h \in Seq(Message), Formed(h), NEW i \in 1..Len(h), h[i].kind # "marker",
         LastSummary(h) = 0 \/ i >= h[LastSummary(h)].tail
  PROVE  LET r == TurnRequest(h) IN
         \E p \in DOMAIN r : r[p].n = h[i].n /\ r[p].covers = h[i].covers
<1> DEFINE q == Bare(h)
           o == Sent(h)
           r == TurnRequest(h)
<1>1. q \in Seq(Message) /\ Len(q) = Len(o) /\ Len(o) \in Nat
  BY SentIs
<1>2. \A k \in 1..Len(o) : o[k] \in 1..Len(h) /\ Alike(q[k], h[o[k]])
  BY SentIs
<1>3. PICK k \in 1..Len(o) : o[k] = i
  BY SentIs
<1>4. Alike(q[k], h[i])
  BY <1>2, <1>3
<1>5. r = RepairToolCallPairing(q)
  BY DEF TurnRequest, Request, Bare
<1> DEFINE F == Mended(q)
<1>6. /\ F \in Seq(Seq(Message)) /\ Len(F) = Len(q) /\ r \in Seq(Message)
      /\ \A j \in 1..Len(q) : F[j] = Mend(q[j], Present(q)) /\ q[j] \in Message
  BY <1>1, <1>5, RepairIs
<1>7. PICK off : Spread(F, Len(q), r, off)
  BY <1>1, <1>5, RepairIs
<1>8. k \in 1..Len(q) /\ q[k] \in Message /\ F[k] = Mend(q[k], Present(q))
  BY <1>1, <1>3, <1>6
<1>9. Answered(F[k], q[k], Unanswered(q[k], Present(q)))
  BY <1>8, MendIs
<1> HIDE DEF q, o, r, F
<1>10. F[k][1] = q[k] /\ Len(F[k]) \in Nat /\ 1 \in 1..Len(F[k])
  BY <1>9 DEF Answered
<1>11. r[off[k] + 1] = q[k]
  BY <1>7, <1>8, <1>10 DEF Spread
<1>12. off[k] + 1 \in 1..Len(r)
  <2>1. k \in 1..(Len(q) + 1) /\ k + 1 \in 1..(Len(q) + 1)
    BY <1>1, <1>8
  <2>2. off[k] \in 0..Len(r) /\ off[k + 1] \in 0..Len(r) /\ off[k + 1] = off[k] + Len(F[k])
    BY <1>7, <1>8, <2>1 DEF Spread
  <2>3. Len(r) \in Nat
    BY <1>6
  <2> QED BY <1>10, <2>2, <2>3
<1>13. off[k] + 1 \in DOMAIN r
  BY <1>6, <1>12
<1>14. r[off[k] + 1].n = h[i].n /\ r[off[k] + 1].covers = h[i].covers
  BY <1>4, <1>11 DEF Alike
<1> QED BY <1>13, <1>14 DEF r

\* What the request of a covered history tells
LEMMA RequestTold ==
  ASSUME NEW h \in Seq(Message), Formed(h), Covered(h), NEW i \in 1..Len(h)
  PROVE  h[i].n \in Told(TurnRequest(h)) \cup Cleared(h) \cup {0}
<1> DEFINE r == TurnRequest(h)
           s == LastSummary(h)
<1>1. ASSUME NEW j \in 1..Len(h), h[j].kind # "marker", s = 0 \/ j >= h[s].tail
      PROVE  h[j].n \in Told(r) /\ h[j].covers \subseteq Told(r)
  <2>1. PICK p \in DOMAIN r : r[p].n = h[j].n /\ r[p].covers = h[j].covers
    BY <1>1, RequestHas
  <2> HIDE DEF r
  <2> QED BY <2>1 DEF Told
<1>2. CASE h[i].kind = "marker"
  <2>1. Alike(h[i], Msg("marker", 0))
    BY <1>2 DEF Formed
  <2>2. Msg("marker", 0).n = 0
    BY DEF Msg
  <2>3. h[i].n = 0
    BY <2>1, <2>2 DEF Alike
  <2> QED BY <2>3
<1>3. CASE h[i].kind # "marker" /\ (s = 0 \/ i >= h[s].tail)
  BY <1>1, <1>3
<1>4. CASE s # 0 /\ ~(i >= h[s].tail)
  <2>1. s \in 1..Len(h) /\ h[s].kind = "summary" /\ h[s].tail \in 2..(s - 2)
    BY <1>4, TailIs
  <2>2. h[s].kind # "marker" /\ s >= h[s].tail /\ i < h[s].tail
    BY <1>4, <2>1
  <2>3. h[s].covers \subseteq Told(r)
    BY <1>1, <2>1, <2>2
  <2>4. h[i].n \in h[s].covers \cup Cleared(h) \cup {0}
    BY <2>1, <2>2 DEF Covered, Summarised
  <2> QED BY <2>3, <2>4
<1> HIDE DEF r, s
<1> QED BY <1>2, <1>3, <1>4 DEF r

-----------------------------------------------------------------------------
(* Histories that are alike.                                                *)

\* The first n parts of F and of G are of equal lengths,
Even(F, G, n) == \A i \in 1..n : Len(F[i]) = Len(G[i]) /\ Len(F[i]) \in Nat

\* so they start at the same places in what they are spread over.
LEMMA SpreadAlike ==
  ASSUME NEW n \in Nat, NEW F, NEW G, Even(F, G, n), NEW r, NEW s,
         NEW off, Spread(F, n, r, off), NEW o, Spread(G, n, s, o)
  PROVE  \A i \in 1..(n + 1) : off[i] = o[i]
<1> DEFINE T == {i \in 1..(n + 1) : off[i] # o[i]}
<1> SUFFICES ASSUME T # {} PROVE FALSE
  OBVIOUS
<1>1. T \in SUBSET Nat
  OBVIOUS
<1>2. PICK t \in T : \A m \in Nat : m < t => m \notin T
  BY <1>1, Least
<1>3. t \in 1..(n + 1) /\ off[t] # o[t]
  BY <1>2
<1>4. off[1] = 0 /\ o[1] = 0
  BY DEF Spread
<1>5. t # 1
  BY <1>3, <1>4
<1>6. t - 1 \in 1..n /\ t - 1 \in 1..(n + 1) /\ t - 1 \in Nat /\ t - 1 < t /\ (t - 1) + 1 = t
  BY <1>3, <1>5
<1>7. off[t - 1] = o[t - 1]
  BY <1>2, <1>6
<1> HIDE DEF T
<1>8. off[(t - 1) + 1] = off[t - 1] + Len(F[t - 1])
  BY <1>6 DEF Spread
<1>9. o[(t - 1) + 1] = o[t - 1] + Len(G[t - 1])
  BY <1>6 DEF Spread
<1>10. Len(F[t - 1]) = Len(G[t - 1])
  BY <1>6 DEF Even
<1> QED BY <1>3, <1>6, <1>7, <1>8, <1>9, <1>10

\* The answers that are put after a message depend on its calls alone.
LEMMA MendAlike ==
  ASSUME NEW a \in Message, NEW b \in Message, Alike(a, b), NEW present
  PROVE  LET A == Mend(a, present)
             B == Mend(b, present) IN
         /\ Len(A) = Len(B) /\ Len(A) \in Nat
         /\ \A k \in 1..Len(A) : Alike(A[k], B[k])
<1> DEFINE z == [k \in DOMAIN Missing(a, present) |-> Recovered(Missing(a, present)[k])]
<1>1. a.calls = b.calls
  BY DEF Alike
<1>2. Missing(a, present) = Missing(b, present)
  BY <1>1 DEF Missing
<1>3. Mend(a, present) = <<a>> \o z /\ Mend(b, present) = <<b>> \o z
  BY <1>2 DEF Mend
<1>4. a.calls \in Seq(CallOf)
  BY DEF Message
<1> DEFINE w == Missing(a, present)
<1>5. w \in Seq(CallOf)
  <2> DEFINE S == {k \in DOMAIN a.calls : a.calls[k].id \notin present}
  <2>1. S \in SUBSET DOMAIN a.calls
    OBVIOUS
  <2>2. At(a.calls, S) \in Seq(CallOf)
    BY <1>4, <2>1, AtIs
  <2> QED BY <2>2 DEF Missing
<1> HIDE DEF w
<1>6. DOMAIN w = 1..Len(w) /\ Len(w) \in Nat
  BY <1>5
<1>7. \A k \in 1..Len(w) : w[k] \in CallOf
  BY <1>5, ElementOfSeq
<1>8. z = [k \in 1..Len(w) |-> Recovered(w[k])]
  BY <1>6 DEF w
<1>9. \A k \in 1..Len(w) : Recovered(w[k]) \in Message
  BY <1>7, RecoveredIs
<1>10. z \in Seq(Message)
  BY <1>6, <1>8, <1>9
<1> HIDE DEF z
<1> DEFINE A == <<a>> \o z
           B == <<b>> \o z
<1>11. <<a>> \in Seq(Message) /\ <<b>> \in Seq(Message) /\ Len(<<a>>) = 1 /\ Len(<<b>>) = 1
  OBVIOUS
<1>12. Len(A) = Len(<<a>>) + Len(z) /\ Len(z) \in Nat
  BY <1>10, <1>11, Joined
<1>13. Len(B) = Len(<<b>>) + Len(z)
  BY <1>10, <1>11, Joined
<1>14. \A i \in 1..Len(<<a>>) : A[i] = <<a>>[i]
  BY <1>10, <1>11, Joined
<1>15. \A i \in 1..Len(<<b>>) : B[i] = <<b>>[i]
  BY <1>10, <1>11, Joined
<1>16. \A i \in 1..Len(A) : i > Len(<<a>>) => A[i] = z[i - Len(<<a>>)]
  BY <1>10, <1>11, Joined
<1>17. \A i \in 1..Len(B) : i > Len(<<b>>) => B[i] = z[i - Len(<<b>>)]
  BY <1>10, <1>11, Joined
<1>18. A[1] = a /\ B[1] = b
  BY <1>11, <1>14, <1>15
<1> HIDE DEF A, B
<1>19. Len(A) = Len(B) /\ Len(A) \in Nat
  BY <1>11, <1>12, <1>13
<1>20. ASSUME NEW k \in 1..Len(A) PROVE Alike(A[k], B[k])
  <2>1. CASE k = 1
    BY <1>18, <2>1
  <2>2. CASE k > 1
    <3>1. A[k] = B[k]
      BY <1>11, <1>16, <1>17, <1>19, <2>2
    <3> QED BY <3>1 DEF Alike
  <2> QED BY <1>19, <2>1, <2>2
<1> QED BY <1>3, <1>19, <1>20 DEF A, B

\* Two histories alike are repaired alike.
LEMMA RepairAlike ==
  ASSUME NEW p \in Seq(Message), NEW q, Marked(q, p)
  PROVE  Gist(RepairToolCallPairing(q)) = Gist(RepairToolCallPairing(p))
<1>1. q \in Seq(Message) /\ Len(q) = Len(p) /\ Len(p) \in Nat
  BY DEF Marked
<1>2. DOMAIN q = 1..Len(p) /\ DOMAIN p = 1..Len(p)
  BY <1>1
<1>3. \A i \in 1..Len(p) : Alike(q[i], p[i])
  BY DEF Marked
<1>4. Present(q) = Present(p)
  <2>1. \A i \in 1..Len(p) : q[i].id = p[i].id /\ (IsTool(q[i]) <=> IsTool(p[i]))
    BY <1>3 DEF Alike, IsTool
  <2>2. {i \in DOMAIN q : IsTool(q[i])} = {i \in DOMAIN p : IsTool(p[i])}
    BY <1>2, <2>1
  <2>3. \A i \in {i \in DOMAIN p : IsTool(p[i])} : q[i].id = p[i].id
    BY <1>2, <2>1
  <2> QED BY <2>2, <2>3 DEF Present
<1> DEFINE F == Mended(q)
           G == Mended(p)
           r == RepairToolCallPairing(q)
           s == RepairToolCallPairing(p)
           n == Len(p)
<1>5. F \in Seq(Seq(Message)) /\ Len(F) = n /\ r \in Seq(Message)
  BY <1>1, RepairIs
<1>6. G \in Seq(Seq(Message)) /\ Len(G) = n /\ s \in Seq(Message)
  BY <1>1, RepairIs
<1>7. \A i \in 1..n : F[i] = Mend(q[i], Present(q)) /\ q[i] \in Message
  BY <1>1, RepairIs
<1>8. \A i \in 1..n : G[i] = Mend(p[i], Present(p)) /\ p[i] \in Message
  BY <1>1, RepairIs
<1>9. PICK off : Spread(F, n, r, off)
  BY <1>1, RepairIs
<1>10. PICK o : Spread(G, n, s, o)
  BY <1>1, RepairIs
<1>11. ASSUME NEW i \in 1..n
       PROVE  /\ Len(F[i]) = Len(G[i]) /\ Len(F[i]) \in Nat
              /\ \A k \in 1..Len(F[i]) : Alike(F[i][k], G[i][k])
  <2>1. F[i] = Mend(q[i], Present(p)) /\ G[i] = Mend(p[i], Present(p))
    BY <1>4, <1>7, <1>8
  <2>2. q[i] \in Message /\ p[i] \in Message /\ Alike(q[i], p[i])
    BY <1>3, <1>7, <1>8
  <2> DEFINE A == Mend(q[i], Present(p))
             B == Mend(p[i], Present(p))
  <2>3. Len(A) = Len(B) /\ Len(A) \in Nat
    BY <2>2, MendAlike
  <2>4. \A k \in 1..Len(A) : Alike(A[k], B[k])
    BY <2>2, MendAlike
  <2>5. F[i] = A /\ G[i] = B
    BY <2>1
  <2> HIDE DEF F, G, A, B
  <2> QED BY <2>3, <2>4, <2>5
<1> HIDE DEF F, G, r, s
<1>12. Len(r) \in Nat /\ Len(s) \in Nat /\ DOMAIN r = 1..Len(r) /\ DOMAIN s = 1..Len(s)
  BY <1>5, <1>6
<1>13. \A i \in 1..(n + 1) : off[i] = o[i]
  <2>1. Even(F, G, n)
    BY <1>11 DEF Even
  <2>2. n \in Nat
    BY <1>1
  <2> HIDE DEF n
  <2> QED BY <1>9, <1>10, <2>1, <2>2, SpreadAlike
<1>14. Len(r) = Len(s)
  <2>1. off[n + 1] = Len(r) /\ o[n + 1] = Len(s)
    BY <1>9, <1>10 DEF Spread
  <2>2. n + 1 \in 1..(n + 1)
    BY <1>1
  <2> QED BY <1>13, <2>1, <2>2
<1>15. ASSUME NEW k \in 1..Len(r) PROVE Alike(r[k], s[k])
  <2>1. PICK i \in 1..n : \E b \in 1..Len(F[i]) : k = off[i] + b
    BY <1>9 DEF Spread
  <2>2. PICK b \in 1..Len(F[i]) : k = off[i] + b
    BY <2>1
  <2>3. r[off[i] + b] = F[i][b]
    BY <1>9 DEF Spread
  <2>4. b \in 1..Len(G[i]) /\ Alike(F[i][b], G[i][b])
    BY <1>11
  <2>5. s[o[i] + b] = G[i][b]
    BY <1>10, <2>4 DEF Spread
  <2>6. off[i] = o[i]
    <3>1. i \in 1..(n + 1)
      BY <1>1
    <3> QED BY <1>13, <3>1
  <2> QED BY <2>2, <2>3, <2>4, <2>5, <2>6
<1>16. DOMAIN r = DOMAIN s
  BY <1>12, <1>14
<1>17. \A k \in DOMAIN s : <<r[k].kind, r[k].n, r[k].covers>> = <<s[k].kind, s[k].n, s[k].covers>>
  BY <1>12, <1>14, <1>15 DEF Alike
<1>18. Gist(r) = Gist(s)
  BY <1>16, <1>17 DEF Gist
<1> QED BY <1>18 DEF r, s

\* Two histories alike are sent alike.
LEMMA SentAlike ==
  ASSUME NEW h \in Seq(Message), Formed(h), NEW g, Marked(g, h)
  PROVE  Sent(g) = Sent(h)
<1>1. g \in Seq(Message) /\ Len(g) = Len(h) /\ Len(h) \in Nat
  BY DEF Marked
<1>2. DOMAIN g = 1..Len(h) /\ DOMAIN h = 1..Len(h)
  BY <1>1
<1>3. \A i \in 1..Len(h) : g[i].kind = h[i].kind /\ g[i].tail = h[i].tail
  BY DEF Marked, Alike
<1>4. LastSummary(g) = LastSummary(h)
  <2>1. {i \in DOMAIN g : IsSummary(g[i])} = {i \in DOMAIN h : IsSummary(h[i])}
    BY <1>2, <1>3 DEF IsSummary
  <2> QED BY <2>1 DEF LastSummary
<1>5. LastSummary(h) \in 0..Len(h)
  BY LastSummaryIs
<1>6. Places(g) = Places(h)
  <2>1. CASE LastSummary(h) = 0
    BY <1>1, <1>4, <2>1 DEF Places
  <2>2. CASE LastSummary(h) # 0
    <3>1. LastSummary(h) \in 1..Len(h)
      BY <1>5, <2>2
    <3>2. TailOf(g) = TailOf(h)
      BY <1>1, <1>3, <1>4, <3>1 DEF TailOf
    <3> QED BY <1>4, <2>2, <3>2 DEF Places
  <2> QED BY <2>1, <2>2
<1>7. Unmarked(g) = Unmarked(h)
  <2>1. \A k \in 1..Len(Places(h)) : Places(h)[k] \in 1..Len(h)
    BY PlacesAre
  <2>2. Places(h) \in Seq(1..Len(h))
    BY PlacesAre
  <2>3. DOMAIN Places(h) = 1..Len(Places(h))
    BY <2>2
  <2>4. \A k \in DOMAIN Places(h) : g[Places(h)[k]].kind = h[Places(h)[k]].kind
    BY <1>3, <2>1, <2>3
  <2> QED BY <1>6, <2>4 DEF Unmarked
<1> QED BY <1>6, <1>7 DEF Sent

\* Two histories alike make requests alike.
LEMMA RequestAlike ==
  ASSUME NEW h \in Seq(Message), Formed(h), NEW g, Marked(g, h)
  PROVE  Gist(TurnRequest(g)) = Gist(TurnRequest(h))
<1>1. g \in Seq(Message) /\ Len(g) = Len(h)
  BY DEF Marked
<1>2. Formed(g)
  BY MarkedGrown, FormedSame
<1> DEFINE o == Sent(h)
           p == Bare(h)
           q == Bare(g)
<1>3. Sent(g) = o
  BY SentAlike
<1>4. p \in Seq(Message) /\ Len(p) = Len(o)
  BY SentIs
<1>5. \A k \in 1..Len(o) : o[k] \in 1..Len(h) /\ Alike(p[k], h[o[k]])
  BY SentIs
<1>6. q \in Seq(Message) /\ Len(q) = Len(o)
  BY <1>1, <1>2, <1>3, SentIs
<1>7. \A k \in 1..Len(o) : Alike(q[k], g[o[k]])
  BY <1>1, <1>2, <1>3, SentIs
<1>8. TurnRequest(g) = RepairToolCallPairing(q) /\ TurnRequest(h) = RepairToolCallPairing(p)
  BY DEF TurnRequest, Request, Bare
<1> HIDE DEF o, p, q
<1>9. \A k \in 1..Len(o) : Alike(g[o[k]], h[o[k]])
  BY <1>5 DEF Marked
<1>10. ASSUME NEW k \in 1..Len(o) PROVE Alike(q[k], p[k])
  <2>1. Alike(q[k], g[o[k]]) /\ Alike(g[o[k]], h[o[k]]) /\ Alike(p[k], h[o[k]])
    BY <1>5, <1>7, <1>9
  <2> QED BY <2>1 DEF Alike
<1>11. Marked(q, p)
  BY <1>4, <1>6, <1>10 DEF Marked
<1> QED BY <1>4, <1>8, <1>11, RepairAlike

=============================================================================
