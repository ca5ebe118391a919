--------------------------- MODULE SequenceLemmas ---------------------------
(* What the proofs need of recursive definitions over sequences: that there is *)
(* a function that computes one, what stays true from each of its values to    *)
(* the next, and what FlattenSeq makes of one sequence more.                    *)
EXTENDS Integers, SequencesExt, SequenceTheorems, WellFoundedInduction, TLAPS

\* A set of natural numbers that is not empty has a least member.
LEMMA NatMin ==
  ASSUME NEW T \in SUBSET Nat, T # {}
  PROVE  \E x \in T : \A y \in T : x <= y
<1> DEFINE R == {ss \in Nat \X Nat : ss[1] < ss[2]}
<1>1. IsWellFoundedOn(R, Nat)
  BY NatLessThanWellFounded DEF OpToRel
<1>2. PICK x \in T : \A y \in T : ~(<< y, x >> \in R)
  BY <1>1, WFMin
<1>3. \A y \in T : ~(y < x)
  BY <1>2
<1> QED  BY <1>3

\* f computes by recursion, up to n, from base by `step`.
Computes(f, n, base, step) ==
  f = [i \in 0 .. n |-> IF i = 0 THEN base ELSE step[<< f[i - 1], i >>]]

\* There is such a function, and its values are those of the step.
LEMMA ComputesExists ==
  ASSUME NEW S, NEW base \in S, NEW n \in Nat, NEW step \in [S \X (1 .. n) -> S]
  PROVE  \E f \in [0 .. n -> S] : Computes(f, n, base, step)
<1> DEFINE Bad == {m \in 0 .. n : ~ \E f \in [0 .. m -> S] : Computes(f, m, base, step)}
<1>1. SUFFICES ASSUME Bad # {} PROVE FALSE
  OBVIOUS
<1>2. PICK m \in Bad : \A k \in Bad : m <= k
  <2>1. Bad \in SUBSET Nat
    OBVIOUS
  <2> HIDE DEF Bad
  <2> QED  BY <2>1, <1>1, NatMin
<1>3. m \in 0 .. n
  BY <1>2
<1>4. CASE m = 0
  <2>1. PICK f : f = [i \in 0 .. 0 |-> base]
    OBVIOUS
  <2>2. f \in [0 .. 0 -> S]
    BY <2>1
  <2>3. f = [i \in 0 .. 0 |-> IF i = 0 THEN base ELSE step[<< f[i - 1], i >>]]
    BY <2>1
  <2> QED  BY <2>2, <2>3, <1>2, <1>4 DEF Computes
<1>5. CASE m # 0
  <2>1. m - 1 \in 0 .. n /\ ~(m <= m - 1) /\ m \in 1 .. n
    BY <1>3, <1>5
  <2>2. m - 1 \notin Bad
    BY <2>1, <1>2
  <2>3. PICK g \in [0 .. m - 1 -> S] : Computes(g, m - 1, base, step)
    BY <2>1, <2>2
  <2>4. g[m - 1] \in S /\ << g[m - 1], m >> \in S \X (1 .. n)
    BY <2>1
  <2>5. step[<< g[m - 1], m >>] \in S
    BY <2>4
  <2>6. PICK h : h = [i \in 0 .. m |-> IF i = m THEN step[<< g[m - 1], m >>] ELSE g[i]]
    OBVIOUS
  <2>7. \A i \in 0 .. m : i = m \/ i \in 0 .. m - 1
    BY <1>3
  <2>8. h \in [0 .. m -> S]
    <3>1. \A i \in 0 .. m : h[i] \in S
      BY <2>5, <2>6, <2>7
    <3> QED  BY <3>1, <2>6
  <2>9. ASSUME NEW i \in 0 .. m
        PROVE  h[i] = IF i = 0 THEN base ELSE step[<< h[i - 1], i >>]
    <3>1. i # 0 => i - 1 \in 0 .. m /\ i - 1 # m /\ h[i - 1] = g[i - 1]
      BY <2>6, <1>3
    <3>2. CASE i = m
      BY <3>1, <3>2, <2>6, <1>5
    <3>3. CASE i # m
      <4>1. i \in 0 .. m - 1 /\ h[i] = g[i]
        BY <3>3, <2>6, <2>7
      <4> QED  BY <4>1, <3>1, <2>3 DEF Computes
    <3> QED  BY <3>2, <3>3
  <2>10. Computes(h, m, base, step)
    <3>1. h = [i \in 0 .. m |-> h[i]]
      BY <2>6
    <3> QED  BY <3>1, <2>9 DEF Computes
  <2> QED  BY <2>8, <2>10, <1>2
<1> QED  BY <1>4, <1>5

\* What holds of the base, and is kept from one value to the next, holds of all.
LEMMA StaysIn ==
  ASSUME NEW S, NEW n \in Nat, NEW g, g[0] \in S,
         \A i \in 1 .. n : g[i - 1] \in S => g[i] \in S
  PROVE  \A i \in 0 .. n : g[i] \in S
<1> DEFINE Bad == {m \in 0 .. n : g[m] \notin S}
<1>1. SUFFICES ASSUME Bad # {} PROVE FALSE
  OBVIOUS
<1>2. PICK m \in Bad : \A k \in Bad : m <= k
  <2>1. Bad \in SUBSET Nat
    OBVIOUS
  <2> HIDE DEF Bad
  <2> QED  BY <2>1, <1>1, NatMin
<1>3. m \in 0 .. n /\ m # 0
  BY <1>2
<1>4. m \in 1 .. n /\ m - 1 \in 0 .. n /\ ~(m <= m - 1)
  BY <1>3
<1>5. g[m - 1] \in S
  BY <1>2, <1>4
<1> QED  BY <1>2, <1>4, <1>5

-----------------------------------------------------------------------------
(* Sequences joined to one. *)

\* w is x, and what may follow it.
Continues(S, w, x) == w \in Seq(S) /\ \E r \in Seq(S) : w = x \o r

\* A sequence over a set is one over a larger set.
LEMMA SeqWider ==
  ASSUME NEW S, NEW T, S \subseteq T, NEW s, s \in Seq(S)
  PROVE  s \in Seq(T)
<1>1. \A i \in 1 .. Len(s) : s[i] \in T
  BY ElementOfSeq
<1>2. s = [i \in 1 .. Len(s) |-> s[i]] /\ Len(s) \in Nat
  BY LenProperties
<1> QED  BY <1>1, <1>2

\* Appending to two sequences joined appends to the second.
AppendsLater(x, y, e) == Append(x \o y, e) = x \o Append(y, e)

LEMMA AppendLater ==
  ASSUME NEW S, NEW x, NEW y, NEW e, x \in Seq(S), y \in Seq(S), e \in S
  PROVE  AppendsLater(x, y, e)
<1>1. x \o y \in Seq(S) /\ << e >> \in Seq(S)
  BY ConcatProperties
<1>2. Append(x \o y, e) = (x \o y) \o << e >>
  BY <1>1, AppendIsConcat
<1>3. (x \o y) \o << e >> = x \o (y \o << e >>)
  BY <1>1, ConcatAssociative
<1>4. Append(y, e) = y \o << e >>
  BY AppendIsConcat
<1> QED  BY <1>2, <1>3, <1>4 DEF AppendsLater

\* A sequence continues itself.
LEMMA ContinuesItself ==
  ASSUME NEW S, NEW x, x \in Seq(S)
  PROVE  Continues(S, x, x)
<1>1. << >> \in Seq(S) /\ x \o << >> = x
  BY EmptySeq, ConcatEmptySeq
<1> QED  BY <1>1 DEF Continues

\* What continues x does so with more behind it.
LEMMA ContinuesOn ==
  ASSUME NEW S, NEW x, NEW w, NEW z, x \in Seq(S), z \in Seq(S), Continues(S, w, x)
  PROVE  Continues(S, w \o z, x)
<1>1. PICK r : r \in Seq(S) /\ w = x \o r
  BY DEF Continues
<1>2. r \o z \in Seq(S)
  BY <1>1, ConcatProperties
<1>3. (x \o r) \o z = x \o (r \o z)
  BY <1>1, ConcatAssociative
<1>4. w \o z \in Seq(S)
  BY ConcatProperties DEF Continues
<1> QED  BY <1>1, <1>2, <1>3, <1>4 DEF Continues

\* f[k] joins the first k of the sequences.
Joins(f, ss) == f[0] = << >> /\ \A k \in 1 .. Len(ss) : f[k] = f[k - 1] \o ss[k]

\* The parts of a sequence of sequences.
LEMMA PartsOf ==
  ASSUME NEW S, NEW ss \in Seq(Seq(S))
  PROVE  Len(ss) \in Nat /\ \A k \in 1 .. Len(ss) : ss[k] \in Seq(S) /\ Len(ss[k]) \in Nat
<1>1. Len(ss) \in Nat
  BY LenProperties
<1>2. ASSUME NEW k \in 1 .. Len(ss) PROVE ss[k] \in Seq(S) /\ Len(ss[k]) \in Nat
  <2>1. ss[k] \in Seq(S)
    BY ElementOfSeq
  <2> QED  BY <2>1, LenProperties
<1> QED  BY <1>1, <1>2

\* There is such an f.
LEMMA JoinsExist ==
  ASSUME NEW S, NEW ss \in Seq(Seq(S))
  PROVE  \E f \in [0 .. Len(ss) -> Seq(S)] : Joins(f, ss)
<1>1. Len(ss) \in Nat /\ \A k \in 1 .. Len(ss) : ss[k] \in Seq(S)
  BY PartsOf
<1>2. PICK step : step = [p \in Seq(S) \X (1 .. Len(ss)) |-> p[1] \o ss[p[2]]]
  OBVIOUS
<1>3. ASSUME NEW p \in Seq(S) \X (1 .. Len(ss)) PROVE step[p] \in Seq(S)
  <2>1. p[1] \in Seq(S) /\ ss[p[2]] \in Seq(S) /\ step[p] = p[1] \o ss[p[2]]
    BY <1>1, <1>2
  <2> QED  BY <2>1, ConcatProperties
<1>4. step \in [Seq(S) \X (1 .. Len(ss)) -> Seq(S)]
  BY <1>2, <1>3
<1>5. << >> \in Seq(S)
  BY EmptySeq
<1>6. PICK f \in [0 .. Len(ss) -> Seq(S)] : Computes(f, Len(ss), << >>, step)
  BY <1>1, <1>4, <1>5, ComputesExists
<1>7. f[0] = << >>
  BY <1>1, <1>6 DEF Computes
<1>8. ASSUME NEW k \in 1 .. Len(ss)
      PROVE  f[k] = f[k - 1] \o ss[k]
  <2>1. k \in 0 .. Len(ss) /\ k # 0 /\ k - 1 \in 0 .. Len(ss)
    BY <1>1
  <2>2. f[k] = step[<< f[k - 1], k >>]
    BY <2>1, <1>6 DEF Computes
  <2>3. f[k - 1] \in Seq(S)
    BY <2>1
  <2>4. PICK p : p = << f[k - 1], k >>
    OBVIOUS
  <2>5. p \in Seq(S) \X (1 .. Len(ss)) /\ p[1] = f[k - 1] /\ p[2] = k
    BY <2>3, <2>4
  <2>6. step[p] = p[1] \o ss[p[2]]
    BY <2>5, <1>2
  <2> QED  BY <2>2, <2>4, <2>5, <2>6
<1> QED  BY <1>7, <1>8 DEF Joins

\* The first m members of two sequences are the same.
SameUpTo(ss, tt, m) ==
  /\ Len(ss) \in Nat /\ Len(tt) \in Nat /\ m \in Nat /\ m <= Len(ss) /\ m <= Len(tt)
  /\ \A i \in 1 .. m : ss[i] = tt[i]

\* Two of them are the same as far as the sequences are.
LEMMA JoinsSame ==
  ASSUME NEW ss, NEW tt, NEW f, NEW g, Joins(f, ss), Joins(g, tt),
         NEW m, SameUpTo(ss, tt, m)
  PROVE  f[m] = g[m]
<1>0. /\ Len(ss) \in Nat /\ Len(tt) \in Nat /\ m \in Nat /\ m <= Len(ss) /\ m <= Len(tt)
      /\ \A i \in 1 .. m : ss[i] = tt[i]
  BY DEF SameUpTo
<1> DEFINE Bad == {i \in 0 .. m : f[i] # g[i]}
<1>1. SUFFICES ASSUME Bad # {} PROVE FALSE
  BY <1>0
<1>2. PICK i \in Bad : \A k \in Bad : i <= k
  <2>1. Bad \in SUBSET Nat
    BY <1>0
  <2> HIDE DEF Bad
  <2> QED  BY <2>1, <1>1, NatMin
<1>3. f[0] = << >> /\ g[0] = << >>
  BY DEF Joins
<1>4. i \in 0 .. m /\ i # 0 /\ f[i] # g[i]
  BY <1>2, <1>3
<1>5. i - 1 \in 0 .. m /\ ~(i <= i - 1) /\ i \in 1 .. m /\ i \in 1 .. Len(ss) /\ i \in 1 .. Len(tt)
  BY <1>0, <1>4
<1>6. i - 1 \notin Bad
  BY <1>2, <1>5
<1>7. f[i - 1] = g[i - 1] /\ ss[i] = tt[i]
  BY <1>0, <1>5, <1>6
<1>8. f[i] = f[i - 1] \o ss[i]
  BY <1>5 DEF Joins
<1>9. g[i] = g[i - 1] \o tt[i]
  BY <1>5 DEF Joins
<1> QED  BY <1>4, <1>7, <1>8, <1>9

\* FlattenSeq is what joins all of them.
LEMMA FlattenJoins ==
  ASSUME NEW S, NEW ss \in Seq(Seq(S)), NEW f \in [0 .. Len(ss) -> Seq(S)], Joins(f, ss)
  PROVE  FlattenSeq(ss) = f[Len(ss)]
<1>1. Len(ss) \in Nat /\ \A k \in 1 .. Len(ss) : ss[k] \in Seq(S)
  BY PartsOf
<1>2. CASE Len(ss) = 0
  <2>1. ss = << >>
    BY <1>2, EmptySeq
  <2> QED  BY <1>2, <2>1 DEF FlattenSeq, Joins
<1>3. CASE Len(ss) # 0
  <2>1. PICK e : e = [i \in 1 .. Len(ss) |-> f[i]]
    OBVIOUS
  <2>2. ASSUME NEW i \in 1 .. Len(ss)
        PROVE  e[i] = IF i = 1 THEN ss[i] ELSE e[i - 1] \o ss[i]
    <3>1. e[i] = f[i - 1] \o ss[i] /\ ss[i] \in Seq(S)
      BY <2>1, <1>1 DEF Joins
    <3>2. CASE i = 1
      <4>1. f[i - 1] = << >>
        BY <3>2 DEF Joins
      <4>2. << >> \o ss[i] = ss[i]
        BY <3>1, ConcatEmptySeq
      <4> QED  BY <3>1, <3>2, <4>1, <4>2
    <3>3. CASE i # 1
      <4>1. i - 1 \in 1 .. Len(ss)
        BY <3>3, <1>1
      <4> QED  BY <3>1, <3>3, <4>1, <2>1
    <3> QED  BY <3>2, <3>3
  <2>3. e = [i \in 1 .. Len(ss) |-> IF i = 1 THEN ss[i] ELSE e[i - 1] \o ss[i]]
    BY <2>1, <2>2
  <2> DEFINE g == CHOOSE flatten : flatten = [i \in 1 .. Len(ss) |->
                     IF i = 1 THEN ss[i] ELSE flatten[i - 1] \o ss[i]]
  <2>4. FlattenSeq(ss) = g[Len(ss)]
    BY <1>3 DEF FlattenSeq
  <2>5. g = [i \in 1 .. Len(ss) |-> IF i = 1 THEN ss[i] ELSE g[i - 1] \o ss[i]]
    BY <2>3
  <2> HIDE DEF g
  <2>6. PICK h : h = [i \in 0 .. Len(ss) |-> IF i = 0 THEN << >> ELSE g[i]]
    OBVIOUS
  <2>7. h[0] = << >>
    BY <1>1, <2>6
  <2>8. ASSUME NEW k \in 1 .. Len(ss) PROVE h[k] = h[k - 1] \o ss[k]
    <3>1. k \in 0 .. Len(ss) /\ k - 1 \in 0 .. Len(ss) /\ k # 0 /\ ss[k] \in Seq(S)
      BY <1>1
    <3>2. h[k] = g[k] /\ g[k] = IF k = 1 THEN ss[k] ELSE g[k - 1] \o ss[k]
      BY <3>1, <2>5, <2>6
    <3>3. CASE k = 1
      <4>1. << >> \o ss[k] = ss[k]
        BY <3>1, ConcatEmptySeq
      <4>2. h[k] = ss[k] /\ h[k - 1] = << >>
        BY <3>2, <3>3, <2>7
      <4> QED  BY <4>1, <4>2
    <3>4. CASE k # 1
      <4>1. h[k - 1] = g[k - 1]
        BY <3>1, <3>4, <2>6
      <4> QED  BY <3>2, <3>4, <4>1
    <3> QED  BY <3>3, <3>4
  <2>9. Joins(h, ss)
    BY <2>7, <2>8 DEF Joins
  <2>10. f[Len(ss)] = h[Len(ss)]
    <3>1. SameUpTo(ss, ss, Len(ss))
      BY <1>1 DEF SameUpTo
    <3> QED  BY <2>9, <3>1, JoinsSame
  <2> QED  BY <1>1, <1>3, <2>4, <2>6, <2>10
<1> QED  BY <1>2, <1>3

\* What is flattened holds what the parts hold.
LEMMA FlattenType ==
  ASSUME NEW S, NEW ss \in Seq(Seq(S))
  PROVE  FlattenSeq(ss) \in Seq(S)
<1>1. Len(ss) \in 0 .. Len(ss)
  BY PartsOf
<1>2. PICK f \in [0 .. Len(ss) -> Seq(S)] : Joins(f, ss)
  BY JoinsExist
<1> QED  BY <1>1, <1>2, FlattenJoins

\* No part, nothing.
LEMMA FlattenEmpty == FlattenSeq(<< >>) = << >>
BY DEF FlattenSeq

\* One sequence more.
LEMMA FlattenAppend ==
  ASSUME NEW S, NEW ss \in Seq(Seq(S)), NEW s \in Seq(S)
  PROVE  FlattenSeq(Append(ss, s)) = FlattenSeq(ss) \o s
<1>1. PICK tt, n : tt = Append(ss, s) /\ n = Len(ss)
  OBVIOUS
<1>2. /\ tt \in Seq(Seq(S)) /\ Len(tt) = n + 1 /\ n \in Nat
      /\ \A i \in 1 .. n : ss[i] = tt[i]
      /\ tt[n + 1] = s
  BY <1>1, AppendProperties, PartsOf
<1>3. PICK f \in [0 .. Len(ss) -> Seq(S)] : Joins(f, ss)
  BY JoinsExist
<1>4. PICK g \in [0 .. Len(tt) -> Seq(S)] : Joins(g, tt)
  BY <1>2, JoinsExist
<1>5. FlattenSeq(ss) = f[n] /\ FlattenSeq(tt) = g[n + 1]
  BY <1>1, <1>2, <1>3, <1>4, FlattenJoins
<1>6. f[n] = g[n]
  <2>1. SameUpTo(ss, tt, n)
    BY <1>1, <1>2 DEF SameUpTo
  <2>2. Joins(f, ss) /\ Joins(g, tt)
    BY <1>3, <1>4
  <2> QED  BY ONLY <2>1, <2>2, JoinsSame, SMTT(20)
<1>7. n + 1 \in 1 .. Len(tt) /\ (n + 1) - 1 = n
  BY <1>2
<1>8. g[n + 1] = g[n] \o tt[n + 1]
  BY <1>4, <1>7 DEF Joins
<1> QED  BY <1>1, <1>2, <1>5, <1>6, <1>8

\* The first k of them join to the beginning of what all join to.
LEMMA FlattenPrefix ==
  ASSUME NEW S, NEW ss \in Seq(Seq(S)), NEW k \in 0 .. Len(ss)
  PROVE  Continues(S, FlattenSeq(ss), FlattenSeq(SubSeq(ss, 1, k)))
<1>1. PICK tt, n : tt = SubSeq(ss, 1, k) /\ n = Len(ss)
  OBVIOUS
<1>2. n \in Nat /\ k \in Nat /\ k <= n /\ \A i \in 1 .. n : ss[i] \in Seq(S)
  BY <1>1, PartsOf
<1>3. /\ tt \in Seq(Seq(S)) /\ Len(tt) = k
      /\ \A i \in 1 .. k : ss[i] = tt[i]
  <2>1. \A i \in 1 .. k : ss[i] \in Seq(S)
    BY <1>2
  <2> QED  BY <1>1, <1>2, <2>1, SubSeqProperties
<1>4. PICK f \in [0 .. Len(ss) -> Seq(S)] : Joins(f, ss)
  BY JoinsExist
<1>5. PICK g \in [0 .. Len(tt) -> Seq(S)] : Joins(g, tt)
  BY <1>3, JoinsExist
<1>6. FlattenSeq(ss) = f[n] /\ FlattenSeq(tt) = g[k]
  BY <1>1, <1>3, <1>4, <1>5, FlattenJoins
<1>7. f[k] = g[k]
  <2>1. PICK m : m = k
    OBVIOUS
  <2>2. SameUpTo(ss, tt, m)
    BY <1>1, <1>2, <1>3, <2>1 DEF SameUpTo
  <2>3. f[m] = g[m]
    BY <1>4, <1>5, <2>2, JoinsSame
  <2> QED  BY <2>1, <2>3
<1>8. PICK T : T = {t \in Seq(S) : Continues(S, t, f[k])}
  OBVIOUS
<1>9. PICK h : h = [i \in 0 .. (n - k) |-> f[k + i]]
  OBVIOUS
<1>10. f[k] \in Seq(S)
  BY <1>1, <1>2
<1>11. h[0] \in T
  <2>1. h[0] = f[k]
    BY <1>2, <1>9
  <2>2. Continues(S, f[k], f[k])
    BY <1>10, ContinuesItself
  <2> QED  BY <2>1, <2>2, <1>8, <1>10
<1>12. ASSUME NEW i \in 1 .. (n - k), h[i - 1] \in T PROVE h[i] \in T
  <2>1. PICK j : j = k + i
    OBVIOUS
  <2>2. /\ i \in 0 .. (n - k) /\ i - 1 \in 0 .. (n - k) /\ j \in 1 .. n
        /\ k + (i - 1) = j - 1 /\ n = Len(ss)
    BY <1>1, <1>2, <2>1
  <2>3. h[i] = f[j] /\ h[i - 1] = f[j - 1]
    BY <1>9, <2>1, <2>2
  <2>4. f[j] = f[j - 1] \o ss[j] /\ ss[j] \in Seq(S) /\ f[j] \in Seq(S)
    <3>1. j \in 1 .. Len(ss) /\ j \in 0 .. Len(ss)
      BY <2>2
    <3>2. f[j] = f[j - 1] \o ss[j]
      BY <1>4, <3>1 DEF Joins
    <3>3. ss[j] \in Seq(S) /\ f[j] \in Seq(S)
      BY <1>2, <2>2, <3>1
    <3> QED  BY <3>2, <3>3
  <2>5. PICK x, w, z : x = f[k] /\ w = f[j - 1] /\ z = ss[j]
    OBVIOUS
  <2>6. x \in Seq(S) /\ z \in Seq(S) /\ Continues(S, w, x)
    BY <1>8, <1>10, <1>12, <2>3, <2>4, <2>5
  <2>7. Continues(S, w \o z, x)
    BY ONLY <2>6, ContinuesOn
  <2> QED  BY <1>8, <2>3, <2>4, <2>5, <2>7
<1>13. n - k \in Nat
  BY <1>2
<1>14. h[n - k] \in T
  <2>1. PICK z : z = n - k
    OBVIOUS
  <2>2. z \in Nat /\ z \in 0 .. z /\ \A i \in 1 .. z : h[i - 1] \in T => h[i] \in T
    BY <1>12, <1>13, <2>1
  <2>3. \A i \in 0 .. z : h[i] \in T
    BY <1>11, <2>2, StaysIn
  <2> QED  BY <2>1, <2>2, <2>3
<1>15. h[n - k] = f[n]
  BY <1>2, <1>9
<1> QED  BY <1>1, <1>6, <1>7, <1>8, <1>14, <1>15


-----------------------------------------------------------------------------
(* What the elements of a sequence stand for, joined to one sequence. *)

\* w gives a sequence for each member of T: those of s, and the sequence they join to.
StandFor(w, T, S) == w \in [T -> Seq(S)]
Each(w, s) == [i \in DOMAIN s |-> w[s[i]]]
Joined(w, s) == FlattenSeq(Each(w, s))

\* What is joined is a sequence of sequences.
LEMMA JoinedParts ==
  ASSUME NEW S, NEW T, NEW w, StandFor(w, T, S), NEW s, s \in Seq(T)
  PROVE  /\ Each(w, s) \in Seq(Seq(S))
         /\ Len(Each(w, s)) = Len(s)
         /\ Len(s) \in Nat /\ DOMAIN s = 1 .. Len(s)
         /\ \A i \in 1 .. Len(s) : s[i] \in T /\ w[s[i]] \in Seq(S)
         /\ Joined(w, s) \in Seq(S)
<1>1. PICK n, e : n = Len(s) /\ e = Each(w, s)
  OBVIOUS
<1>2. n \in Nat /\ DOMAIN s = 1 .. n /\ \A i \in 1 .. n : s[i] \in T
  BY <1>1, LenProperties, ElementOfSeq
<1>3. e = [i \in 1 .. n |-> w[s[i]]] /\ \A i \in 1 .. n : w[s[i]] \in Seq(S)
  BY <1>1, <1>2 DEF Each, StandFor
<1>4. e \in Seq(Seq(S)) /\ Len(e) = n
  BY <1>2, <1>3
<1>5. FlattenSeq(e) \in Seq(S)
  BY <1>4, FlattenType
<1> QED  BY <1>1, <1>2, <1>3, <1>4, <1>5 DEF Joined

\* Nothing joins to nothing.
LEMMA JoinedEmpty ==
  ASSUME NEW w
  PROVE  Joined(w, << >>) = << >>
<1>1. PICK e, s : s = << >> /\ e = Each(w, s)
  OBVIOUS
<1>2. e = << >>
  BY <1>1 DEF Each
<1> QED  BY <1>1, <1>2, FlattenEmpty DEF Joined

\* One member more joins to the sequence it stands for at the end.
LEMMA JoinedAppend ==
  ASSUME NEW S, NEW T, NEW w, StandFor(w, T, S), NEW s, s \in Seq(T), NEW t, t \in T
  PROVE  Joined(w, Append(s, t)) = Joined(w, s) \o w[t]
<1>1. PICK n, a, e, f : /\ n = Len(s) /\ a = Append(s, t)
                        /\ e = Each(w, s)
                        /\ f = Each(w, a)
  OBVIOUS
<1>2. n \in Nat /\ e \in Seq(Seq(S)) /\ Len(e) = n /\ w[t] \in Seq(S) /\ DOMAIN s = 1 .. n
  <2>1. /\ Each(w, s) \in Seq(Seq(S))
        /\ Len(Each(w, s)) = Len(s)
        /\ Len(s) \in Nat /\ DOMAIN s = 1 .. Len(s)
    BY JoinedParts
  <2>2. w[t] \in Seq(S)
    BY DEF StandFor
  <2> QED  BY <1>1, <2>1, <2>2
<1>3. a \in Seq(T) /\ Len(a) = n + 1 /\ a[n + 1] = t /\ \A i \in 1 .. n : a[i] = s[i]
  BY <1>1, <1>2, AppendProperties
<1>4. f \in Seq(Seq(S)) /\ Len(f) = n + 1 /\ DOMAIN a = 1 .. n + 1
  <2>1. Each(w, a) \in Seq(Seq(S)) /\ Len(Each(w, a)) = Len(a) /\ DOMAIN a = 1 .. Len(a)
    BY ONLY <1>3, StandFor(w, T, S), JoinedParts
  <2> QED  BY <1>1, <1>3, <2>1
<1>5. PICK x, g : x = w[t] /\ g = Append(e, x)
  OBVIOUS
<1>6. g \in Seq(Seq(S)) /\ Len(g) = n + 1 /\ g[n + 1] = x /\ \A i \in 1 .. n : g[i] = e[i]
  BY <1>2, <1>5, AppendProperties
<1>7. ASSUME NEW i \in 1 .. Len(f) PROVE f[i] = g[i]
  <2>1. i \in 1 .. n + 1
    BY <1>4
  <2>2. f[i] = w[a[i]]
    BY <1>1, <1>4, <2>1 DEF Each
  <2>3. CASE i = n + 1
    BY <1>3, <1>5, <1>6, <2>2, <2>3
  <2>4. CASE i # n + 1
    <3>1. i \in 1 .. n
      BY <1>2, <2>1, <2>4
    <3>2. e[i] = w[s[i]]
      BY <1>1, <1>2, <3>1 DEF Each
    <3> QED  BY <1>3, <1>6, <2>2, <3>1, <3>2
  <2> QED  BY <2>3, <2>4
<1>8. f = g
  BY <1>4, <1>6, <1>7, SeqEqual
<1>9. FlattenSeq(g) = FlattenSeq(e) \o x
  BY <1>2, <1>5, FlattenAppend
<1> QED  BY <1>1, <1>5, <1>8, <1>9 DEF Joined

\* The beginning of a sequence, and its next element.
LEMMA SubSeqNext ==
  ASSUME NEW T, NEW s, s \in Seq(T), NEW k, k \in Nat, k < Len(s)
  PROVE  /\ SubSeq(s, 1, k) \in Seq(T) /\ Len(SubSeq(s, 1, k)) = k
         /\ s[k + 1] \in T
         /\ SubSeq(s, 1, k + 1) = Append(SubSeq(s, 1, k), s[k + 1])
<1>1. PICK n : n = Len(s)
  OBVIOUS
<1>2. n \in Nat /\ (\A i \in 1 .. n : s[i] \in T) /\ k + 1 \in 1 .. n
  BY <1>1, LenProperties, ElementOfSeq
<1>3. PICK a, b, x : a = SubSeq(s, 1, k) /\ b = SubSeq(s, 1, k + 1) /\ x = s[k + 1]
  OBVIOUS
<1>4. a \in Seq(T) /\ Len(a) = k /\ \A i \in 1 .. k : a[i] = s[i]
  <2>1. \A i \in 1 .. k : s[i] \in T
    BY <1>2
  <2> QED  BY <1>2, <1>3, <2>1, SubSeqProperties
<1>5. b \in Seq(T) /\ Len(b) = k + 1 /\ \A i \in 1 .. k + 1 : b[i] = s[i]
  <2>1. \A i \in 1 .. k + 1 : s[i] \in T
    BY <1>2
  <2> QED  BY <1>2, <1>3, <2>1, SubSeqProperties
<1>6. PICK c : c = Append(a, x)
  OBVIOUS
<1>7. x \in T
  BY <1>2, <1>3
<1>8. c \in Seq(T) /\ Len(c) = k + 1 /\ c[k + 1] = x /\ \A i \in 1 .. k : c[i] = a[i]
  BY <1>4, <1>6, <1>7, AppendProperties
<1>9. \A i \in 1 .. k + 1 : b[i] = c[i]
  BY <1>3, <1>4, <1>5, <1>8
<1>10. b = c
  BY <1>5, <1>8, <1>9, SeqEqual
<1> QED  BY <1>3, <1>4, <1>6, <1>7, <1>10

\* The first k + 1 join to what the first k do and the one that is next.
LEMMA JoinedNext ==
  ASSUME NEW S, NEW T, NEW w, StandFor(w, T, S), NEW s, s \in Seq(T),
         NEW k, k \in Nat, k < Len(s)
  PROVE  Joined(w, SubSeq(s, 1, k + 1)) = Joined(w, SubSeq(s, 1, k)) \o w[s[k + 1]]
<1>1. PICK a, x : a = SubSeq(s, 1, k) /\ x = s[k + 1]
  OBVIOUS
<1>2. a \in Seq(T) /\ x \in T /\ SubSeq(s, 1, k + 1) = Append(a, x)
  BY <1>1, SubSeqNext
<1>3. Joined(w, Append(a, x)) = Joined(w, a) \o w[x]
  BY <1>2, JoinedAppend
<1> QED  BY <1>1, <1>2, <1>3

\* All continue what the first k join to.
LEMMA JoinedPrefix ==
  ASSUME NEW S, NEW T, NEW w, StandFor(w, T, S), NEW s, s \in Seq(T),
         NEW k, k \in 0 .. Len(s)
  PROVE  Continues(S, Joined(w, s), Joined(w, SubSeq(s, 1, k)))
<1>1. PICK n, e : n = Len(s) /\ e = Each(w, s)
  OBVIOUS
<1>2. /\ n \in Nat /\ e \in Seq(Seq(S)) /\ Len(e) = n /\ DOMAIN s = 1 .. n
      /\ \A i \in 1 .. n : s[i] \in T /\ w[s[i]] \in Seq(S)
  <2>1. /\ Each(w, s) \in Seq(Seq(S))
        /\ Len(Each(w, s)) = Len(s)
        /\ Len(s) \in Nat /\ DOMAIN s = 1 .. Len(s)
        /\ \A i \in 1 .. Len(s) : s[i] \in T /\ w[s[i]] \in Seq(S)
    BY JoinedParts
  <2> QED  BY <1>1, <2>1
<1>3. PICK a, b, c : /\ a = SubSeq(s, 1, k) /\ b = SubSeq(e, 1, k)
                     /\ c = Each(w, a)
  OBVIOUS
<1>4. k \in 0 .. n /\ k \in Nat /\ k <= n
  BY <1>1, <1>2
<1>5. a \in Seq(T) /\ Len(a) = k /\ \A i \in 1 .. k : a[i] = s[i]
  <2>1. \A i \in 1 .. k : s[i] \in T
    BY <1>2, <1>4
  <2> QED  BY <1>3, <1>4, <2>1, SubSeqProperties
<1>6. b \in Seq(Seq(S)) /\ Len(b) = k /\ \A i \in 1 .. k : b[i] = e[i]
  <2>1. \A i \in 1 .. k : e[i] \in Seq(S)
    BY <1>1, <1>2, <1>4
  <2> QED  BY <1>3, <1>4, <2>1, SubSeqProperties
<1>7. c \in Seq(Seq(S)) /\ Len(c) = k /\ DOMAIN a = 1 .. k
  <2>1. Each(w, a) \in Seq(Seq(S)) /\ Len(Each(w, a)) = Len(a) /\ DOMAIN a = 1 .. Len(a)
    BY ONLY <1>5, StandFor(w, T, S), JoinedParts
  <2> QED  BY <1>3, <1>5, <2>1
<1>8. \A i \in 1 .. k : c[i] = b[i]
  <2>1. \A i \in 1 .. k : c[i] = w[a[i]] /\ e[i] = w[s[i]]
    BY <1>1, <1>2, <1>3, <1>4, <1>7 DEF Each
  <2>2. \A i \in 1 .. k : a[i] = s[i] /\ b[i] = e[i]
    BY ONLY <1>5, <1>6
  <2> QED  BY ONLY <2>1, <2>2
<1>9. b = c
  BY <1>6, <1>7, <1>8, SeqEqual
<1>10. Continues(S, FlattenSeq(e), FlattenSeq(b))
  BY <1>2, <1>3, <1>4, FlattenPrefix
<1> QED  BY <1>1, <1>3, <1>9, <1>10 DEF Joined

\* What holds of the empty sequence, and of one with a member more, holds of all.
LEMMA SeqInduction ==
  ASSUME NEW S, NEW P, << >> \in P, \A s \in Seq(S) : \A e \in S : s \in P => Append(s, e) \in P
  PROVE  \A s \in Seq(S) : s \in P
<1> SUFFICES ASSUME NEW s \in Seq(S) PROVE s \in P
  OBVIOUS
<1>1. PICK n : n = Len(s)
  OBVIOUS
<1>2. n \in Nat
  BY <1>1, LenProperties
<1>3. PICK g : g = [k \in 0 .. n |-> SubSeq(s, 1, k)]
  OBVIOUS
<1>4. g[0] \in P
  <2>1. 0 \in 0 .. n /\ SubSeq(s, 1, 0) = << >>
    BY <1>2, SubSeqEmpty
  <2> QED  BY <1>3, <2>1
<1>5. ASSUME NEW i \in 1 .. n, g[i - 1] \in P PROVE g[i] \in P
  <2>1. PICK k : k = i - 1
    OBVIOUS
  <2>2. k \in Nat /\ k < n /\ k \in 0 .. n /\ i \in 0 .. n /\ k + 1 = i
    BY <1>2, <2>1
  <2>3. /\ SubSeq(s, 1, k) \in Seq(S) /\ s[k + 1] \in S
        /\ SubSeq(s, 1, k + 1) = Append(SubSeq(s, 1, k), s[k + 1])
    BY <1>1, <2>2, SubSeqNext
  <2>4. SubSeq(s, 1, k) \in P
    BY <1>3, <1>5, <2>1, <2>2
  <2>5. SubSeq(s, 1, k + 1) \in P
    BY <2>3, <2>4
  <2> QED  BY <1>3, <2>2, <2>5
<1>6. \A i \in 0 .. n : g[i] \in P
  BY <1>2, <1>4, <1>5, StaysIn
<1>7. SubSeq(s, 1, n) \in P
  BY <1>2, <1>3, <1>6
<1>8. SubSeq(s, 1, n) = s
  BY <1>1, <1>2, SubSeqFull
<1> QED  BY <1>7, <1>8

\* Two sequences of sequences flatten one behind the other.
LEMMA FlattenConcat ==
  ASSUME NEW S, NEW x, x \in Seq(Seq(S)), NEW y, y \in Seq(Seq(S))
  PROVE  FlattenSeq(x \o y) = FlattenSeq(x) \o FlattenSeq(y)
<1>1. PICK T, fx : T = Seq(S) /\ fx = FlattenSeq(x)
  OBVIOUS
<1>2. x \in Seq(T) /\ y \in Seq(T) /\ fx \in Seq(S)
  BY <1>1, FlattenType
<1>3. PICK P : P = {z \in Seq(T) : FlattenSeq(x \o z) = fx \o FlattenSeq(z)}
  OBVIOUS
<1>4. << >> \in P
  <2>1. << >> \in Seq(T) /\ x \o << >> = x /\ fx \o << >> = fx
    BY <1>2, EmptySeq, ConcatEmptySeq
  <2> QED  BY <1>1, <1>3, <2>1, FlattenEmpty
<1>5. ASSUME NEW z, z \in Seq(T), NEW e, e \in T, z \in P PROVE Append(z, e) \in P
  <2>1. PICK a, u, fz : a = Append(z, e) /\ u = x \o z /\ fz = FlattenSeq(z)
    OBVIOUS
  <2>2. a \in Seq(T) /\ u \in Seq(T) /\ fz \in Seq(S) /\ e \in Seq(S)
    BY <1>1, <1>2, <1>5, <2>1, AppendProperties, ConcatProperties, FlattenType
  <2>3. FlattenSeq(u) = fx \o fz
    BY <1>3, <1>5, <2>1
  <2>4. x \o a = Append(u, e)
    <3>1. AppendsLater(x, z, e)
      BY ONLY <1>2, <1>5, AppendLater
    <3> QED  BY <2>1, <3>1 DEF AppendsLater
  <2>5. FlattenSeq(Append(u, e)) = (fx \o fz) \o e
    <3>1. u \in Seq(Seq(S)) /\ e \in Seq(S)
      BY <1>1, <2>2
    <3>2. FlattenSeq(Append(u, e)) = FlattenSeq(u) \o e
      BY ONLY <3>1, FlattenAppend
    <3> QED  BY <2>3, <3>2
  <2>6. FlattenSeq(a) = fz \o e
    <3>1. z \in Seq(Seq(S)) /\ e \in Seq(S)
      BY <1>1, <1>5, <2>2
    <3>2. FlattenSeq(Append(z, e)) = FlattenSeq(z) \o e
      BY ONLY <3>1, FlattenAppend
    <3> QED  BY <2>1, <3>2
  <2>7. (fx \o fz) \o e = fx \o (fz \o e)
    <3>1. fx \in Seq(S) /\ fz \in Seq(S) /\ e \in Seq(S)
      BY <1>2, <2>2
    <3> QED  BY ONLY <3>1, ConcatAssociative
  <2> QED  BY <1>3, <2>1, <2>2, <2>4, <2>5, <2>6, <2>7
<1>6. \A z \in Seq(T) : z \in P
  <2>1. \A z \in Seq(T) : \A e \in T : z \in P => Append(z, e) \in P
    BY <1>5
  <2> QED  BY ONLY <1>4, <2>1, SeqInduction
<1> QED  BY <1>1, <1>2, <1>3, <1>6

\* What two sequences stand for, one behind the other, joins likewise.
LEMMA JoinedConcat ==
  ASSUME NEW S, NEW T, NEW w, StandFor(w, T, S), NEW s, s \in Seq(T), NEW t, t \in Seq(T)
  PROVE  Joined(w, s \o t) = Joined(w, s) \o Joined(w, t)
<1>1. PICK P, js : js = Joined(w, s) /\ P = {z \in Seq(T) : Joined(w, s \o z) = js \o Joined(w, z)}
  OBVIOUS
<1>2. js \in Seq(S)
  BY <1>1, JoinedParts
<1>3. << >> \in P
  <2>1. << >> \in Seq(T) /\ s \o << >> = s /\ js \o << >> = js
    BY <1>2, EmptySeq, ConcatEmptySeq
  <2> QED  BY <1>1, <2>1, JoinedEmpty
<1>4. ASSUME NEW z, z \in Seq(T), NEW e, e \in T, z \in P PROVE Append(z, e) \in P
  <2>1. PICK a, u, jz, we : a = Append(z, e) /\ u = s \o z /\ jz = Joined(w, z) /\ we = w[e]
    OBVIOUS
  <2>2. a \in Seq(T) /\ u \in Seq(T) /\ jz \in Seq(S) /\ we \in Seq(S)
    <3>1. w[e] \in Seq(S)
      BY <1>4 DEF StandFor
    <3> QED  BY <1>4, <2>1, <3>1, AppendProperties, ConcatProperties, JoinedParts
  <2>3. Joined(w, u) = js \o jz
    BY <1>1, <1>4, <2>1
  <2>4. s \o a = Append(u, e)
    <3>1. AppendsLater(s, z, e)
      BY ONLY <1>4, s \in Seq(T), AppendLater
    <3> QED  BY <2>1, <3>1 DEF AppendsLater
  <2>5. Joined(w, Append(u, e)) = (js \o jz) \o we
    <3>1. Joined(w, Append(u, e)) = Joined(w, u) \o w[e]
      BY ONLY <1>4, <2>2, StandFor(w, T, S), JoinedAppend
    <3> QED  BY <2>1, <2>3, <3>1
  <2>6. Joined(w, a) = jz \o we
    <3>1. Joined(w, Append(z, e)) = Joined(w, z) \o w[e]
      BY ONLY <1>4, StandFor(w, T, S), JoinedAppend
    <3> QED  BY <2>1, <3>1
  <2>7. (js \o jz) \o we = js \o (jz \o we)
    <3>1. js \in Seq(S) /\ jz \in Seq(S) /\ we \in Seq(S)
      BY <1>2, <2>2
    <3> QED  BY ONLY <3>1, ConcatAssociative
  <2> QED  BY <1>1, <2>1, <2>2, <2>4, <2>5, <2>6, <2>7
<1>5. \A z \in Seq(T) : z \in P
  <2>1. \A z \in Seq(T) : \A e \in T : z \in P => Append(z, e) \in P
    BY <1>4
  <2> QED  BY ONLY <1>3, <2>1, SeqInduction
<1> QED  BY <1>1, <1>5
==============================================================================
