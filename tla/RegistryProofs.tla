--------------------------- MODULE RegistryProofs ---------------------------
(* What holds of the units and the commands for every set of apps, of clients  *)
(* and of configurations, and for every number of commands, crashes, failures  *)
(* and reboots.  The proofs speak of the steps a command has left: what has to *)
(* come before a step either comes before it in the list or has been done, and *)
(* this survives taking a step, dropping some, and the steps of other clients. *)
(* The promises of the commands are kept in the same way: what a promise still *)
(* lacks is what the steps left before it will do.                             *)
EXTENDS UnitRegistry, SequenceTheorems, FiniteSetTheorems, WellFoundedInduction, TLAPS

\* A set of natural numbers that is not empty has a least member.
LEMMA NatMin ==
  ASSUME NEW T \in SUBSET Nat, T # {}
  PROVE  \E x \in T : \A y \in T : x <= y
<1> DEFINE R == {ss \in Nat \X Nat : ss[1] < ss[2]}
<1>1. IsWellFoundedOn(R, Nat)
  BY NatLessThanWellFounded DEF OpToRel
<1>2. PICK x \in T : \A y \in T : ~(<< y, x >> \in R)
  BY <1>1, WFMin
<1>3. \A y \in T : ~(y < x)
  BY <1>2
<1> QED  BY <1>3

-----------------------------------------------------------------------------
(* Lists of steps made of blocks. *)

\* q has blk at the places after `off`.
BlockAt(q, off, blk) ==
  \A p \in 1 .. Len(blk) : off + p \in 1 .. Len(q) /\ q[off + p] = blk[p]

\* Every place of q lies in a copy of one of the blocks.
MadeOf(q, blocks) ==
  \A i \in 1 .. Len(q) : \E blk \in blocks, off \in Nat :
    i - off \in 1 .. Len(blk) /\ BlockAt(q, off, blk)

\* A block is made of itself.
LEMMA MadeOfItself ==
  ASSUME NEW S, NEW blocks \in SUBSET Seq(S), NEW q \in blocks
  PROVE  MadeOf(q, blocks)
<1>1. BlockAt(q, 0, q) /\ Len(q) \in Nat
  BY DEF BlockAt
<1> QED  BY <1>1 DEF MadeOf

\* One list after another is made of the blocks of both.
LEMMA ConcatMadeOf ==
  ASSUME NEW S, NEW blocks \in SUBSET Seq(S), NEW q \in Seq(S), NEW r \in Seq(S),
         MadeOf(q, blocks), MadeOf(r, blocks)
  PROVE  q \o r \in Seq(S) /\ MadeOf(q \o r, blocks)
<1>1. /\ q \o r \in Seq(S) /\ Len(q \o r) = Len(q) + Len(r)
      /\ Len(q) \in Nat /\ Len(r) \in Nat
      /\ \A i \in 1 .. Len(q) + Len(r) :
           (q \o r)[i] = IF i <= Len(q) THEN q[i] ELSE r[i - Len(q)]
  BY ConcatProperties, LenProperties
<1>2. ASSUME NEW i \in 1 .. Len(q \o r)
      PROVE  \E blk \in blocks, off \in Nat :
               i - off \in 1 .. Len(blk) /\ BlockAt(q \o r, off, blk)
  <2>1. CASE i <= Len(q)
    <3>1. PICK blk \in blocks, off \in Nat :
            i - off \in 1 .. Len(blk) /\ BlockAt(q, off, blk)
      BY <1>1, <2>1 DEF MadeOf
    <3>2. BlockAt(q \o r, off, blk)
      BY <1>1, <3>1 DEF BlockAt
    <3> QED  BY <3>1, <3>2
  <2>2. CASE i > Len(q)
    <3>1. i - Len(q) \in 1 .. Len(r)
      BY <1>1, <2>2
    <3>2. PICK blk \in blocks, off \in Nat :
            i - Len(q) - off \in 1 .. Len(blk) /\ BlockAt(r, off, blk)
      BY <3>1 DEF MadeOf
    <3>3. Len(blk) \in Nat
      BY LenProperties
    <3>4. BlockAt(q \o r, Len(q) + off, blk)
      <4> SUFFICES ASSUME NEW p \in 1 .. Len(blk)
                   PROVE  /\ Len(q) + off + p \in 1 .. Len(q \o r)
                          /\ (q \o r)[Len(q) + off + p] = blk[p]
        BY DEF BlockAt
      <4>1. off + p \in 1 .. Len(r) /\ r[off + p] = blk[p]
        BY <3>2 DEF BlockAt
      <4> QED  BY <4>1, <1>1, <3>3
    <3> QED  BY <3>2, <3>4, <1>1, <3>3
  <2> QED  BY <2>1, <2>2, <1>1
<1> QED  BY <1>1, <1>2 DEF MadeOf

\* The recursion of FlattenSeq, as far as m.
Flattens(g, m, seqs, S) ==
  /\ g \in [1 .. m -> Seq(S)]
  /\ \A i \in 1 .. m : g[i] = IF i = 1 THEN seqs[i] ELSE g[i - 1] \o seqs[i]

\* There is a function that satisfies it.
LEMMA FlattensExists ==
  ASSUME NEW S, NEW seqs \in Seq(Seq(S))
  PROVE  \E g : Flattens(g, Len(seqs), seqs, S)
<1> DEFINE Bad == {m \in Nat : m <= Len(seqs) /\ ~ \E g : Flattens(g, m, seqs, S)}
<1>1. SUFFICES ASSUME Bad # {} PROVE FALSE
  BY LenProperties
<1>2. PICK m \in Bad : \A k \in Bad : m <= k
  <2> HIDE DEF Bad
  <2>1. Bad \in SUBSET Nat
    BY DEF Bad
  <2> QED  BY <2>1, <1>1, NatMin
<1>3. m \in Nat /\ m <= Len(seqs) /\ Len(seqs) \in Nat
  BY <1>2, LenProperties
<1>4. m # 0
  <2> SUFFICES ASSUME m = 0 PROVE FALSE
    OBVIOUS
  <2>1. Flattens([i \in 1 .. 0 |-> << >>], m, seqs, S)
    BY DEF Flattens
  <2> QED  BY <2>1, <1>2
<1>5. m - 1 \in Nat /\ m - 1 \notin Bad
  <2>1. m - 1 \in Nat /\ ~(m <= m - 1)
    BY <1>3, <1>4
  <2> QED  BY <2>1, <1>2
<1>6. PICK g : Flattens(g, m - 1, seqs, S)
  BY <1>5, <1>3
<1>7. seqs[m] \in Seq(S)
  BY <1>3, <1>4, ElementOfSeq
<1>8. PICK h : h = [i \in 1 .. m |-> IF i = m THEN IF m = 1 THEN seqs[m] ELSE g[m - 1] \o seqs[m]
                                     ELSE g[i]]
  OBVIOUS
<1>9. m # 1 => g[m - 1] \in Seq(S) /\ g[m - 1] \o seqs[m] \in Seq(S)
  <2>1. m # 1 => g[m - 1] \in Seq(S)
    BY <1>3, <1>4, <1>6 DEF Flattens
  <2> QED  BY <2>1, <1>7, ConcatProperties
<1>10. Flattens(h, m, seqs, S)
  <2>1. \A i \in 1 .. m : h[i] \in Seq(S)
    BY <1>3, <1>4, <1>6, <1>7, <1>8, <1>9 DEF Flattens
  <2>2. \A i \in 1 .. m : h[i] = IF i = 1 THEN seqs[i] ELSE h[i - 1] \o seqs[i]
    <3> SUFFICES ASSUME NEW i \in 1 .. m
                 PROVE  h[i] = IF i = 1 THEN seqs[i] ELSE h[i - 1] \o seqs[i]
      OBVIOUS
    <3>1. i # 1 => i - 1 \in 1 .. m /\ i - 1 # m /\ h[i - 1] = g[i - 1]
      BY <1>3, <1>8
    <3>2. CASE i = m
      BY <1>8, <3>1, <3>2
    <3>3. CASE i # m
      <4>1. i \in 1 .. (m - 1) /\ h[i] = g[i]
        BY <1>3, <1>8, <3>3
      <4> QED  BY <4>1, <3>1, <1>6 DEF Flattens
    <3> QED  BY <3>2, <3>3
  <2> QED  BY <1>8, <2>1, <2>2 DEF Flattens
<1> QED  BY <1>10, <1>2

\* A flattened list of blocks is made of them.
LEMMA FlattenMadeOf ==
  ASSUME NEW S, NEW blocks \in SUBSET Seq(S), NEW seqs \in Seq(blocks)
  PROVE  FlattenSeq(seqs) \in Seq(S) /\ MadeOf(FlattenSeq(seqs), blocks)
<1>0. seqs \in Seq(Seq(S)) /\ Len(seqs) \in Nat
  BY SeqMonotonic, LenProperties
<1>1. CASE Len(seqs) = 0
  <2>1. FlattenSeq(seqs) = << >>
    BY <1>0, <1>1, EmptySeq DEF FlattenSeq
  <2>2. << >> \in Seq(S) /\ Len(<< >>) = 0
    BY EmptySeq
  <2> QED  BY <2>1, <2>2 DEF MadeOf
<1>2. CASE Len(seqs) # 0
  <2>1. PICK h : Flattens(h, Len(seqs), seqs, S)
    BY <1>0, FlattensExists
  <2>2. h = [i \in 1 .. Len(seqs) |-> IF i = 1 THEN seqs[i] ELSE h[i - 1] \o seqs[i]]
    BY <2>1 DEF Flattens
  <2> DEFINE g == CHOOSE flatten : flatten = [i \in 1 .. Len(seqs) |->
                    IF i = 1 THEN seqs[i] ELSE flatten[i - 1] \o seqs[i]]
  <2>3. FlattenSeq(seqs) = g[Len(seqs)]
    BY <1>2 DEF FlattenSeq
  <2>4. g = [i \in 1 .. Len(seqs) |-> IF i = 1 THEN seqs[i] ELSE g[i - 1] \o seqs[i]]
    BY <2>2
  <2> HIDE DEF g
  <2> DEFINE Bad == {m \in Nat : m \in 1 .. Len(seqs)
                                 /\ ~(g[m] \in Seq(S) /\ MadeOf(g[m], blocks))}
  <2>5. ASSUME Bad # {}
        PROVE  FALSE
    <3>1. PICK m \in Bad : \A k \in Bad : m <= k
      <4> HIDE DEF Bad
      <4>1. Bad \in SUBSET Nat
        BY DEF Bad
      <4> QED  BY <4>1, <2>5, NatMin
    <3>2. m \in 1 .. Len(seqs) /\ m \in Nat
      BY <3>1
    <3>3. seqs[m] \in blocks /\ seqs[m] \in Seq(S) /\ MadeOf(seqs[m], blocks)
      BY <3>2, ElementOfSeq, MadeOfItself
    <3>4. CASE m = 1
      <4>1. g[m] = seqs[m]
        BY <2>4, <3>2, <3>4
      <4> QED  BY <4>1, <3>1, <3>3
    <3>5. CASE m # 1
      <4>1. m - 1 \in 1 .. Len(seqs) /\ m - 1 \in Nat /\ ~(m <= m - 1)
        BY <3>2, <3>5, <1>0
      <4>2. g[m - 1] \in Seq(S) /\ MadeOf(g[m - 1], blocks)
        BY <4>1, <3>1
      <4>3. g[m] = g[m - 1] \o seqs[m]
        BY <2>4, <3>2, <3>5
      <4> QED  BY <4>2, <4>3, <3>1, <3>3, ConcatMadeOf
    <3> QED  BY <3>4, <3>5
  <2>6. Len(seqs) \in 1 .. Len(seqs) /\ Len(seqs) \notin Bad
    BY <2>5, <1>0, <1>2
  <2> QED  BY <2>3, <2>6, <1>0
<1> QED  BY <1>1, <1>2

-----------------------------------------------------------------------------
(* Dropping steps. *)

\* r is what is left of the first m steps of q without those in D, in order:
\* its step i is the step f[i] of q.
Picks(f, r, m, q, D) ==
  /\ f \in [1 .. Len(r) -> 1 .. m]
  /\ \A i, j \in 1 .. Len(r) : i < j => f[i] < f[j]
  /\ \A i \in 1 .. Len(r) : r[i] = q[f[i]] /\ r[i] \notin D
  /\ \A k \in 1 .. m : q[k] \in D \/ \E i \in 1 .. Len(r) : f[i] = k

\* The next step that stays is added at the end.
LEMMA PicksAppend ==
  ASSUME NEW S, NEW q \in Seq(S), NEW r \in Seq(S), NEW m \in 1 .. Len(q), NEW D, NEW f,
         Picks(f, r, m - 1, q, D), q[m] \notin D
  PROVE  \E g : Picks(g, Append(r, q[m]), m, q, D)
<1>1. /\ Len(r) \in Nat /\ m \in Nat /\ Len(q) \in Nat
      /\ Len(Append(r, q[m])) = Len(r) + 1
      /\ \A i \in 1 .. Len(r) : Append(r, q[m])[i] = r[i]
      /\ Append(r, q[m])[Len(r) + 1] = q[m]
  BY LenProperties, ElementOfSeq, AppendProperties
<1>2. PICK s : s = Append(r, q[m])
  OBVIOUS
<1>3. PICK g : g = [i \in 1 .. Len(r) + 1 |-> IF i = Len(r) + 1 THEN m ELSE f[i]]
  OBVIOUS
<1>4. \A i \in 1 .. Len(r) : g[i] = f[i] /\ f[i] \in 1 .. (m - 1) /\ s[i] = r[i]
  BY <1>1, <1>2, <1>3 DEF Picks
<1>5. g[Len(r) + 1] = m /\ s[Len(r) + 1] = q[m] /\ Len(s) = Len(r) + 1
  BY <1>1, <1>2, <1>3
<1>6. \A i \in 1 .. Len(r) + 1 : i = Len(r) + 1 \/ i \in 1 .. Len(r)
  BY <1>1
<1>7. g \in [1 .. Len(s) -> 1 .. m]
  <2>1. \A i \in 1 .. Len(r) + 1 : g[i] \in 1 .. m
    BY <1>1, <1>4, <1>5, <1>6
  <2> QED  BY <2>1, <1>3, <1>5
<1>8. \A i, j \in 1 .. Len(s) : i < j => g[i] < g[j]
  BY <1>1, <1>4, <1>5, <1>6 DEF Picks
<1>9. \A i \in 1 .. Len(s) : s[i] = q[g[i]] /\ s[i] \notin D
  BY <1>1, <1>4, <1>5, <1>6 DEF Picks
<1>10. \A k \in 1 .. m : q[k] \in D \/ \E i \in 1 .. Len(s) : g[i] = k
  <2> SUFFICES ASSUME NEW k \in 1 .. m, q[k] \notin D
               PROVE  \E i \in 1 .. Len(s) : g[i] = k
    OBVIOUS
  <2>1. CASE k = m
    BY <2>1, <1>1, <1>5
  <2>2. CASE k # m
    <3>1. k \in 1 .. (m - 1)
      BY <2>2, <1>1
    <3>2. PICK i \in 1 .. Len(r) : f[i] = k
      BY <3>1 DEF Picks
    <3> QED  BY <3>2, <1>1, <1>4, <1>5
  <2> QED  BY <2>1, <2>2
<1> QED  BY <1>2, <1>7, <1>8, <1>9, <1>10 DEF Picks

\* The recursion of Without, as far as m.
Drops(g, m, q, D, S) ==
  /\ g \in [0 .. m -> Seq(S)]
  /\ \A i \in 0 .. m :
       g[i] = IF i = 0 THEN << >>
              ELSE IF q[i] \in D THEN g[i - 1] ELSE Append(g[i - 1], q[i])

\* There is a function that satisfies it.
LEMMA DropsExists ==
  ASSUME NEW S, NEW q \in Seq(S), NEW D
  PROVE  \E g : Drops(g, Len(q), q, D, S)
<1> DEFINE Bad == {m \in Nat : m <= Len(q) /\ ~ \E g : Drops(g, m, q, D, S)}
<1>1. SUFFICES ASSUME Bad # {} PROVE FALSE
  BY LenProperties
<1>2. PICK m \in Bad : \A k \in Bad : m <= k
  <2> HIDE DEF Bad
  <2>1. Bad \in SUBSET Nat
    BY DEF Bad
  <2> QED  BY <2>1, <1>1, NatMin
<1>3. m \in Nat /\ m <= Len(q) /\ Len(q) \in Nat
  BY <1>2, LenProperties
<1>4. CASE m = 0
  <2>1. << >> \in Seq(S)
    BY EmptySeq
  <2>2. Drops([i \in 0 .. 0 |-> << >>], 0, q, D, S)
    BY <2>1 DEF Drops
  <2> QED  BY <2>2, <1>2, <1>4
<1>5. CASE m # 0
  <2>1. m - 1 \in Nat /\ ~(m <= m - 1) /\ m \in 1 .. Len(q)
    BY <1>3, <1>5
  <2>2. m - 1 \notin Bad
    BY <2>1, <1>2
  <2>3. PICK g : Drops(g, m - 1, q, D, S)
    BY <2>1, <2>2, <1>3
  <2>4. q[m] \in S
    BY <2>1, ElementOfSeq
  <2>5. g[m - 1] \in Seq(S)
    BY <2>1, <2>3 DEF Drops
  <2>6. Append(g[m - 1], q[m]) \in Seq(S)
    BY <2>4, <2>5, AppendProperties
  <2>7. PICK h : h = [i \in 0 .. m |-> IF i = m
                        THEN IF q[m] \in D THEN g[m - 1] ELSE Append(g[m - 1], q[m])
                        ELSE g[i]]
    OBVIOUS
  <2>8. \A i \in 0 .. m : i = m \/ i \in 0 .. (m - 1)
    BY <1>3
  <2>9. h[m] = (IF q[m] \in D THEN g[m - 1] ELSE Append(g[m - 1], q[m]))
        /\ \A i \in 0 .. (m - 1) : h[i] = g[i]
    BY <2>7, <1>3
  <2>10. h \in [0 .. m -> Seq(S)]
    <3>1. \A i \in 0 .. m : h[i] \in Seq(S)
      BY <2>3, <2>5, <2>6, <2>8, <2>9 DEF Drops
    <3> QED  BY <3>1, <2>7
  <2>11. ASSUME NEW i \in 0 .. m
         PROVE  h[i] = IF i = 0 THEN << >>
                       ELSE IF q[i] \in D THEN h[i - 1] ELSE Append(h[i - 1], q[i])
    <3>1. i # 0 => h[i - 1] = g[i - 1]
      BY <2>9, <1>3
    <3>2. CASE i = m
      BY <3>1, <3>2, <2>9, <1>5
    <3>3. CASE i # m
      <4>1. i \in 0 .. (m - 1)
        BY <3>3, <2>8
      <4> QED  BY <4>1, <3>1, <2>3, <2>9 DEF Drops
    <3> QED  BY <3>2, <3>3
  <2>12. Drops(h, m, q, D, S)
    BY <2>10, <2>11 DEF Drops
  <2> QED  BY <2>12, <1>2
<1> QED  BY <1>4, <1>5

\* What Without leaves.
LEMMA WithoutPicks ==
  ASSUME NEW S, NEW q \in Seq(S), NEW D
  PROVE  /\ Without(q, D) \in Seq(S)
         /\ \E f : Picks(f, Without(q, D), Len(q), q, D)
<1>0. Len(q) \in Nat
  BY LenProperties
<1>1. PICK h : Drops(h, Len(q), q, D, S)
  BY DropsExists
<1>2. h = [i \in 0 .. Len(q) |->
             IF i = 0 THEN << >>
             ELSE IF q[i] \in D THEN h[i - 1] ELSE Append(h[i - 1], q[i])]
  BY <1>1 DEF Drops
<1> DEFINE g == CHOOSE left : left = [i \in 0 .. Len(q) |->
             IF i = 0 THEN << >>
             ELSE IF q[i] \in D THEN left[i - 1] ELSE Append(left[i - 1], q[i])]
<1>3. Without(q, D) = g[Len(q)]
  BY DEF Without
<1>4. g = [i \in 0 .. Len(q) |->
             IF i = 0 THEN << >>
             ELSE IF q[i] \in D THEN g[i - 1] ELSE Append(g[i - 1], q[i])]
  BY <1>2
<1> HIDE DEF g
<1> DEFINE Right(m) == g[m] \in Seq(S) /\ \E f : Picks(f, g[m], m, q, D)
<1> DEFINE Bad == {m \in Nat : m <= Len(q) /\ ~Right(m)}
<1>5. ASSUME Bad # {}
      PROVE  FALSE
  <2>1. PICK m \in Bad : \A k \in Bad : m <= k
    <3> HIDE DEF Bad
    <3>1. Bad \in SUBSET Nat
      BY DEF Bad
    <3> QED  BY <3>1, <1>5, NatMin
  <2>2. m \in Nat /\ m <= Len(q) /\ ~Right(m)
    BY <2>1
  <2>3. CASE m = 0
    <3>1. g[0] = << >> /\ << >> \in Seq(S) /\ Len(<< >>) = 0
      BY <1>4, <1>0, EmptySeq
    <3>2. Picks([i \in 1 .. 0 |-> i], g[0], 0, q, D)
      BY <3>1 DEF Picks
    <3> QED  BY <3>1, <3>2, <2>2, <2>3
  <2>4. CASE m # 0
    <3>1. m - 1 \in Nat /\ m - 1 <= Len(q) /\ ~(m <= m - 1) /\ m \in 1 .. Len(q)
      BY <2>2, <2>4, <1>0
    <3>2. Right(m - 1)
      BY <3>1, <2>1
    <3>3. PICK f : Picks(f, g[m - 1], m - 1, q, D)
      BY <3>2
    <3>4. g[m - 1] \in Seq(S) /\ q[m] \in S
      BY <3>1, <3>2, ElementOfSeq
    <3>5. g[m] = IF q[m] \in D THEN g[m - 1] ELSE Append(g[m - 1], q[m])
      <4>1. m \in 0 .. Len(q)
        BY <3>1, <1>0
      <4> QED  BY <4>1, <2>4, <1>4
    <3>6. CASE q[m] \in D
      <4>1. Picks(f, g[m - 1], m, q, D)
        BY <3>1, <3>3, <3>6 DEF Picks
      <4> QED  BY <4>1, <3>4, <3>5, <3>6, <2>2
    <3>7. CASE q[m] \notin D
      <4>1. \E e : Picks(e, Append(g[m - 1], q[m]), m, q, D)
        BY <3>1, <3>3, <3>4, <3>7, PicksAppend
      <4>2. Append(g[m - 1], q[m]) \in Seq(S)
        BY <3>4, AppendProperties
      <4> QED  BY <4>1, <4>2, <3>5, <3>7, <2>2
    <3> QED  BY <3>6, <3>7
  <2> QED  BY <2>3, <2>4
<1>6. Right(Len(q))
  BY <1>0, <1>5
<1> QED  BY <1>3, <1>6

\* r is what is left of q once its first step is gone and those of D dropped.
Leaves(r, q, D) == \E f : Picks(f, r, Len(Tail(q)), Tail(q), D)

LEMMA LeavesTail ==
  ASSUME NEW S, NEW q \in Seq(S), q # << >>
  PROVE  Tail(q) \in Seq(S) /\ Leaves(Tail(q), q, {})
<1>1. Tail(q) \in Seq(S) /\ Len(Tail(q)) \in Nat
  BY HeadTailProperties, LenProperties
<1>2. PICK f : f = [i \in 1 .. Len(Tail(q)) |-> i]
  OBVIOUS
<1>3. Picks(f, Tail(q), Len(Tail(q)), Tail(q), {})
  BY <1>1, <1>2 DEF Picks
<1> QED  BY <1>1, <1>3 DEF Leaves

LEMMA LeavesWithout ==
  ASSUME NEW S, NEW q \in Seq(S), q # << >>, NEW D
  PROVE  Without(Tail(q), D) \in Seq(S) /\ Leaves(Without(Tail(q), D), q, D)
BY HeadTailProperties, WithoutPicks DEF Leaves

\* Dropping more from what is left.
LEMMA LeavesAgain ==
  ASSUME NEW S, NEW q \in Seq(S), q # << >>, NEW r \in Seq(S), NEW D, NEW E,
         Leaves(r, q, D)
  PROVE  Without(r, E) \in Seq(S) /\ Leaves(Without(r, E), q, D \cup E)
<1>0. PICK t, m : t = Tail(q) /\ m = Len(Tail(q))
  OBVIOUS
<1>1. PICK f : Picks(f, r, m, t, D)
  BY <1>0 DEF Leaves
<1>2. PICK s : s = Without(r, E)
  OBVIOUS
<1>3. s \in Seq(S) /\ Len(s) \in Nat /\ Len(r) \in Nat /\ m \in Nat
  BY <1>0, <1>2, WithoutPicks, HeadTailProperties, LenProperties
<1>4. PICK g : Picks(g, s, Len(r), r, E)
  BY <1>2, WithoutPicks
<1>5. PICK h : h = [i \in 1 .. Len(s) |-> f[g[i]]]
  OBVIOUS
<1>6. \A i \in 1 .. Len(s) : g[i] \in 1 .. Len(r) /\ h[i] = f[g[i]] /\ h[i] \in 1 .. m
  BY <1>1, <1>4, <1>5 DEF Picks
<1>7. Picks(h, s, m, t, D \cup E)
  <2>1. h \in [1 .. Len(s) -> 1 .. m]
    BY <1>5, <1>6
  <2>2. \A i, j \in 1 .. Len(s) : i < j => h[i] < h[j]
    BY <1>1, <1>4, <1>6 DEF Picks
  <2>3. \A i \in 1 .. Len(s) : s[i] = t[h[i]] /\ s[i] \notin D \cup E
    <3> TAKE i \in 1 .. Len(s)
    <3>1. s[i] = r[g[i]] /\ s[i] \notin E
      BY <1>4 DEF Picks
    <3>2. r[g[i]] = t[f[g[i]]] /\ r[g[i]] \notin D
      BY <1>1, <1>6 DEF Picks
    <3> QED  BY <3>1, <3>2, <1>6
  <2>4. ASSUME NEW k \in 1 .. m, t[k] \notin D \cup E
        PROVE  \E i \in 1 .. Len(s) : h[i] = k
    <3>1. PICK j \in 1 .. Len(r) : f[j] = k
      BY <2>4, <1>1 DEF Picks
    <3>2. r[j] = t[k]
      BY <3>1, <1>1 DEF Picks
    <3>3. PICK i \in 1 .. Len(s) : g[i] = j
      BY <3>2, <2>4, <1>4 DEF Picks
    <3> QED  BY <3>1, <3>3, <1>6
  <2> QED  BY <2>1, <2>2, <2>3, <2>4 DEF Picks
<1> QED  BY <1>0, <1>2, <1>3, <1>7 DEF Leaves

\* Where a step that is left was.
LEMMA LeavesPlaces ==
  ASSUME NEW S, NEW q \in Seq(S), q # << >>, NEW r \in Seq(S), NEW D, Leaves(r, q, D),
         NEW i \in 1 .. Len(r)
  PROVE  \E k \in 2 .. Len(q) :
           /\ r[i] = q[k] /\ r[i] \notin D
           /\ \A j \in 2 .. (k - 1) : q[j] \in D \/ \E l \in 1 .. (i - 1) : r[l] = q[j]
           /\ \A j \in (k + 1) .. Len(q) :
                q[j] \in D \/ \E l \in (i + 1) .. Len(r) : r[l] = q[j]
<1>0. PICK t, m : t = Tail(q) /\ m = Len(Tail(q))
  OBVIOUS
<1>1. /\ m \in Nat /\ Len(q) = m + 1 /\ Len(r) \in Nat
      /\ \A k \in 1 .. m : t[k] = q[k + 1]
  BY <1>0, HeadTailProperties, LenProperties
<1>2. PICK f : Picks(f, r, m, t, D)
  BY <1>0 DEF Leaves
<1>3. PICK k \in 2 .. Len(q) : k = f[i] + 1 /\ r[i] = q[k] /\ r[i] \notin D
  <2>1. f[i] \in 1 .. m /\ r[i] = t[f[i]] /\ r[i] \notin D
    BY <1>2 DEF Picks
  <2>2. f[i] + 1 \in 2 .. Len(q)
    BY <2>1, <1>1
  <2> QED  BY <2>1, <2>2, <1>1
<1>4. \A l \in 1 .. Len(r) : f[l] \in 1 .. m /\ f[l] \in Int
  <2>1. \A l \in 1 .. Len(r) : f[l] \in 1 .. m
    BY <1>2 DEF Picks
  <2> QED  BY <2>1, <1>1
<1>5. ASSUME NEW j \in 2 .. Len(q), q[j] \notin D
      PROVE  \E l \in 1 .. Len(r) : f[l] = j - 1 /\ r[l] = q[j]
  <2>1. j - 1 \in 1 .. m /\ t[j - 1] = q[j]
    BY <1>1
  <2>2. PICK l \in 1 .. Len(r) : f[l] = j - 1
    BY <2>1, <1>2, <1>5 DEF Picks
  <2> QED  BY <2>1, <2>2, <1>2 DEF Picks
<1>6. ASSUME NEW j \in 2 .. (k - 1), q[j] \notin D
      PROVE  \E l \in 1 .. (i - 1) : r[l] = q[j]
  <2>0. j \in 2 .. Len(q) /\ j \in Int /\ f[i] \in Int /\ j < f[i] + 1
    BY <1>1, <1>3, <1>4
  <2>1. PICK l \in 1 .. Len(r) : f[l] = j - 1 /\ r[l] = q[j]
    BY <1>5, <1>6, <2>0
  <2>2. f[l] < f[i] /\ ~(f[i] < f[l])
    BY <2>0, <2>1
  <2>3. ~(i < l) /\ i # l
    BY <2>2, <1>2 DEF Picks
  <2> QED  BY <2>1, <2>3, <1>1
<1>7. ASSUME NEW j \in (k + 1) .. Len(q), q[j] \notin D
      PROVE  \E l \in (i + 1) .. Len(r) : r[l] = q[j]
  <2>0. j \in 2 .. Len(q) /\ j \in Int /\ f[i] \in Int /\ f[i] + 1 < j
    BY <1>1, <1>3, <1>4
  <2>1. PICK l \in 1 .. Len(r) : f[l] = j - 1 /\ r[l] = q[j]
    BY <1>5, <1>7, <2>0
  <2>2. f[i] < f[l] /\ ~(f[l] < f[i])
    BY <2>0, <2>1
  <2>3. ~(l < i) /\ i # l
    BY <2>2, <1>2 DEF Picks
  <2> QED  BY <2>1, <2>3, <1>1
<1> QED  BY <1>3, <1>6, <1>7

-----------------------------------------------------------------------------
(* What the steps of a command are, and in which order they come. *)

Outcomes == [running : SUBSET Contents, watched : SUBSET BOOLEAN]

CallKinds == {"reload", "start", "startPath", "await", "stop", "stopPath", "restart",
           "enable", "disable", "saved"}
Writes == {"env", "openService", "service", "openHelper", "helper", "openPath", "path"}
Unlinks == {"unlinkService", "unlinkPath", "unlinkHelper", "unlinkEnv"}

\* What `delete` can be asked to delete.
Deletable == IF Everything THEN Names ELSE Apps

AnyStep == [do : CallKinds, name : Names]
           \cup [do : Unlinks, name : Deletable]
           \cup [do : Writes \ {"service"}, name : Apps]
           \cup [do : {"service"}, name : Apps, unit : Unit]
           \cup [do : {"finish"}, name : Names, outcome : Outcomes]

LEMMA StepType ==
  ASSUME NEW s \in AnyStep
  PROVE  /\ s.do \in CallKinds \cup Unlinks \cup Writes \cup {"finish"}
         /\ s.name \in Names
         /\ s.do \in Writes => s.name \in Apps
         /\ s.do \in Unlinks => s.name \in Deletable
         /\ s.do = "service" => s.unit \in Unit
         /\ s.do = "finish" => s.outcome \in Outcomes
<1>1. Apps \subseteq Names
  BY RegistryAssumption
<1>2. CASE s \in [do : CallKinds, name : Names]
  BY <1>2 DEF CallKinds, Unlinks, Writes
<1>3. CASE s \in [do : Unlinks, name : Deletable]
  BY <1>1, <1>3 DEF Unlinks, Writes, Deletable
<1>4. CASE s \in [do : Writes \ {"service"}, name : Apps]
  BY <1>1, <1>4 DEF Unlinks, Writes
<1>5. CASE s \in [do : {"service"}, name : Apps, unit : Unit]
  BY <1>1, <1>5 DEF Unlinks, Writes
<1>6. CASE s \in [do : {"finish"}, name : Names, outcome : Outcomes]
  BY <1>6 DEF Unlinks, Writes
<1> QED  BY <1>2, <1>3, <1>4, <1>5, <1>6 DEF AnyStep

OfKinds(q, kinds) == \A i \in 1 .. Len(q) : q[i].do \in kinds

\* What a step of `late` needs on its name is done, or an earlier step does it.
Prepared(q, late, early, done) ==
  \A i \in 1 .. Len(q) : q[i] \in late =>
    \/ q[i].name \in done
    \/ \E j \in 1 .. (i - 1) : q[j].do = early /\ q[j].name = q[i].name

EnvUnits == {s \in AnyStep : s.do = "service" /\ s.unit.env}
Of(kind) == {s \in AnyStep : s.do = kind}

\* The order in which a command writes and unlinks files.
Planned(q) ==
  /\ Prepared(q, EnvUnits, "env", {})
  /\ Prepared(q, Of("unlinkEnv"), "unlinkService", {})
  /\ Prepared(q, Of("path"), "openHelper", {})
  /\ Prepared(q, Of("unlinkHelper"), "unlinkPath", {})

Good(q, kinds) == q \in Seq(AnyStep) /\ OfKinds(q, kinds) /\ Planned(q)

\* Every change to the services is followed by a reload.
Changes == {"openService", "service", "openHelper", "helper", "unlinkService", "unlinkHelper"}
Reloaded(q) ==
  \A i \in 1 .. Len(q) :
    q[i].do \in Changes => \E j \in (i + 1) .. Len(q) : q[j].do = "reload"

\* What is prepared in each block is prepared in what is made of them.
LEMMA PreparedMade ==
  ASSUME NEW S, NEW blocks \in SUBSET Seq(S), NEW q \in Seq(S), MadeOf(q, blocks),
         NEW late, NEW early, \A blk \in blocks : Prepared(blk, late, early, {})
  PROVE  Prepared(q, late, early, {})
<1> SUFFICES ASSUME NEW i \in 1 .. Len(q), q[i] \in late
             PROVE  \E j \in 1 .. (i - 1) : q[j].do = early /\ q[j].name = q[i].name
  BY DEF Prepared
<1>1. PICK blk \in blocks, off \in Nat : i - off \in 1 .. Len(blk) /\ BlockAt(q, off, blk)
  BY DEF MadeOf
<1>2. Len(blk) \in Nat /\ Len(q) \in Nat
  BY LenProperties
<1>3. PICK k : k = i - off
  OBVIOUS
<1>4. k \in 1 .. Len(blk) /\ i = off + k /\ blk[k] = q[i]
  BY <1>1, <1>2, <1>3 DEF BlockAt
<1>5. PICK j \in 1 .. (k - 1) : blk[j].do = early /\ blk[j].name = blk[k].name
  BY <1>4 DEF Prepared
<1>6. q[off + j] = blk[j] /\ off + j \in 1 .. (i - 1)
  BY <1>1, <1>2, <1>4, <1>5 DEF BlockAt
<1> QED  BY <1>4, <1>5, <1>6

LEMMA GoodMade ==
  ASSUME NEW blocks \in SUBSET Seq(AnyStep), NEW q \in Seq(AnyStep), MadeOf(q, blocks),
         NEW kinds, \A blk \in blocks : Good(blk, kinds)
  PROVE  Good(q, kinds)
<1>1. OfKinds(q, kinds)
  <2> SUFFICES ASSUME NEW i \in 1 .. Len(q)
               PROVE  q[i].do \in kinds
    BY DEF OfKinds
  <2>1. PICK blk \in blocks, off \in Nat : i - off \in 1 .. Len(blk) /\ BlockAt(q, off, blk)
    BY DEF MadeOf
  <2>2. q[i] = blk[i - off]
    BY <2>1, LenProperties DEF BlockAt
  <2> QED  BY <2>1, <2>2 DEF Good, OfKinds
<1>2. Planned(q)
  BY PreparedMade DEF Good, Planned
<1> QED  BY <1>1, <1>2 DEF Good

LEMMA GoodConcat ==
  ASSUME NEW q, NEW r, NEW kinds, Good(q, kinds), Good(r, kinds)
  PROVE  Good(q \o r, kinds)
<1>1. {q, r} \in SUBSET Seq(AnyStep)
  BY DEF Good
<1>2. MadeOf(q, {q, r}) /\ MadeOf(r, {q, r})
  BY <1>1, MadeOfItself
<1>3. q \o r \in Seq(AnyStep) /\ MadeOf(q \o r, {q, r})
  BY <1>1, <1>2, ConcatMadeOf
<1> QED  BY <1>1, <1>3, GoodMade

LEMMA GoodFlatten ==
  ASSUME NEW seqs, seqs \in Seq(Seq(AnyStep)), NEW kinds,
         \A i \in 1 .. Len(seqs) : Good(seqs[i], kinds)
  PROVE  Good(FlattenSeq(seqs), kinds)
<1>1. PICK blocks : blocks = {blk \in Seq(AnyStep) : Good(blk, kinds)}
  OBVIOUS
<1>2. seqs \in Seq(blocks)
  <2>1. Len(seqs) \in Nat /\ seqs \in [1 .. Len(seqs) -> Seq(AnyStep)]
    BY LenProperties
  <2>2. \A i \in 1 .. Len(seqs) : seqs[i] \in blocks
    BY <1>1, <2>1
  <2>3. seqs \in [1 .. Len(seqs) -> blocks]
    BY <2>1, <2>2
  <2>4. Seq(blocks) = UNION {[1 .. n -> blocks] : n \in Nat}
    BY SeqDef
  <2> QED  BY <2>1, <2>3, <2>4
<1>3. FlattenSeq(seqs) \in Seq(AnyStep) /\ MadeOf(FlattenSeq(seqs), blocks)
  BY <1>1, <1>2, FlattenMadeOf
<1> QED  BY <1>1, <1>3, GoodMade

\* The kinds of steps that need an earlier one.
Lates == {"service", "path", "unlinkEnv", "unlinkHelper"}

\* Where there is none of them, any order will do.
LEMMA GoodPlain ==
  ASSUME NEW q \in Seq(AnyStep), NEW kinds, OfKinds(q, kinds), kinds \cap Lates = {}
  PROVE  Good(q, kinds)
<1>1. \A i \in 1 .. Len(q) : q[i].do \notin Lates
  BY DEF OfKinds
<1> QED  BY <1>1 DEF Good, Planned, Prepared, EnvUnits, Of, Lates

LEMMA GoodMore ==
  ASSUME NEW q, NEW few, NEW kinds, Good(q, few), few \subseteq kinds
  PROVE  Good(q, kinds)
BY DEF Good, OfKinds

LEMMA GoodEmpty ==
  ASSUME NEW kinds
  PROVE  Good(<< >>, kinds)
<1>1. << >> \in Seq(AnyStep) /\ Len(<< >>) = 0
  BY EmptySeq
<1> QED  BY <1>1 DEF Good, OfKinds, Planned, Prepared

\* Lists of one, two and five steps that need no other before them.
LEMMA GoodOne ==
  ASSUME NEW s \in AnyStep, s.do \notin Lates
  PROVE  Good(<< s >>, {s.do})
<1>1. << s >> \in Seq(AnyStep) /\ Len(<< s >>) = 1 /\ << s >>[1] = s
  OBVIOUS
<1>2. OfKinds(<< s >>, {s.do})
  BY <1>1 DEF OfKinds
<1> QED  BY <1>1, <1>2, GoodPlain

LEMMA GoodTwo ==
  ASSUME NEW s \in AnyStep, NEW t \in AnyStep, s.do \notin Lates, t.do \notin Lates
  PROVE  Good(<< s, t >>, {s.do, t.do})
<1>1. << s, t >> \in Seq(AnyStep) /\ Len(<< s, t >>) = 2
      /\ << s, t >>[1] = s /\ << s, t >>[2] = t
  OBVIOUS
<1>2. OfKinds(<< s, t >>, {s.do, t.do})
  BY <1>1 DEF OfKinds
<1> QED  BY <1>1, <1>2, GoodPlain

\* The steps fdash makes are steps.
LEMMA DoIsStep ==
  ASSUME NEW n \in Names, NEW kind \in CallKinds
  PROVE  Do(kind, n) \in AnyStep /\ Do(kind, n).do = kind /\ Do(kind, n).name = n
BY DEF Do, AnyStep

LEMMA UnlinkIsStep ==
  ASSUME NEW n \in Deletable, NEW kind \in Unlinks
  PROVE  Do(kind, n) \in AnyStep
BY DEF Do, AnyStep

LEMMA DoFileIsStep ==
  ASSUME NEW a \in Apps, NEW kind \in Writes \ {"service"}
  PROVE  Do(kind, a) \in AnyStep /\ Do(kind, a).do = kind /\ Do(kind, a).name = a
BY DEF Do, AnyStep

LEMMA WriteIsStep ==
  ASSUME NEW a \in Apps, NEW unit \in Unit
  PROVE  /\ Write(a, unit) \in AnyStep /\ Write(a, unit).do = "service"
         /\ Write(a, unit).name = a /\ Write(a, unit).unit = unit
BY DEF Write, AnyStep

LEMMA FinishIsStep ==
  ASSUME NEW n \in Names, NEW outcome \in Outcomes
  PROVE  Finish(n, outcome) \in AnyStep /\ Finish(n, outcome).do = "finish"
BY DEF Finish, AnyStep

LEMMA WaitGood ==
  ASSUME NEW n \in Names
  PROVE  Good(Wait(n), {"await"})
<1>1. Do("await", n) \in AnyStep /\ Do("await", n).do = "await"
  BY DoIsStep DEF CallKinds
<1>2. Good(<< Do("await", n) >>, {"await"})
  BY <1>1, GoodOne DEF Lates
<1> QED  BY <1>2, GoodEmpty DEF Wait, Optional

LEMMA StartStepsGood ==
  ASSUME NEW n \in Names
  PROVE  Good(StartSteps(n), {"start", "startPath", "await"})
<1>1. Good(<< Do("start", n), Do("startPath", n) >>, {"start", "startPath"})
  <2>1. /\ Do("start", n) \in AnyStep /\ Do("start", n).do = "start"
        /\ Do("startPath", n) \in AnyStep /\ Do("startPath", n).do = "startPath"
    BY DoIsStep DEF CallKinds
  <2> QED  BY <2>1, GoodTwo DEF Lates
<1>2. Good(<< Do("start", n), Do("startPath", n) >>, {"start", "startPath", "await"})
  BY <1>1, GoodMore
<1>3. Good(Wait(n), {"start", "startPath", "await"})
  BY WaitGood, GoodMore
<1> QED  BY <1>2, <1>3, GoodConcat DEF StartSteps

LEMMA StopStepsGood ==
  ASSUME NEW n \in Names
  PROVE  Good(StopSteps(n), {"stop", "stopPath", "await"})
<1>1. Good(<< Do("stop", n), Do("stopPath", n) >>, {"stop", "stopPath"})
  <2>1. /\ Do("stop", n) \in AnyStep /\ Do("stop", n).do = "stop"
        /\ Do("stopPath", n) \in AnyStep /\ Do("stopPath", n).do = "stopPath"
    BY DoIsStep DEF CallKinds
  <2> QED  BY <2>1, GoodTwo DEF Lates
<1>2. Good(<< Do("stop", n), Do("stopPath", n) >>, {"stop", "stopPath", "await"})
  BY <1>1, GoodMore
<1>3. Good(Wait(n), {"stop", "stopPath", "await"})
  BY WaitGood, GoodMore
<1> QED  BY <1>2, <1>3, GoodConcat DEF StopSteps

LEMMA RestartStepsGood ==
  ASSUME NEW n \in Names
  PROVE  Good(RestartSteps(n), {"restart", "await"})
<1>1. Good(<< Do("restart", n) >>, {"restart"})
  <2>1. Do("restart", n) \in AnyStep /\ Do("restart", n).do = "restart"
    BY DoIsStep DEF CallKinds
  <2> QED  BY <2>1, GoodOne DEF Lates
<1>2. Good(<< Do("restart", n) >>, {"restart", "await"})
  BY <1>1, GoodMore
<1>3. Good(Wait(n), {"restart", "await"})
  BY WaitGood, GoodMore
<1> QED  BY <1>2, <1>3, GoodConcat DEF RestartSteps

LEMMA EnableStepsGood ==
  ASSUME NEW n \in Names
  PROVE  Good(EnableSteps(n), {"enable", "saved"})
<1>1. /\ Do("enable", n) \in AnyStep /\ Do("enable", n).do = "enable"
      /\ Do("saved", n) \in AnyStep /\ Do("saved", n).do = "saved"
  BY DoIsStep DEF CallKinds
<1> QED  BY <1>1, GoodTwo DEF Lates, EnableSteps

\* The deletion of one app: .service before .env, .path before its companion.
LEMMA DeleteStepsGood ==
  ASSUME NEW n \in Deletable
  PROVE  Good(DeleteSteps(n), {"stop", "stopPath", "await", "disable"} \cup Unlinks)
<1> DEFINE kinds == {"stop", "stopPath", "await", "disable"} \cup Unlinks
<1>0. n \in Names
  BY RegistryAssumption DEF Deletable
<1>1. PICK q : q = << Do("disable", n), Do("unlinkService", n), Do("unlinkPath", n),
                      Do("unlinkHelper", n), Do("unlinkEnv", n) >>
  OBVIOUS
<1>2. /\ Do("disable", n) \in AnyStep /\ Do("unlinkService", n) \in AnyStep
      /\ Do("unlinkPath", n) \in AnyStep /\ Do("unlinkHelper", n) \in AnyStep
      /\ Do("unlinkEnv", n) \in AnyStep
  BY <1>0, DoIsStep, UnlinkIsStep DEF CallKinds, Unlinks
<1>3. q \in Seq(AnyStep) /\ Len(q) = 5
  BY <1>1, <1>2
<1>4. /\ q[1].do = "disable" /\ q[2].do = "unlinkService" /\ q[3].do = "unlinkPath"
      /\ q[4].do = "unlinkHelper" /\ q[5].do = "unlinkEnv"
      /\ \A i \in 1 .. 5 : q[i].name = n
  BY <1>1 DEF Do
<1>5. \A i \in 1 .. Len(q) : i \in {1, 2, 3, 4, 5}
  BY <1>3
<1>6. OfKinds(q, kinds)
  BY <1>3, <1>4, <1>5 DEF OfKinds, Unlinks
<1>7. Planned(q)
  <2>1. Prepared(q, EnvUnits, "env", {}) /\ Prepared(q, Of("path"), "openHelper", {})
    BY <1>4, <1>5 DEF Prepared, EnvUnits, Of
  <2>2. \A i \in 1 .. Len(q) : q[i] \in Of("unlinkEnv") => i = 5 /\ 2 \in 1 .. (i - 1)
    BY <1>4, <1>5 DEF Of
  <2>3. \A i \in 1 .. Len(q) : q[i] \in Of("unlinkHelper") => i = 4 /\ 3 \in 1 .. (i - 1)
    BY <1>4, <1>5 DEF Of
  <2>4. Prepared(q, Of("unlinkEnv"), "unlinkService", {})
    BY <1>4, <2>2 DEF Prepared
  <2>5. Prepared(q, Of("unlinkHelper"), "unlinkPath", {})
    BY <1>4, <2>3 DEF Prepared
  <2> QED  BY <2>1, <2>4, <2>5 DEF Planned
<1>8. Good(q, kinds)
  BY <1>3, <1>6, <1>7 DEF Good
<1>9. Good(StopSteps(n), kinds)
  BY <1>0, StopStepsGood, GoodMore
<1> QED  BY <1>1, <1>8, <1>9, GoodConcat DEF DeleteSteps

LEMMA PairIs ==
  ASSUME NEW s \in AnyStep, NEW t \in AnyStep
  PROVE  << s >> \o << t >> = << s, t >>
<1>1. PICK q, r, w : q = << s >> /\ r = << t >> /\ w = << s, t >>
  OBVIOUS
<1>2. /\ q \in Seq(AnyStep) /\ r \in Seq(AnyStep) /\ w \in Seq(AnyStep)
      /\ Len(q) = 1 /\ Len(r) = 1 /\ Len(w) = 2
      /\ q[1] = s /\ r[1] = t /\ w[1] = s /\ w[2] = t
  BY <1>1
<1>3. /\ q \o r \in Seq(AnyStep) /\ Len(q \o r) = Len(q) + Len(r)
      /\ \A i \in 1 .. Len(q) + Len(r) :
           (q \o r)[i] = IF i <= Len(q) THEN q[i] ELSE r[i - Len(q)]
  BY <1>2, ConcatProperties
<1>4. \A i \in 1 .. 2 : (q \o r)[i] = w[i]
  BY <1>2, <1>3
<1>5. q \o r = w
  BY <1>2, <1>3, <1>4, SeqEqual
<1> QED  BY <1>1, <1>5

LEMMA TripleIs ==
  ASSUME NEW s \in AnyStep, NEW u \in AnyStep, NEW t \in AnyStep
  PROVE  << s >> \o << u, t >> = << s, u, t >>
<1>1. PICK q, r, w : q = << s >> /\ r = << u, t >> /\ w = << s, u, t >>
  OBVIOUS
<1>2. /\ q \in Seq(AnyStep) /\ r \in Seq(AnyStep) /\ w \in Seq(AnyStep)
      /\ Len(q) = 1 /\ Len(r) = 2 /\ Len(w) = 3
      /\ q[1] = s /\ r[1] = u /\ r[2] = t /\ w[1] = s /\ w[2] = u /\ w[3] = t
  BY <1>1
<1>3. /\ q \o r \in Seq(AnyStep) /\ Len(q \o r) = Len(q) + Len(r)
      /\ \A i \in 1 .. Len(q) + Len(r) :
           (q \o r)[i] = IF i <= Len(q) THEN q[i] ELSE r[i - Len(q)]
  BY <1>2, ConcatProperties
<1>4. \A i \in 1 .. 3 : (q \o r)[i] = w[i]
  BY <1>2, <1>3
<1>5. q \o r = w
  BY <1>2, <1>3, <1>4, SeqEqual
<1> QED  BY <1>1, <1>5

LEMMA DeploymentType ==
  ASSUME NEW d \in Deployment
  PROVE  /\ d.name \in Apps /\ d.name \in Names /\ d.program \in Programs
         /\ d.env \in BOOLEAN /\ d.watched \in BOOLEAN
         /\ [program |-> d.program, env |-> d.env] \in Unit
BY RegistryAssumption DEF Deployment, Unit, Runnable

\* A .service that names an .env file is written after it.
LEMMA ServiceStepsGood ==
  ASSUME NEW d \in Deployment
  PROVE  Good(ServiceSteps(d), {"env", "openService", "service"})
<1> DEFINE kinds == {"env", "openService", "service"}
<1>1. PICK s, u, t : /\ s = Do("env", d.name) /\ u = Do("openService", d.name)
                     /\ t = Write(d.name, [program |-> d.program, env |-> d.env])
  OBVIOUS
<1>2. /\ s \in AnyStep /\ s.do = "env" /\ s.name = d.name
      /\ u \in AnyStep /\ u.do = "openService" /\ u.name = d.name
      /\ t \in AnyStep /\ t.do = "service" /\ t.name = d.name /\ t.unit.env = d.env
  <2>1. d.name \in Apps /\ "env" \in Writes \ {"service"} /\ "openService" \in Writes \ {"service"}
    BY DeploymentType DEF Writes
  <2>2. s \in AnyStep /\ s.do = "env" /\ s.name = d.name
    BY <1>1, <2>1, DoFileIsStep
  <2>3. u \in AnyStep /\ u.do = "openService" /\ u.name = d.name
    BY <1>1, <2>1, DoFileIsStep
  <2>4. t \in AnyStep /\ t.do = "service" /\ t.name = d.name /\ t.unit.env = d.env
    BY <1>1, DeploymentType, WriteIsStep
  <2> QED  BY <2>2, <2>3, <2>4
<1>3. CASE d.env
  <2>1. PICK q : q = << s, u, t >>
    OBVIOUS
  <2>2. q \in Seq(AnyStep) /\ Len(q) = 3 /\ q[1] = s /\ q[2] = u /\ q[3] = t
    BY <1>2, <2>1
  <2>3. \A i \in 1 .. Len(q) : i = 1 \/ i = 2 \/ i = 3
    BY <2>2
  <2>4. OfKinds(q, kinds)
    BY <1>2, <2>2, <2>3 DEF OfKinds
  <2>5. \A i \in 1 .. Len(q) : q[i] \in EnvUnits => i = 3 /\ 1 \in 1 .. (i - 1)
    BY <1>2, <2>2, <2>3 DEF EnvUnits
  <2>6. Prepared(q, EnvUnits, "env", {})
    BY <1>2, <2>2, <2>5 DEF Prepared
  <2>7. /\ Prepared(q, Of("unlinkEnv"), "unlinkService", {})
        /\ Prepared(q, Of("path"), "openHelper", {})
        /\ Prepared(q, Of("unlinkHelper"), "unlinkPath", {})
    BY <1>2, <2>2, <2>3 DEF Prepared, Of
  <2>8. Good(q, kinds)
    BY <2>2, <2>4, <2>6, <2>7 DEF Good, Planned
  <2>9. ServiceSteps(d) = << s >> \o << u, t >>
    BY <1>1, <1>3 DEF ServiceSteps, Optional
  <2> QED  BY <1>2, <2>1, <2>8, <2>9, TripleIs
<1>4. CASE ~d.env
  <2>1. PICK q : q = << u, t >>
    OBVIOUS
  <2>2. q \in Seq(AnyStep) /\ Len(q) = 2 /\ q[1] = u /\ q[2] = t
    BY <1>2, <2>1
  <2>3. \A i \in 1 .. Len(q) : i = 1 \/ i = 2
    BY <2>2
  <2>4. OfKinds(q, kinds)
    BY <1>2, <2>2, <2>3 DEF OfKinds
  <2>5. \A i \in 1 .. Len(q) : q[i].do \in {"openService", "service"} /\ q[i] \notin EnvUnits
    BY <1>2, <1>4, <2>2, <2>3 DEF EnvUnits
  <2>6. Planned(q)
    <3>1. Prepared(q, EnvUnits, "env", {})
      BY <2>5 DEF Prepared
    <3>2. \A i \in 1 .. Len(q) : q[i].do \notin {"unlinkEnv", "path", "unlinkHelper"}
      BY <2>5
    <3> QED  BY <3>1, <3>2 DEF Planned, Prepared, Of
  <2>7. ServiceSteps(d) = << >> \o q
    BY <1>1, <1>4, <2>1 DEF ServiceSteps, Optional
  <2>8. << >> \o q = q
    BY <2>2, ConcatEmptySeq
  <2> QED  BY <2>2, <2>4, <2>6, <2>7, <2>8 DEF Good
<1> QED  BY <1>3, <1>4, DeploymentType

\* The .path is written after the companion it starts.
LEMMA PathStepsGood ==
  ASSUME NEW d \in Deployment
  PROVE  Good(PathSteps(d), {"openHelper", "helper", "openPath", "path"})
<1> DEFINE kinds == {"openHelper", "helper", "openPath", "path"}
<1>0. d.name \in Apps /\ kinds \subseteq Writes \ {"service"}
  BY DeploymentType DEF Writes
<1>1. PICK q : q = << Do("openHelper", d.name), Do("helper", d.name),
                      Do("openPath", d.name), Do("path", d.name) >>
  OBVIOUS
<1>2. \A kind \in kinds : /\ Do(kind, d.name) \in AnyStep
                          /\ Do(kind, d.name).do = kind /\ Do(kind, d.name).name = d.name
  BY <1>0, DoFileIsStep
<1>3. q \in Seq(AnyStep) /\ Len(q) = 4
  BY <1>1, <1>2
<1>4. /\ q[1].do = "openHelper" /\ q[2].do = "helper" /\ q[3].do = "openPath" /\ q[4].do = "path"
      /\ \A i \in 1 .. 4 : q[i].name = d.name
  BY <1>1 DEF Do
<1>5. \A i \in 1 .. Len(q) : i \in {1, 2, 3, 4}
  BY <1>3
<1>6. OfKinds(q, kinds)
  BY <1>4, <1>5 DEF OfKinds
<1>7. \A i \in 1 .. Len(q) : q[i] \in Of("path") => i = 4 /\ 1 \in 1 .. (i - 1)
  BY <1>4, <1>5 DEF Of
<1>8. Prepared(q, Of("path"), "openHelper", {})
  BY <1>4, <1>7 DEF Prepared
<1>9. /\ Prepared(q, Of("unlinkEnv"), "unlinkService", {})
      /\ Prepared(q, EnvUnits, "env", {})
      /\ Prepared(q, Of("unlinkHelper"), "unlinkPath", {})
  BY <1>4, <1>5 DEF Prepared, Of, EnvUnits
<1>10. Good(q, kinds)
  BY <1>3, <1>6, <1>8, <1>9 DEF Good, Planned
<1> QED  BY <1>1, <1>10, GoodEmpty DEF PathSteps, Optional

\* What a command promises.
LEMMA OutcomeType ==
  ASSUME NEW running \in SUBSET Contents, NEW watched \in SUBSET BOOLEAN
  PROVE  Outcome(running, watched) \in Outcomes
BY DEF Outcome, Outcomes

LEMMA FinishGood ==
  ASSUME NEW n \in Names, NEW outcome \in Outcomes
  PROVE  Good(<< Finish(n, outcome) >>, {"finish"})
<1>1. Finish(n, outcome) \in AnyStep /\ Finish(n, outcome).do = "finish"
  BY FinishIsStep
<1> QED  BY <1>1, GoodOne DEF Lates

LEMMA DeployedGood ==
  ASSUME NEW d \in Deployment
  PROVE  Good(Deployed(d), {"finish"})
<1>1. PICK running, watched :
        /\ running = (IF Cold(d.name) THEN {d.program} ELSE Programs)
        /\ watched = (IF d.watched THEN {TRUE} ELSE BOOLEAN)
  OBVIOUS
<1>2. running \in SUBSET Contents /\ watched \in SUBSET BOOLEAN
  BY <1>1, DeploymentType DEF Contents, Runnable
<1>3. Outcome(running, watched) \in Outcomes
  BY <1>2, OutcomeType
<1>4. d.name \in Names
  BY DeploymentType
<1>5. Good(<< Finish(d.name, Outcome(running, watched)) >>, {"finish"})
  BY <1>3, <1>4, FinishGood
<1> QED  BY <1>1, <1>5 DEF Deployed

LEMMA EndedGood ==
  ASSUME NEW n \in Names, disk.service \in [Names -> Unit]
  PROVE  /\ Good(Started(n), {"finish"})
         /\ Good(Restarted(n), {"finish"})
         /\ Good(Ended(n), {"finish"})
<1>1. disk.service[n].program \in Contents
  BY DEF Unit, Empty, Contents
<1>2. /\ {disk.service[n].program} \in SUBSET Contents
      /\ Programs \in SUBSET Contents
      /\ Programs \cup {Off} \in SUBSET Contents
      /\ {Off} \in SUBSET Contents
      /\ BOOLEAN \in SUBSET BOOLEAN /\ {FALSE} \in SUBSET BOOLEAN
  BY <1>1 DEF Contents, Runnable
<1>3. Anything \in Outcomes /\ Stopped \in Outcomes
  BY <1>2, OutcomeType DEF Anything, Stopped
<1>4. Outcome(Programs, BOOLEAN) \in Outcomes
  BY <1>2, OutcomeType
<1>5. Outcome({disk.service[n].program}, BOOLEAN) \in Outcomes
  BY <1>2, OutcomeType
<1>6. Good(Started(n), {"finish"})
  BY <1>3, <1>4, FinishGood DEF Started
<1>7. Good(Restarted(n), {"finish"})
  BY <1>3, <1>5, FinishGood DEF Restarted
<1>8. Good(Ended(n), {"finish"})
  BY <1>3, FinishGood DEF Ended
<1> QED  BY <1>6, <1>7, <1>8

-----------------------------------------------------------------------------
(* Every command tells the manager of what it changed. *)

LEMMA ReloadedNone ==
  ASSUME NEW q, NEW kinds, OfKinds(q, kinds), kinds \cap Changes = {}
  PROVE  Reloaded(q)
<1>1. \A i \in 1 .. Len(q) : q[i].do \notin Changes
  BY DEF OfKinds
<1> QED  BY <1>1 DEF Reloaded

LEMMA ReloadedMade ==
  ASSUME NEW S, NEW blocks \in SUBSET Seq(S), NEW q \in Seq(S), MadeOf(q, blocks),
         \A blk \in blocks : Reloaded(blk)
  PROVE  Reloaded(q)
<1> SUFFICES ASSUME NEW i \in 1 .. Len(q), q[i].do \in Changes
             PROVE  \E j \in (i + 1) .. Len(q) : q[j].do = "reload"
  BY DEF Reloaded
<1>1. PICK blk \in blocks, off \in Nat : i - off \in 1 .. Len(blk) /\ BlockAt(q, off, blk)
  BY DEF MadeOf
<1>2. Len(blk) \in Nat /\ Len(q) \in Nat
  BY LenProperties
<1>3. PICK k : k = i - off
  OBVIOUS
<1>4. k \in 1 .. Len(blk) /\ i = off + k /\ blk[k] = q[i]
  BY <1>1, <1>2, <1>3 DEF BlockAt
<1>5. PICK j \in (k + 1) .. Len(blk) : blk[j].do = "reload"
  BY <1>4 DEF Reloaded
<1>6. j \in 1 .. Len(blk)
  BY <1>2, <1>4, <1>5
<1>7. q[off + j] = blk[j] /\ off + j \in 1 .. Len(q) /\ off + j \in (i + 1) .. Len(q)
  BY <1>1, <1>2, <1>4, <1>5, <1>6 DEF BlockAt
<1> QED  BY <1>5, <1>7

LEMMA ReloadedConcat ==
  ASSUME NEW q \in Seq(AnyStep), NEW r \in Seq(AnyStep), Reloaded(q), Reloaded(r)
  PROVE  Reloaded(q \o r)
<1>1. MadeOf(q, {q, r}) /\ MadeOf(r, {q, r})
  BY MadeOfItself
<1>2. q \o r \in Seq(AnyStep) /\ MadeOf(q \o r, {q, r})
  BY <1>1, ConcatMadeOf
<1>3. {q, r} \in SUBSET Seq(AnyStep) /\ \A blk \in {q, r} : Reloaded(blk)
  OBVIOUS
<1> QED  BY <1>2, <1>3, ReloadedMade

LEMMA ReloadedEnd ==
  ASSUME NEW q \in Seq(AnyStep), NEW n \in Names
  PROVE  Reloaded(q \o << Do("reload", n) >>)
<1>1. PICK r : r = << Do("reload", n) >>
  OBVIOUS
<1>2. Do("reload", n) \in AnyStep /\ Do("reload", n).do = "reload"
  BY DoIsStep DEF CallKinds
<1>3. r \in Seq(AnyStep) /\ Len(r) = 1 /\ r[1].do = "reload"
  BY <1>1, <1>2
<1>4. /\ Len(q) \in Nat /\ Len(q \o r) = Len(q) + Len(r)
      /\ \A i \in 1 .. Len(q) + Len(r) :
           (q \o r)[i] = IF i <= Len(q) THEN q[i] ELSE r[i - Len(q)]
  BY <1>3, ConcatProperties, LenProperties
<1>5. (q \o r)[Len(q) + 1].do = "reload" /\ Len(q \o r) = Len(q) + 1
  BY <1>3, <1>4
<1>6. \A i \in 1 .. Len(q \o r) : i = Len(q) + 1 \/ Len(q) + 1 \in (i + 1) .. Len(q \o r)
  BY <1>4, <1>5
<1>7. "reload" \notin Changes
  BY DEF Changes
<1>8. Reloaded(q \o r)
  BY <1>5, <1>6, <1>7 DEF Reloaded
<1> QED  BY <1>1, <1>8

LEMMA ReloadedFlatten ==
  ASSUME NEW seqs \in Seq(Seq(AnyStep)), \A i \in 1 .. Len(seqs) : Reloaded(seqs[i])
  PROVE  Reloaded(FlattenSeq(seqs))
<1>1. PICK blocks : blocks = {blk \in Seq(AnyStep) : Reloaded(blk)}
  OBVIOUS
<1>2. seqs \in Seq(blocks)
  <2>1. Len(seqs) \in Nat /\ seqs \in [1 .. Len(seqs) -> Seq(AnyStep)]
    BY LenProperties
  <2>2. \A i \in 1 .. Len(seqs) : seqs[i] \in blocks
    BY <1>1, <2>1
  <2>3. seqs \in [1 .. Len(seqs) -> blocks]
    BY <2>1, <2>2
  <2>4. Seq(blocks) = UNION {[1 .. n -> blocks] : n \in Nat}
    BY SeqDef
  <2> QED  BY <2>1, <2>3, <2>4
<1>3. FlattenSeq(seqs) \in Seq(AnyStep) /\ MadeOf(FlattenSeq(seqs), blocks)
  BY <1>1, <1>2, FlattenMadeOf
<1> QED  BY <1>1, <1>3, ReloadedMade

\* The steps fdash start takes for one app.
StartKinds == {"env", "openService", "service", "openHelper", "helper", "openPath", "path",
               "reload", "start", "startPath", "await", "finish"}

LEMMA DeployStepsGood ==
  ASSUME NEW d \in Deployment
  PROVE  Good(DeploySteps(d), StartKinds) /\ Reloaded(DeploySteps(d))
<1>0. d.name \in Names
  BY DeploymentType
<1>1. PICK files : files = ServiceSteps(d) \o PathSteps(d)
  OBVIOUS
<1>2. Good(files, StartKinds)
  <2>1. Good(ServiceSteps(d), StartKinds) /\ Good(PathSteps(d), StartKinds)
    BY ServiceStepsGood, PathStepsGood, GoodMore DEF StartKinds
  <2> QED  BY <1>1, <2>1, GoodConcat
<1>3. PICK told : told = files \o << Do("reload", d.name) >>
  OBVIOUS
<1>4. Good(told, StartKinds) /\ Reloaded(told)
  <2>1. Do("reload", d.name) \in AnyStep /\ Do("reload", d.name).do = "reload"
    BY <1>0, DoIsStep DEF CallKinds
  <2>2. Good(<< Do("reload", d.name) >>, {"reload"})
    BY <2>1, GoodOne DEF Lates
  <2>3. Good(<< Do("reload", d.name) >>, StartKinds)
    BY <2>2, GoodMore DEF StartKinds
  <2>4. files \in Seq(AnyStep)
    BY <1>2 DEF Good
  <2> QED  BY <1>0, <1>2, <1>3, <2>3, <2>4, GoodConcat, ReloadedEnd
<1>5. PICK started : started = told \o StartSteps(d.name)
  OBVIOUS
<1>6. Good(started, StartKinds) /\ Reloaded(started)
  <2>1. Good(StartSteps(d.name), {"start", "startPath", "await"})
    BY <1>0, StartStepsGood
  <2>2. Good(StartSteps(d.name), StartKinds)
    BY <2>1, GoodMore DEF StartKinds
  <2>3. Reloaded(StartSteps(d.name))
    BY <2>1, ReloadedNone DEF Good, Changes
  <2>4. Good(started, StartKinds)
    BY <1>4, <1>5, <2>2, GoodConcat
  <2> QED  BY <1>4, <1>5, <2>2, <2>3, <2>4, ReloadedConcat DEF Good
<1>7. Good(Deployed(d), StartKinds) /\ Reloaded(Deployed(d))
  <2>1. Good(Deployed(d), {"finish"})
    BY DeployedGood
  <2>2. Good(Deployed(d), StartKinds)
    BY <2>1, GoodMore DEF StartKinds
  <2> QED  BY <2>1, <2>2, ReloadedNone DEF Good, Changes
<1>8. DeploySteps(d) = started \o Deployed(d)
  BY <1>1, <1>3, <1>5 DEF DeploySteps
<1>9. Good(started \o Deployed(d), StartKinds)
  BY <1>6, <1>7, GoodConcat
<1>10. Reloaded(started \o Deployed(d))
  BY <1>6, <1>7, ReloadedConcat DEF Good
<1> QED  BY <1>8, <1>9, <1>10

\* A list of apps, or of all that is listed.
LEMMA TargetType ==
  /\ \A ns \in SetToSeqs(Listed) : ns \in Seq(Names)
  /\ \A ns \in Targets : ns \in Seq(Deletable) /\ ns \in Seq(Names)
<1>1. Deletable \subseteq Names
  BY RegistryAssumption DEF Deletable
<1>2. Listed \subseteq Names /\ Cardinality(Listed) \in Nat
  BY RegistryAssumption, FS_Subset, FS_CardinalityType DEF Listed
<1>3. ASSUME NEW ns \in SetToSeqs(Listed)
      PROVE  ns \in Seq(Names)
  <2>1. ns \in [1 .. Cardinality(Listed) -> Listed]
    BY DEF SetToSeqs
  <2>2. ns \in [1 .. Cardinality(Listed) -> Names]
    BY <1>2, <2>1
  <2>3. Seq(Names) = UNION {[1 .. n -> Names] : n \in Nat}
    BY SeqDef
  <2> QED  BY <1>2, <2>2, <2>3
<1>4. ASSUME NEW ns \in Targets
      PROVE  ns \in Seq(Deletable)
  <2>1. CASE \E a \in Apps : ns = << a >>
    <3>1. PICK a \in Apps : ns = << a >>
      BY <2>1
    <3>2. a \in Deletable
      BY RegistryAssumption DEF Deletable
    <3> QED  BY <3>1, <3>2
  <2>2. CASE Everything /\ ns \in SetToSeqs(Listed)
    BY <2>2, <1>3 DEF Deletable
  <2> QED  BY <2>1, <2>2, <1>4 DEF Targets
<1>5. \A ns \in Seq(Deletable) : ns \in Seq(Names)
  BY <1>1, SeqMonotonic
<1> QED  BY <1>3, <1>4, <1>5

\* The blocks of ForEach.
LEMMA EachGood ==
  ASSUME NEW N, NEW ns \in Seq(N), NEW kinds, NEW seqs,
         seqs = [i \in DOMAIN ns |-> seqs[i]],
         \A i \in 1 .. Len(ns) : Good(seqs[i], kinds)
  PROVE  /\ Good(FlattenSeq(seqs), kinds)
         /\ (\A i \in 1 .. Len(ns) : Reloaded(seqs[i])) => Reloaded(FlattenSeq(seqs))
<1>1. Len(ns) \in Nat /\ DOMAIN ns = 1 .. Len(ns)
  BY LenProperties
<1>2. \A i \in 1 .. Len(ns) : seqs[i] \in Seq(AnyStep)
  BY DEF Good
<1>3. seqs \in [1 .. Len(ns) -> Seq(AnyStep)]
  BY <1>1, <1>2
<1>4. seqs \in Seq(Seq(AnyStep)) /\ Len(seqs) = Len(ns)
  <2>1. Seq(Seq(AnyStep)) = UNION {[1 .. n -> Seq(AnyStep)] : n \in Nat}
    BY SeqDef
  <2>2. seqs \in Seq(Seq(AnyStep))
    BY <1>1, <1>3, <2>1
  <2>3. DOMAIN seqs = 1 .. Len(ns) /\ DOMAIN seqs = 1 .. Len(seqs) /\ Len(seqs) \in Nat
    BY <1>3, <2>2, LenProperties
  <2> QED  BY <1>1, <2>2, <2>3
<1> QED  BY <1>4, GoodFlatten, ReloadedFlatten

LEMMA DeployEach ==
  ASSUME NEW config \in Configs
  PROVE  /\ Good(ForEach(config, DeploySteps), StartKinds)
         /\ Reloaded(ForEach(config, DeploySteps))
<1>1. config \in Seq(Deployment)
  BY RegistryAssumption
<1>2. PICK seqs : seqs = [i \in DOMAIN config |-> DeploySteps(config[i])]
  OBVIOUS
<1>3. DOMAIN config = 1 .. Len(config)
  BY <1>1, LenProperties
<1>4. \A i \in 1 .. Len(config) : Good(seqs[i], StartKinds) /\ Reloaded(seqs[i])
  BY <1>1, <1>2, <1>3, ElementOfSeq, DeployStepsGood
<1>5. seqs = [i \in DOMAIN config |-> seqs[i]]
  BY <1>2
<1>6. Good(FlattenSeq(seqs), StartKinds) /\ Reloaded(FlattenSeq(seqs))
  BY <1>1, <1>4, <1>5, EachGood
<1> QED  BY <1>2, <1>6 DEF ForEach

LEMMA StartEach ==
  ASSUME NEW ns \in Seq(Names)
  PROVE  Good(ForEach(ns, StartSteps), {"start", "startPath", "await"})
<1>2. PICK seqs : seqs = [i \in DOMAIN ns |-> StartSteps(ns[i])]
  OBVIOUS
<1>3. DOMAIN ns = 1 .. Len(ns)
  BY LenProperties
<1>4. \A i \in 1 .. Len(ns) : Good(seqs[i], {"start", "startPath", "await"})
  BY <1>2, <1>3, ElementOfSeq, StartStepsGood
<1>5. seqs = [i \in DOMAIN ns |-> seqs[i]]
  BY <1>2
<1>6. Good(FlattenSeq(seqs), {"start", "startPath", "await"})
  BY <1>4, <1>5, EachGood
<1> QED  BY <1>2, <1>6 DEF ForEach

LEMMA StopEach ==
  ASSUME NEW ns \in Seq(Names)
  PROVE  Good(ForEach(ns, StopSteps), {"stop", "stopPath", "await"})
<1>2. PICK seqs : seqs = [i \in DOMAIN ns |-> StopSteps(ns[i])]
  OBVIOUS
<1>3. DOMAIN ns = 1 .. Len(ns)
  BY LenProperties
<1>4. \A i \in 1 .. Len(ns) : Good(seqs[i], {"stop", "stopPath", "await"})
  BY <1>2, <1>3, ElementOfSeq, StopStepsGood
<1>5. seqs = [i \in DOMAIN ns |-> seqs[i]]
  BY <1>2
<1>6. Good(FlattenSeq(seqs), {"stop", "stopPath", "await"})
  BY <1>4, <1>5, EachGood
<1> QED  BY <1>2, <1>6 DEF ForEach

LEMMA RestartEach ==
  ASSUME NEW ns \in Seq(Names)
  PROVE  Good(ForEach(ns, RestartSteps), {"restart", "await"})
<1>2. PICK seqs : seqs = [i \in DOMAIN ns |-> RestartSteps(ns[i])]
  OBVIOUS
<1>3. DOMAIN ns = 1 .. Len(ns)
  BY LenProperties
<1>4. \A i \in 1 .. Len(ns) : Good(seqs[i], {"restart", "await"})
  BY <1>2, <1>3, ElementOfSeq, RestartStepsGood
<1>5. seqs = [i \in DOMAIN ns |-> seqs[i]]
  BY <1>2
<1>6. Good(FlattenSeq(seqs), {"restart", "await"})
  BY <1>4, <1>5, EachGood
<1> QED  BY <1>2, <1>6 DEF ForEach

LEMMA EnableEach ==
  ASSUME NEW ns \in Seq(Names)
  PROVE  Good(ForEach(ns, EnableSteps), {"enable", "saved"})
<1>2. PICK seqs : seqs = [i \in DOMAIN ns |-> EnableSteps(ns[i])]
  OBVIOUS
<1>3. DOMAIN ns = 1 .. Len(ns)
  BY LenProperties
<1>4. \A i \in 1 .. Len(ns) : Good(seqs[i], {"enable", "saved"})
  BY <1>2, <1>3, ElementOfSeq, EnableStepsGood
<1>5. seqs = [i \in DOMAIN ns |-> seqs[i]]
  BY <1>2
<1>6. Good(FlattenSeq(seqs), {"enable", "saved"})
  BY <1>4, <1>5, EachGood
<1> QED  BY <1>2, <1>6 DEF ForEach

DeleteKinds == {"stop", "stopPath", "await", "disable", "reload", "finish"} \cup Unlinks

LEMMA DeleteEach ==
  ASSUME NEW ns \in Seq(Deletable)
  PROVE  Good(ForEach(ns, DeleteSteps), DeleteKinds)
<1>2. PICK seqs : seqs = [i \in DOMAIN ns |-> DeleteSteps(ns[i])]
  OBVIOUS
<1>3. DOMAIN ns = 1 .. Len(ns)
  BY LenProperties
<1>4. \A i \in 1 .. Len(ns) :
        Good(seqs[i], {"stop", "stopPath", "await", "disable"} \cup Unlinks)
  BY <1>2, <1>3, ElementOfSeq, DeleteStepsGood
<1>5. \A i \in 1 .. Len(ns) : Good(seqs[i], DeleteKinds)
  BY <1>4, GoodMore DEF DeleteKinds
<1>6. seqs = [i \in DOMAIN ns |-> seqs[i]]
  BY <1>2
<1>7. Good(FlattenSeq(seqs), DeleteKinds)
  BY <1>5, <1>6, EachGood
<1> QED  BY <1>2, <1>7 DEF ForEach

LEMMA EndEach ==
  ASSUME NEW ns \in Seq(Names), disk.service \in [Names -> Unit]
  PROVE  /\ Good(ForEach(ns, Started), {"finish"})
         /\ Good(ForEach(ns, Restarted), {"finish"})
         /\ Good(ForEach(ns, Ended), {"finish"})
<1>1. PICK up, again, end :
        /\ up = [i \in DOMAIN ns |-> Started(ns[i])]
        /\ again = [i \in DOMAIN ns |-> Restarted(ns[i])]
        /\ end = [i \in DOMAIN ns |-> Ended(ns[i])]
  OBVIOUS
<1>2. DOMAIN ns = 1 .. Len(ns)
  BY LenProperties
<1>3. \A i \in 1 .. Len(ns) : ns[i] \in Names
  BY ElementOfSeq
<1>4. \A i \in 1 .. Len(ns) : /\ Good(up[i], {"finish"})
                              /\ Good(again[i], {"finish"})
                              /\ Good(end[i], {"finish"})
  BY <1>1, <1>2, <1>3, EndedGood
<1>5. /\ up = [i \in DOMAIN ns |-> up[i]]
      /\ again = [i \in DOMAIN ns |-> again[i]]
      /\ end = [i \in DOMAIN ns |-> end[i]]
  BY <1>1
<1>6. /\ Good(FlattenSeq(up), {"finish"})
      /\ Good(FlattenSeq(again), {"finish"})
      /\ Good(FlattenSeq(end), {"finish"})
  BY <1>4, <1>5, EachGood
<1> QED  BY <1>1, <1>6 DEF ForEach

\* A command writes or unlinks.
OneWay(q) == \/ \A i \in 1 .. Len(q) : q[i].do \notin Unlinks
             \/ \A i \in 1 .. Len(q) : q[i].do \notin Writes

LEMMA GoodOneWay ==
  ASSUME NEW q, NEW kinds, Good(q, kinds), kinds \cap Unlinks = {} \/ kinds \cap Writes = {}
  PROVE  OneWay(q)
BY DEF Good, OfKinds, OneWay

\* The steps of a new command, whatever it is.
NewCommand(q) ==
  q \in Seq(AnyStep) /\ Planned(q) /\ OneWay(q) /\ Reloaded(q)

\* A command that changes no file.
LEMMA PlainCommand ==
  ASSUME NEW q, NEW kinds, Good(q, kinds), kinds \subseteq CallKinds \cup {"finish"}
  PROVE  NewCommand(q)
<1>1. kinds \cap Unlinks = {} /\ kinds \cap Changes = {}
  BY DEF CallKinds, Unlinks, Changes
<1> QED  BY <1>1, GoodOneWay, ReloadedNone DEF Good, NewCommand

LEMMA DeleteIsCommand ==
  ASSUME NEW ns \in Seq(Deletable), ns # << >>, disk.service \in [Names -> Unit]
  PROVE  NewCommand(DeleteCommand(ns))
<1>0. ns \in Seq(Names) /\ Head(ns) \in Names
  BY SeqMonotonic, HeadTailProperties, RegistryAssumption DEF Deletable
<1>1. PICK gone, reload, end, told :
        /\ gone = ForEach(ns, DeleteSteps)
        /\ reload = << Do("reload", Head(ns)) >>
        /\ end = ForEach(ns, Ended)
        /\ told = gone \o reload
  OBVIOUS
<1>2. Good(gone, DeleteKinds)
  BY <1>1, DeleteEach
<1>3. Good(reload, DeleteKinds)
  <2>1. Do("reload", Head(ns)) \in AnyStep /\ Do("reload", Head(ns)).do = "reload"
    BY <1>0, DoIsStep DEF CallKinds
  <2>2. Good(reload, {"reload"})
    BY <1>1, <2>1, GoodOne DEF Lates
  <2> QED  BY <2>2, GoodMore DEF DeleteKinds
<1>4. Good(told, DeleteKinds) /\ Reloaded(told)
  BY <1>0, <1>1, <1>2, <1>3, GoodConcat, ReloadedEnd DEF Good
<1>5. Good(end, {"finish"})
  BY <1>0, <1>1, EndEach
<1>6. Good(end, DeleteKinds) /\ Reloaded(end)
  BY <1>5, GoodMore, ReloadedNone DEF Good, DeleteKinds, Changes
<1>7. Good(told \o end, DeleteKinds)
  BY <1>4, <1>6, GoodConcat
<1>8. Reloaded(told \o end)
  BY <1>4, <1>6, ReloadedConcat DEF Good
<1>9. OneWay(told \o end)
  BY <1>7, GoodOneWay DEF DeleteKinds, Writes, Unlinks
<1>10. DeleteCommand(ns) = told \o end
  BY <1>1 DEF DeleteCommand
<1> QED  BY <1>7, <1>8, <1>9, <1>10 DEF NewCommand, Good

LEMMA CommandGood ==
  ASSUME disk.service \in [Names -> Unit], NEW command \in Commands,
         NEW steps \in StepsOf(command)
  PROVE  NewCommand(steps)
<1>0. command \in {"start", "up", "stop", "restart", "delete", "save"}
  BY RegistryAssumption
<1>1. CASE command = "start"
  <2>1. PICK config \in Configs : steps = ForEach(config, DeploySteps)
    BY <1>1 DEF StepsOf
  <2>2. Good(steps, StartKinds) /\ Reloaded(steps)
    BY <2>1, DeployEach
  <2>3. OneWay(steps)
    BY <2>2, GoodOneWay DEF StartKinds, Unlinks
  <2> QED  BY <2>2, <2>3 DEF NewCommand, Good
<1>2. CASE command = "up"
  <2>1. PICK ns \in Targets : steps = ForEach(ns, StartSteps) \o ForEach(ns, Started)
    BY <1>2 DEF StepsOf
  <2>2. ns \in Seq(Names)
    BY TargetType
  <2>3. /\ Good(ForEach(ns, StartSteps), {"start", "startPath", "await"})
        /\ Good(ForEach(ns, Started), {"finish"})
    BY <2>2, StartEach, EndEach
  <2>4. Good(steps, CallKinds \cup {"finish"})
    BY <2>1, <2>3, GoodMore, GoodConcat DEF CallKinds
  <2> QED  BY <2>4, PlainCommand
<1>3. CASE command = "stop"
  <2>1. PICK ns \in Targets : steps = ForEach(ns, StopSteps) \o ForEach(ns, Ended)
    BY <1>3 DEF StepsOf
  <2>2. ns \in Seq(Names)
    BY TargetType
  <2>3. /\ Good(ForEach(ns, StopSteps), {"stop", "stopPath", "await"})
        /\ Good(ForEach(ns, Ended), {"finish"})
    BY <2>2, StopEach, EndEach
  <2>4. Good(steps, CallKinds \cup {"finish"})
    BY <2>1, <2>3, GoodMore, GoodConcat DEF CallKinds
  <2> QED  BY <2>4, PlainCommand
<1>4. CASE command = "restart"
  <2>1. PICK ns \in Targets : steps = ForEach(ns, RestartSteps) \o ForEach(ns, Restarted)
    BY <1>4 DEF StepsOf
  <2>2. ns \in Seq(Names)
    BY TargetType
  <2>3. /\ Good(ForEach(ns, RestartSteps), {"restart", "await"})
        /\ Good(ForEach(ns, Restarted), {"finish"})
    BY <2>2, RestartEach, EndEach
  <2>4. Good(steps, CallKinds \cup {"finish"})
    BY <2>1, <2>3, GoodMore, GoodConcat DEF CallKinds
  <2> QED  BY <2>4, PlainCommand
<1>5. CASE command = "delete"
  <2>1. PICK ns \in Targets \ {<< >>} : steps = DeleteCommand(ns)
    BY <1>5 DEF StepsOf
  <2>2. ns \in Seq(Deletable) /\ ns # << >>
    BY TargetType
  <2> QED  BY <2>1, <2>2, DeleteIsCommand
<1>6. CASE command = "save"
  <2>1. PICK ns \in SetToSeqs(Listed) : steps = ForEach(ns, EnableSteps)
    BY <1>6 DEF StepsOf
  <2>2. ns \in Seq(Names)
    BY TargetType
  <2>3. Good(steps, {"enable", "saved"})
    BY <2>1, <2>2, EnableEach
  <2> QED  BY <2>3, PlainCommand DEF CallKinds
<1> QED  BY <1>0, <1>1, <1>2, <1>3, <1>4, <1>5, <1>6

-----------------------------------------------------------------------------
(* What a step of a client does to the lists. *)

TodoType == todo \in [Clients -> Seq(AnyStep)]

\* Clients at work are about different apps.
Separate == \A c, x \in Clients : c # x => Mentions(todo[c]) \cap Mentions(todo[x]) = {}

\* Client c takes a step, or gives it up and drops those of D.
Moved(c, kind, n, D) ==
  /\ todo[c] # << >>
  /\ Head(todo[c]).do = kind
  /\ Head(todo[c]).name = n
  /\ \E r \in Seq(AnyStep) : Leaves(r, todo[c], D) /\ todo' = [todo EXCEPT ![c] = r]

\* What is dropped: promises and what is written last, or everything about an app.
Lasts == {"finish", "saved", "helper", "openPath", "path"}
Droppable(c, n, D) ==
  \/ \A s \in D : s.do \in Lasts
  \/ D = {s \in ToSet(Tail(todo[c])) : s.name = n}

LEMMA HeadIs ==
  ASSUME TodoType, NEW c \in Clients, todo[c] # << >>
  PROVE  /\ todo[c] \in Seq(AnyStep) /\ Len(todo[c]) \in Nat /\ 1 \in 1 .. Len(todo[c])
         /\ Head(todo[c]) = todo[c][1] /\ Head(todo[c]) \in AnyStep
BY HeadTailProperties, LenProperties, EmptySeq DEF TodoType

LEMMA MentionsIs ==
  ASSUME NEW q \in Seq(AnyStep)
  PROVE  /\ \A i \in 1 .. Len(q) : q[i].name \in Mentions(q)
         /\ \A n \in Mentions(q) : \E i \in 1 .. Len(q) : n = q[i].name
BY LenProperties DEF Mentions

\* What is left was there.
LEMMA LeftWasThere ==
  ASSUME NEW q \in Seq(AnyStep), q # << >>, NEW r \in Seq(AnyStep), NEW D, Leaves(r, q, D)
  PROVE  \A i \in 1 .. Len(r) : \E k \in 1 .. Len(q) : r[i] = q[k]
<1> TAKE i \in 1 .. Len(r)
<1>1. PICK k \in 2 .. Len(q) : r[i] = q[k]
  BY LeavesPlaces
<1>2. k \in 1 .. Len(q)
  BY <1>1, LenProperties
<1> QED  BY <1>1, <1>2

LEMMA MovedFacts ==
  ASSUME TodoType, Separate, NEW c \in Clients, NEW kind, NEW n, NEW D, Moved(c, kind, n, D)
  PROVE  /\ TodoType'
         /\ Separate'
         /\ \A x \in Clients : OneWay(todo[x]) => OneWay(todo'[x])
         /\ \A x \in Clients \ {c} : todo'[x] = todo[x] /\ n \notin Mentions(todo[x])
<1>1. PICK r \in Seq(AnyStep) : Leaves(r, todo[c], D) /\ todo' = [todo EXCEPT ![c] = r]
  BY DEF Moved
<1>2. /\ \A x \in Clients : todo[x] \in Seq(AnyStep)
      /\ todo'[c] = r /\ \A x \in Clients \ {c} : todo'[x] = todo[x]
  BY <1>1 DEF TodoType
<1>3. TodoType'
  BY <1>1 DEF TodoType
<1>4. \A i \in 1 .. Len(r) : \E k \in 1 .. Len(todo[c]) : r[i] = todo[c][k]
  BY <1>1, <1>2, LeftWasThere DEF Moved
<1>5. Mentions(r) \subseteq Mentions(todo[c])
  BY <1>2, <1>4, MentionsIs
<1>6. Separate'
  <2> SUFFICES ASSUME NEW x \in Clients, NEW y \in Clients, x # y
               PROVE  Mentions(todo'[x]) \cap Mentions(todo'[y]) = {}
    BY DEF Separate
  <2>1. \A z \in Clients : Mentions(todo'[z]) \subseteq Mentions(todo[z])
    BY <1>2, <1>5
  <2> QED  BY <2>1 DEF Separate
<1>7. \A x \in Clients : OneWay(todo[x]) => OneWay(todo'[x])
  <2>1. OneWay(todo[c]) => OneWay(r)
    BY <1>4 DEF OneWay
  <2> QED  BY <1>2, <2>1
<1>8. n \in Mentions(todo[c])
  BY HeadIs, MentionsIs DEF Moved
<1>9. \A x \in Clients \ {c} : n \notin Mentions(todo[x])
  BY <1>8 DEF Separate
<1> QED  BY <1>2, <1>3, <1>6, <1>7, <1>9

\* Only n may no longer be done.
Passes(done, later, n) == \A m \in done : m # n => m \in later

\* What was prepared stays prepared when a step is taken: a late step of the
\* same name that is left finds its need fulfilled.
LEMMA MovedPrepared ==
  ASSUME TodoType, Separate, NEW c \in Clients, NEW kind, NEW n, NEW D, Moved(c, kind, n, D),
         Droppable(c, n, D), NEW late, NEW early,
         early \notin Lasts, NEW done, NEW later,
         \A x \in Clients : Prepared(todo[x], late, early, done),
         Passes(done, later, n),
         \A i \in 1 .. Len(todo'[c]) :
           /\ todo'[c][i] \in late
           /\ todo'[c][i].name = n
           /\ n \in done \/ kind = early
           => n \in later
  PROVE  \A x \in Clients : Prepared(todo'[x], late, early, later)
<1>1. PICK r \in Seq(AnyStep) : Leaves(r, todo[c], D) /\ todo' = [todo EXCEPT ![c] = r]
  BY DEF Moved
<1>2. /\ \A x \in Clients : todo[x] \in Seq(AnyStep)
      /\ todo'[c] = r /\ \A x \in Clients \ {c} : todo'[x] = todo[x]
  BY <1>1 DEF TodoType
<1>3. ASSUME NEW x \in Clients \ {c}
      PROVE  Prepared(todo'[x], late, early, later)
  <2>1. \A i \in 1 .. Len(todo[x]) : todo[x][i].name # n
    BY <1>2, MovedFacts, MentionsIs
  <2>2. Prepared(todo[x], late, early, done)
    OBVIOUS
  <2>3. Prepared(todo[x], late, early, later)
    BY <2>1, <2>2 DEF Prepared, Passes
  <2> QED  BY <1>2, <2>3
<1>4. PICK q : q = todo[c]
  OBVIOUS
<1>5. /\ q \in Seq(AnyStep) /\ q # << >> /\ Len(q) \in Nat /\ Head(q) = q[1]
      /\ q[1].do = kind /\ q[1].name = n
      /\ Prepared(q, late, early, done) /\ Leaves(r, q, D)
  BY <1>1, <1>4, HeadIs DEF Moved
<1>6. ASSUME NEW i \in 2 .. Len(q), NEW j \in 2 .. Len(q), q[i] \in D, q[i].do = early,
             q[j].name = q[i].name
      PROVE  q[j] \in D
  <2>1. D = {s \in ToSet(Tail(q)) : s.name = n}
    BY <1>4, <1>6 DEF Droppable
  <2>2. j - 1 \in 1 .. Len(Tail(q)) /\ Tail(q)[j - 1] = q[j]
    BY <1>5, HeadTailProperties
  <2>3. DOMAIN Tail(q) = 1 .. Len(Tail(q))
    BY <1>5, HeadTailProperties, LenProperties
  <2>4. q[j] \in ToSet(Tail(q))
    BY <2>2, <2>3 DEF ToSet
  <2> QED  BY <2>1, <2>4, <1>6
<1>7. ASSUME NEW i \in 1 .. Len(r), r[i] \in late
      PROVE  \/ r[i].name \in later
             \/ \E j \in 1 .. (i - 1) : r[j].do = early /\ r[j].name = r[i].name
  <2>1. PICK k \in 2 .. Len(q) :
          /\ r[i] = q[k] /\ r[i] \notin D
          /\ \A j \in 2 .. (k - 1) : q[j] \in D \/ \E l \in 1 .. (i - 1) : r[l] = q[j]
    BY <1>5, LeavesPlaces
  <2>2. k \in 1 .. Len(q)
    BY <2>1
  <2>3. CASE q[k].name \in done
    BY <2>1, <2>3, <1>2, <1>7 DEF Passes
  <2>4. CASE \E j \in 1 .. (k - 1) : q[j].do = early /\ q[j].name = q[k].name
    <3>1. PICK j \in 1 .. (k - 1) : q[j].do = early /\ q[j].name = q[k].name
      BY <2>4
    <3>2. CASE j = 1
      BY <3>1, <3>2, <2>1, <1>2, <1>5, <1>7 DEF Passes
    <3>3. CASE j # 1
      <4>1. j \in 2 .. (k - 1) /\ j \in 2 .. Len(q)
        BY <3>1, <3>3, <2>1, <1>5
      <4>2. q[j] \notin D
        BY <4>1, <3>1, <2>1, <1>6
      <4> QED  BY <4>1, <4>2, <3>1, <2>1
    <3> QED  BY <3>2, <3>3
  <2>5. \/ q[k].name \in done
        \/ \E j \in 1 .. (k - 1) : q[j].do = early /\ q[j].name = q[k].name
    BY <2>1, <2>2, <1>5, <1>7 DEF Prepared
  <2> QED  BY <2>3, <2>4, <2>5
<1>8. Prepared(r, late, early, later)
  BY <1>7 DEF Prepared
<1> QED  BY <1>2, <1>3, <1>8

LEMMA DoingTail ==
  ASSUME TodoType, NEW c \in Clients, NEW kind, NEW n, Doing(c, kind, n, Tail(todo[c]))
  PROVE  Moved(c, kind, n, {}) /\ Droppable(c, n, {})
<1>1. todo[c] \in Seq(AnyStep) /\ todo[c] # << >>
  BY DEF TodoType, Doing
<1>2. Tail(todo[c]) \in Seq(AnyStep) /\ Leaves(Tail(todo[c]), todo[c], {})
  BY <1>1, LeavesTail
<1> QED  BY <1>2 DEF Doing, Moved, Droppable

LEMMA DoingDrops ==
  ASSUME TodoType, NEW c \in Clients, NEW kind, NEW n, NEW D,
         Doing(c, kind, n, Without(Tail(todo[c]), D))
  PROVE  Moved(c, kind, n, D)
<1>1. todo[c] \in Seq(AnyStep) /\ todo[c] # << >>
  BY DEF TodoType, Doing
<1>2. /\ Without(Tail(todo[c]), D) \in Seq(AnyStep)
      /\ Leaves(Without(Tail(todo[c]), D), todo[c], D)
  BY <1>1, LeavesWithout
<1> QED  BY <1>2 DEF Doing, Moved

\* A step that fails, or is refused, drops promises only.
LEMMA DoingNoPromise ==
  ASSUME TodoType, NEW c \in Clients, NEW kind, NEW n,
         Doing(c, kind, n, NoPromise(Tail(todo[c]), n))
  PROVE  \E D : /\ Moved(c, kind, n, D) /\ Droppable(c, n, D)
                /\ \A s \in D : s.do \in {"finish", "saved"}
<1>1. PICK D : D = StepsOn(Tail(todo[c]), n, {"finish", "saved"})
  OBVIOUS
<1>2. Moved(c, kind, n, D)
  BY <1>1, DoingDrops DEF NoPromise
<1>3. \A s \in D : s.do \in {"finish", "saved"}
  BY <1>1 DEF StepsOn
<1> QED  BY <1>2, <1>3 DEF Droppable, Lasts

\* A call changes no file.
LEMMA CallMoves ==
  ASSUME TodoType, NEW c \in Clients, NEW n, CallStep(c, n)
  PROVE  /\ disk' = disk
         /\ \E kind, D : /\ kind \notin Writes \cup Unlinks
                         /\ Moved(c, kind, n, D) /\ Droppable(c, n, D)
                         /\ \A s \in D : s.do \in {"finish", "saved"}
<1>1. ASSUME NEW kind, kind \notin Writes \cup Unlinks, Step(c, kind, n), disk' = disk
      PROVE  /\ disk' = disk
             /\ \E k, D : /\ k \notin Writes \cup Unlinks
                          /\ Moved(c, k, n, D) /\ Droppable(c, n, D)
                          /\ \A s \in D : s.do \in {"finish", "saved"}
  BY <1>1, DoingTail DEF Step
<1>2. ASSUME NEW kind, kind \notin Writes \cup Unlinks,
             Doing(c, kind, n, NoPromise(Tail(todo[c]), n)), disk' = disk
      PROVE  /\ disk' = disk
             /\ \E k, D : /\ k \notin Writes \cup Unlinks
                          /\ Moved(c, k, n, D) /\ Droppable(c, n, D)
                          /\ \A s \in D : s.do \in {"finish", "saved"}
  BY <1>2, DoingNoPromise
<1>3. {"reload", "start", "startPath", "stop", "stopPath", "await", "restart", "enable",
       "disable", "finish", "saved"} \cap (Writes \cup Unlinks) = {}
  BY DEF Writes, Unlinks
<1>4. CASE Reload(c, n)
  BY <1>1, <1>3, <1>4 DEF Reload, Calls
<1>5. CASE Start(c, n)
  BY <1>1, <1>3, <1>5 DEF Start, Calls
<1>6. CASE StartPath(c, n)
  BY <1>1, <1>3, <1>6 DEF StartPath, Calls
<1>7. CASE Stop(c, n)
  BY <1>1, <1>3, <1>7 DEF Stop, Calls
<1>8. CASE StopPath(c, n)
  BY <1>1, <1>3, <1>8 DEF StopPath, Calls
<1>9. CASE Await(c, n)
  BY <1>1, <1>3, <1>9 DEF Await, Calls
<1>10. CASE Restart(c, n)
  BY <1>1, <1>3, <1>10 DEF Restart, Calls
<1>11. CASE Enable(c, n)
  BY <1>1, <1>3, <1>11 DEF Enable, Calls
<1>12. CASE Disable(c, n)
  BY <1>1, <1>3, <1>12 DEF Disable, Calls
<1>13. CASE Refused(c, n)
  BY <1>2, <1>3, <1>13 DEF Refused
<1>14. CASE CallFails(c, n)
  BY <1>2, <1>3, <1>14 DEF CallFails
<1>15. CASE End(c, n)
  BY <1>1, <1>3, <1>15 DEF End
<1>16. CASE Saved(c, n)
  BY <1>1, <1>3, <1>16 DEF Saved
<1> QED  BY <1>4, <1>5, <1>6, <1>7, <1>8, <1>9, <1>10, <1>11, <1>12, <1>13, <1>14,
            <1>15, <1>16 DEF CallStep

\* Nothing about D is left.
LEMMA MovedDropped ==
  ASSUME TodoType, NEW c \in Clients, NEW kind, NEW n, NEW D, Moved(c, kind, n, D)
  PROVE  \A i \in 1 .. Len(todo'[c]) : /\ todo'[c][i] \notin D
                                       /\ todo'[c][i] \in ToSet(Tail(todo[c]))
                                       /\ todo'[c][i] \in ToSet(todo[c])
<1>1. PICK r \in Seq(AnyStep) : Leaves(r, todo[c], D) /\ todo' = [todo EXCEPT ![c] = r]
  BY DEF Moved
<1>2. PICK q : q = todo[c]
  OBVIOUS
<1>3. q \in Seq(AnyStep) /\ q # << >> /\ Len(q) \in Nat
  BY <1>2, HeadIs DEF Moved
<1>4. todo'[c] = r
  BY <1>1 DEF TodoType
<1>5. ASSUME NEW i \in 1 .. Len(r)
      PROVE  r[i] \notin D /\ r[i] \in ToSet(Tail(q)) /\ r[i] \in ToSet(q)
  <2>1. PICK k \in 2 .. Len(q) : r[i] = q[k] /\ r[i] \notin D
    BY <1>1, <1>2, <1>3, LeavesPlaces
  <2>2. k - 1 \in 1 .. Len(Tail(q)) /\ Tail(q)[k - 1] = q[k]
    BY <1>3, HeadTailProperties
  <2>3. DOMAIN Tail(q) = 1 .. Len(Tail(q)) /\ DOMAIN q = 1 .. Len(q) /\ k \in 1 .. Len(q)
    BY <1>3, HeadTailProperties, LenProperties
  <2> QED  BY <2>1, <2>2, <2>3 DEF ToSet
<1> QED  BY <1>2, <1>4, <1>5

\* A step gives up the promises, and other steps that come last.
LEMMA DoingLasts ==
  ASSUME TodoType, NEW c \in Clients, NEW kind, NEW n, NEW K \in SUBSET Lasts,
         Doing(c, kind, n, NoPromise(Without(Tail(todo[c]), StepsOn(Tail(todo[c]), n, K)), n))
  PROVE  \E D : /\ Moved(c, kind, n, D) /\ Droppable(c, n, D)
                /\ \A i \in 1 .. Len(todo'[c]) : todo'[c][i].name = n => todo'[c][i].do \notin K
<1>1. PICK D, r, E : /\ D = StepsOn(Tail(todo[c]), n, K)
                     /\ r = Without(Tail(todo[c]), D)
                     /\ E = StepsOn(r, n, {"finish", "saved"})
  OBVIOUS
<1>2. todo[c] \in Seq(AnyStep) /\ todo[c] # << >>
  BY DEF TodoType, Doing
<1>3. r \in Seq(AnyStep) /\ Leaves(r, todo[c], D)
  BY <1>1, <1>2, LeavesWithout
<1>4. Without(r, E) \in Seq(AnyStep) /\ Leaves(Without(r, E), todo[c], D \cup E)
  BY <1>2, <1>3, LeavesAgain
<1>5. Moved(c, kind, n, D \cup E)
  BY <1>1, <1>4 DEF Moved, Doing, NoPromise
<1>6. \A s \in D \cup E : s.do \in Lasts
  BY <1>1 DEF StepsOn, Lasts
<1>7. ASSUME NEW i \in 1 .. Len(todo'[c]), todo'[c][i].name = n, todo'[c][i].do \in K
      PROVE  FALSE
  <2>1. PICK s : s = todo'[c][i]
    OBVIOUS
  <2>2. s \notin D \cup E /\ s \in ToSet(Tail(todo[c]))
    BY <1>5, <2>1, MovedDropped
  <2>3. s \in D
    BY <1>1, <1>7, <2>1, <2>2 DEF StepsOn
  <2> QED  BY <2>2, <2>3
<1> QED  BY <1>5, <1>6, <1>7 DEF Droppable

\* A file that cannot be opened takes along what depends on it.
LEMMA FailMoves ==
  ASSUME TodoType, NEW c \in Clients, NEW n, FileFails(c, n)
  PROVE  /\ disk' = disk
         /\ \E kind \in Writes : \E D :
              /\ Moved(c, kind, n, D) /\ Droppable(c, n, D)
              /\ \A i \in 1 .. Len(todo'[c]) : todo'[c][i].name = n =>
                   /\ kind \notin {"env", "openService"}
                   /\ kind = "openHelper" => todo'[c][i].do \notin {"helper", "openPath", "path"}
                   /\ kind = "openPath" => todo'[c][i].do # "path"
<1>0. disk' = disk
  BY DEF FileFails
<1>1. CASE \E step \in {"env", "openService"} :
             Doing(c, step, n, Without(Tail(todo[c]), {s \in ToSet(Tail(todo[c])) : s.name = n}))
  <2>1. PICK D : D = {s \in ToSet(Tail(todo[c])) : s.name = n}
    OBVIOUS
  <2>2. PICK kind \in {"env", "openService"} : Doing(c, kind, n, Without(Tail(todo[c]), D))
    BY <1>1, <2>1
  <2>3. Moved(c, kind, n, D)
    BY <2>2, DoingDrops
  <2>4. Droppable(c, n, D)
    BY <2>1 DEF Droppable
  <2>5. \A i \in 1 .. Len(todo'[c]) : todo'[c][i].name # n
    BY <2>1, <2>3, MovedDropped
  <2> QED  BY <1>0, <2>3, <2>4, <2>5 DEF Writes
<1>2. CASE Doing(c, "openHelper", n,
                 NoPromise(Without(Tail(todo[c]),
                                   StepsOn(Tail(todo[c]), n, {"helper", "openPath", "path"})), n))
  <2>1. {"helper", "openPath", "path"} \subseteq Lasts
    BY DEF Lasts
  <2>2. PICK D : /\ Moved(c, "openHelper", n, D) /\ Droppable(c, n, D)
                 /\ \A i \in 1 .. Len(todo'[c]) : todo'[c][i].name = n
                      => todo'[c][i].do \notin {"helper", "openPath", "path"}
    BY <1>2, <2>1, DoingLasts
  <2> QED  BY <1>0, <2>2 DEF Writes
<1>3. CASE Doing(c, "openPath", n,
                 NoPromise(Without(Tail(todo[c]), StepsOn(Tail(todo[c]), n, {"path"})), n))
  <2>1. {"path"} \subseteq Lasts
    BY DEF Lasts
  <2>2. PICK D : /\ Moved(c, "openPath", n, D) /\ Droppable(c, n, D)
                 /\ \A i \in 1 .. Len(todo'[c]) : todo'[c][i].name = n
                      => todo'[c][i].do \notin {"path"}
    BY <1>3, <2>1, DoingLasts
  <2> QED  BY <1>0, <2>2 DEF Writes
<1> QED  BY <1>1, <1>2, <1>3 DEF FileFails

\* A write that is lost leaves the rest of the command as it is.
LEMMA LostMoves ==
  ASSUME TodoType, NEW c \in Clients, NEW n, WriteLost(c, n)
  PROVE  /\ disk' = disk
         /\ \E kind \in {"service", "helper", "path"} :
              Moved(c, kind, n, {}) /\ Droppable(c, n, {})
BY DoingTail DEF WriteLost

-----------------------------------------------------------------------------
(* Types. *)

Disks == [service : [Names -> Unit], path : SUBSET Apps, env : SUBSET Names]
Managers == [loaded : [Names -> Unit], running : [Names -> Runnable],
             job : [Names -> {"none", "start", "stop", "restart"}],
             watching : SUBSET Names, bootService : SUBSET Names, bootPath : SUBSET Names]
Uses == [commands : 0 .. MaxCommands, crashes : 0 .. MaxCrashes,
         failures : 0 .. MaxFailures, full : 0 .. MaxFull, boots : 0 .. MaxBoots]
Promises == [Apps -> Outcomes]
Saves == [apps : SUBSET Apps, watches : SUBSET Apps]
Torn == [{"service", "helper", "path"} -> SUBSET Names]

\* The inductive invariant of the types: the steps left are steps, and only an
\* app has a .path.
RegType == /\ disk \in Disks /\ mgr \in Managers /\ used \in Uses
           /\ expected \in Promises /\ saved \in Saves /\ torn \in Torn /\ TodoType

LEMMA RegTypeIsTypeOK == RegType => TypeOK
BY DEF RegType, TypeOK, Disks, Managers, Uses, Promises, Saves, Torn, Outcomes

LEMMA UnitFacts ==
  /\ NoUnit \in Unit /\ Companion \in Unit /\ Empty \in Unit
  /\ \A unit \in Unit : /\ unit.program \in Contents /\ unit.env \in BOOLEAN
                        /\ unit # Empty => unit.program \in Runnable
<1>1. NoUnit \in Unit /\ Companion \in Unit /\ Empty \in Unit
  BY DEF NoUnit, Companion, Unit, Runnable
<1>2. Empty.program \in Contents /\ Empty.env \in BOOLEAN
  BY DEF Empty, Contents
<1>3. \A unit \in [program : Runnable, env : BOOLEAN] :
        unit.program \in Runnable /\ unit.program \in Contents /\ unit.env \in BOOLEAN
  BY DEF Contents
<1> QED  BY <1>1, <1>2, <1>3 DEF Unit

LEMMA InitType == Init => RegType
<1> SUFFICES ASSUME Init PROVE RegType
  OBVIOUS
<1>1. disk \in Disks
  BY UnitFacts DEF Init, Disks
<1>2. mgr \in Managers
  BY UnitFacts DEF Init, Managers, Runnable
<1>3. used \in Uses
  BY RegistryAssumption DEF Init, Uses
<1>4. expected \in Promises
  <2>1. Stopped \in Outcomes
    BY OutcomeType DEF Stopped, Contents, Runnable
  <2> QED  BY <2>1 DEF Init, Promises
<1>5. saved \in Saves
  BY DEF Init, Saves
<1>6. TodoType
  BY EmptySeq DEF Init, TodoType
<1>7. torn \in Torn
  BY DEF Init, Torn
<1> QED  BY <1>1, <1>2, <1>3, <1>4, <1>5, <1>6, <1>7 DEF RegType

LEMMA LookupType ==
  ASSUME disk \in Disks, mgr \in Managers, NEW n \in Names
  PROVE  Lookup(n) \in Unit
BY DEF Lookup, Disks, Managers

LEMMA WithJobType ==
  ASSUME disk \in Disks, mgr \in Managers, NEW n \in Names,
         NEW asked \in {"start", "stop", "restart"}
  PROVE  WithJob(n, asked) \in Managers
<1>1. Lookup(n) \in Unit
  BY LookupType
<1>2. Merged(mgr.job[n], asked) \in {"none", "start", "stop", "restart"}
  BY DEF Merged
<1>3. WithJob(n, asked) = [mgr EXCEPT !.loaded = [mgr.loaded EXCEPT ![n] = Lookup(n)],
                                      !.job = [mgr.job EXCEPT ![n] = Merged(mgr.job[n], asked)]]
  BY DEF WithJob, Managers
<1>4. /\ [mgr.loaded EXCEPT ![n] = Lookup(n)] \in [Names -> Unit]
      /\ [mgr.job EXCEPT ![n] = Merged(mgr.job[n], asked)]
            \in [Names -> {"none", "start", "stop", "restart"}]
  BY <1>1, <1>2 DEF Managers
<1> QED  BY <1>3, <1>4 DEF Managers

\* What files a step leaves.
LEMMA DiskStep ==
  ASSUME RegType, NEW c \in Clients, NEW n \in Names, FileStep(c, n)
  PROVE  disk' \in Disks
<1>0. /\ disk \in Disks /\ disk.service \in [Names -> Unit]
      /\ NoUnit \in Unit /\ Companion \in Unit /\ Empty \in Unit
  BY UnitFacts DEF RegType, Disks
<1>1. ASSUME NEW m, NEW unit \in Unit, disk' = [disk EXCEPT !.service[m] = unit]
      PROVE  disk' \in Disks
  <2>1. disk' = [disk EXCEPT !.service = [disk.service EXCEPT ![m] = unit]]
    BY <1>1
  <2>2. [disk.service EXCEPT ![m] = unit] \in [Names -> Unit]
    BY <1>0, <1>1
  <2> QED  BY <1>0, <2>1, <2>2 DEF Disks
<1>2. CASE WriteEnv(c, n)
  BY <1>2 DEF WriteEnv, Files, RegType, Disks
<1>3. CASE OpenService(c, n)
  BY <1>0, <1>1, <1>3 DEF OpenService, Opens, Files
<1>4. CASE WriteService(c, n)
  <2>1. Head(todo[c]).unit \in Unit
    BY <1>4, HeadIs, StepType DEF WriteService, Closes, Files, Step, Doing, RegType
  <2> QED  BY <1>1, <1>4, <2>1 DEF WriteService, Closes, Files
<1>5. CASE OpenHelper(c, n)
  BY <1>0, <1>1, <1>5 DEF OpenHelper, Opens, Files
<1>6. CASE WriteHelper(c, n)
  BY <1>0, <1>1, <1>6 DEF WriteHelper, Closes, Files
<1>7. CASE OpenPath(c, n) \/ UnlinkPath(c, n)
  BY <1>7 DEF OpenPath, UnlinkPath, Opens, Removes, Files, RegType, Disks
<1>8. CASE WritePath(c, n)
  <2>1. n \in Apps
    BY <1>8, HeadIs, StepType DEF WritePath, Closes, Files, Step, Doing, RegType, Writes
  <2> QED  BY <1>8, <2>1 DEF WritePath, Closes, Files, RegType, Disks
<1>9. CASE UnlinkService(c, n)
  BY <1>0, <1>1, <1>9 DEF UnlinkService, Removes, Files
<1>10. CASE UnlinkHelper(c, n)
  <2>1. CASE n \in Apps
    BY <1>0, <1>1, <1>10, <2>1 DEF UnlinkHelper, Removes, Files
  <2>2. CASE n \notin Apps
    BY <1>10, <2>2 DEF UnlinkHelper, Removes, Files, RegType
  <2> QED  BY <2>1, <2>2
<1>11. CASE UnlinkEnv(c, n)
  BY <1>11 DEF UnlinkEnv, Removes, Files, RegType, Disks
<1>12. CASE FileFails(c, n) \/ WriteLost(c, n)
  BY <1>12 DEF FileFails, WriteLost, RegType
<1> QED  BY <1>2, <1>3, <1>4, <1>5, <1>6, <1>7, <1>8, <1>9, <1>10, <1>11, <1>12 DEF FileStep

\* A file step is the next of the list, unless the file cannot be opened or what
\* is written is lost; the manager and the promises are left alone.
LEMMA FileStepIs ==
  ASSUME NEW c, NEW n, FileStep(c, n)
  PROVE  /\ UNCHANGED << mgr, expected, saved >>
         /\ \/ FileFails(c, n) \/ WriteLost(c, n)
            \/ \E kind \in Writes \cup Unlinks : Step(c, kind, n)
<1>1. /\ "env" \in Writes /\ "openService" \in Writes /\ "service" \in Writes
      /\ "openHelper" \in Writes /\ "helper" \in Writes /\ "openPath" \in Writes
      /\ "path" \in Writes
      /\ "unlinkService" \in Unlinks /\ "unlinkPath" \in Unlinks
      /\ "unlinkHelper" \in Unlinks /\ "unlinkEnv" \in Unlinks
  BY DEF Writes, Unlinks
<1>2. CASE FileFails(c, n) \/ WriteLost(c, n)
  BY <1>2 DEF FileFails, WriteLost
<1>3. CASE WriteEnv(c, n)
  BY <1>1, <1>3 DEF WriteEnv, Files
<1>4. CASE OpenService(c, n) \/ OpenHelper(c, n) \/ OpenPath(c, n)
  BY <1>1, <1>4 DEF OpenService, OpenHelper, OpenPath, Opens, Files
<1>5. CASE WriteService(c, n) \/ WriteHelper(c, n) \/ WritePath(c, n)
  BY <1>1, <1>5 DEF WriteService, WriteHelper, WritePath, Closes, Files
<1>6. CASE UnlinkService(c, n) \/ UnlinkPath(c, n) \/ UnlinkHelper(c, n) \/ UnlinkEnv(c, n)
  BY <1>1, <1>6 DEF UnlinkService, UnlinkPath, UnlinkHelper, UnlinkEnv, Removes, Files
<1> QED  BY <1>2, <1>3, <1>4, <1>5, <1>6 DEF FileStep

\* What files are left open or cut.
LEMMA TornStep ==
  ASSUME RegType, NEW c \in Clients, NEW n \in Names, FileStep(c, n) \/ CallStep(c, n)
  PROVE  torn' \in Torn
<1>0. torn \in Torn
  BY DEF RegType
<1>1. CASE torn' = torn
  BY <1>0, <1>1
<1>2. CASE \E file \in {"service", "helper", "path"} : torn' = [torn EXCEPT ![file] = @ \cup {n}]
  BY <1>0, <1>2 DEF Torn
<1>3. CASE \E file \in {"service", "helper", "path"} : torn' = [torn EXCEPT ![file] = @ \ {n}]
  BY <1>0, <1>3 DEF Torn
<1>4. CASE OpenService(c, n) \/ OpenHelper(c, n) \/ OpenPath(c, n)
  BY <1>2, <1>4 DEF OpenService, OpenHelper, OpenPath, Opens
<1>5. CASE WriteService(c, n) \/ WriteHelper(c, n) \/ WritePath(c, n)
  BY <1>3, <1>5 DEF WriteService, WriteHelper, WritePath, Closes
<1>6. CASE \/ WriteEnv(c, n) \/ FileFails(c, n) \/ WriteLost(c, n)
           \/ UnlinkService(c, n) \/ UnlinkPath(c, n) \/ UnlinkHelper(c, n) \/ UnlinkEnv(c, n)
  BY <1>1, <1>6 DEF WriteEnv, FileFails, WriteLost, UnlinkService, UnlinkPath, UnlinkHelper,
                    UnlinkEnv, Removes
<1>7. CASE CallStep(c, n)
  BY <1>1, <1>7 DEF CallStep, Reload, Start, StartPath, Stop, StopPath, Await, Restart, Enable,
                    Disable, Refused, CallFails, End, Saved, Calls
<1> QED  BY <1>4, <1>5, <1>6, <1>7 DEF FileStep

\* What a call leaves of the manager.
LEMMA MgrStep ==
  ASSUME RegType, NEW c \in Clients, NEW n \in Names, CallStep(c, n)
  PROVE  mgr' \in Managers
<1>0. disk \in Disks /\ mgr \in Managers
  BY DEF RegType
<1>1. CASE Reload(c, n)
  <2>1. disk.service \in [Names -> Unit]
    BY <1>0 DEF Disks
  <2> QED  BY <1>0, <1>1, <2>1 DEF Reload, Calls, Managers
<1>2. CASE Start(c, n)
  BY <1>0, <1>2, WithJobType DEF Start, Calls
<1>3. CASE StartPath(c, n)
  BY <1>0, <1>3 DEF StartPath, Calls, Managers
<1>4. CASE Stop(c, n)
  BY <1>0, <1>4, WithJobType DEF Stop, Calls
<1>5. CASE StopPath(c, n)
  BY <1>0, <1>5 DEF StopPath, Calls, Managers
<1>6. CASE Await(c, n)
  BY <1>0, <1>6 DEF Await, Calls
<1>7. CASE Restart(c, n)
  BY <1>0, <1>7, WithJobType DEF Restart, Calls
<1>8. CASE Enable(c, n)
  <2>1. /\ (IF disk.service[n].program \in Programs THEN mgr.bootService \cup {n}
            ELSE mgr.bootService) \in SUBSET Names
        /\ (IF n \in disk.path THEN mgr.bootPath \cup {n} ELSE mgr.bootPath) \in SUBSET Names
    BY <1>0 DEF Managers
  <2> QED  BY <1>0, <1>8, <2>1 DEF Enable, Calls, Managers
<1>9. CASE Disable(c, n)
  <2>1. mgr.bootService \ {n} \in SUBSET Names /\ mgr.bootPath \ {n} \in SUBSET Names
    BY <1>0 DEF Managers
  <2>2. [mgr EXCEPT !.bootService = @ \ {n}, !.bootPath = @ \ {n}] \in Managers
    BY <1>0, <2>1 DEF Managers
  <2> QED  BY <1>0, <1>9, <2>2 DEF Disable, Calls
<1>10. CASE Refused(c, n) \/ CallFails(c, n) \/ End(c, n) \/ Saved(c, n)
  BY <1>0, <1>10 DEF Refused, CallFails, End, Saved
<1> QED  BY <1>1, <1>2, <1>3, <1>4, <1>5, <1>6, <1>7, <1>8, <1>9, <1>10 DEF CallStep

\* The bounds, the promises and the list of saved apps.
LEMMA UsedStep ==
  ASSUME RegType, NEW c \in Clients, NEW n \in Names, FileStep(c, n) \/ CallStep(c, n)
  PROVE  used' \in Uses
<1>0. used \in Uses /\ MaxFailures \in Nat /\ MaxFull \in Nat
  BY RegistryAssumption DEF RegType
<1>1. CASE UNCHANGED used
  BY <1>0, <1>1
<1>2. CASE used.failures < MaxFailures /\ used' = [used EXCEPT !.failures = @ + 1]
  <2>1. used.failures + 1 \in 0 .. MaxFailures
    BY <1>0, <1>2 DEF Uses
  <2> QED  BY <1>0, <1>2, <2>1 DEF Uses
<1>5. CASE used.full < MaxFull /\ used' = [used EXCEPT !.full = @ + 1]
  <2>1. used.full + 1 \in 0 .. MaxFull
    BY <1>0, <1>5 DEF Uses
  <2> QED  BY <1>0, <1>5, <2>1 DEF Uses
<1>3. FileStep(c, n) => UNCHANGED used \/ FileFails(c, n) \/ WriteLost(c, n)
  BY FileStepIs DEF Step
<1>4. CallStep(c, n) => UNCHANGED used \/ CallFails(c, n)
  BY DEF CallStep, Reload, Start, StartPath, Stop, StopPath, Await, Restart, Enable,
         Disable, Refused, End, Saved, Calls, Step
<1> QED  BY <1>1, <1>2, <1>3, <1>4, <1>5 DEF FileFails, WriteLost, CallFails

LEMMA PromiseStep ==
  ASSUME RegType, NEW c \in Clients, NEW n \in Names, FileStep(c, n) \/ CallStep(c, n)
  PROVE  expected' \in Promises /\ saved' \in Saves
<1>0. expected \in Promises /\ saved \in Saves /\ disk \in Disks
  BY DEF RegType
<1>1. CASE UNCHANGED << expected, saved >>
  BY <1>0, <1>1
<1>2. CASE End(c, n)
  <2>1. Head(todo[c]).outcome \in Outcomes
    BY <1>2, HeadIs, StepType DEF End, Step, Doing, RegType
  <2> QED  BY <1>0, <1>2, <2>1 DEF End, Promises
<1>3. CASE Saved(c, n)
  <2>1. saved.apps \cup ({n} \cap Apps) \in SUBSET Apps
    BY <1>0 DEF Saves
  <2>2. saved.watches \cup ({n} \cap disk.path) \in SUBSET Apps
    BY <1>0 DEF Saves, Disks
  <2> QED  BY <1>0, <1>3, <2>1, <2>2 DEF Saved, Saves
<1>4. FileStep(c, n) => UNCHANGED << expected, saved >>
  BY FileStepIs
<1>5. CallStep(c, n) => UNCHANGED << expected, saved >> \/ End(c, n) \/ Saved(c, n)
  BY DEF CallStep, Reload, Start, StartPath, Stop, StopPath, Await, Restart, Enable,
         Disable, Refused, CallFails, Calls
<1> QED  BY <1>1, <1>2, <1>3, <1>4, <1>5

LEMMA FileMoves ==
  ASSUME TodoType, NEW c \in Clients, NEW n, FileStep(c, n)
  PROVE  \E kind \in Writes \cup Unlinks : \E D : Moved(c, kind, n, D) /\ Droppable(c, n, D)
<1>1. \A kind : Step(c, kind, n) => Moved(c, kind, n, {}) /\ Droppable(c, n, {})
  BY DoingTail DEF Step
<1>2. CASE FileFails(c, n)
  BY <1>2, FailMoves
<1>3. CASE \E kind \in Writes \cup Unlinks : Step(c, kind, n)
  BY <1>1, <1>3
<1>4. CASE WriteLost(c, n)
  BY <1>4, LostMoves DEF Writes
<1> QED  BY <1>2, <1>3, <1>4, FileStepIs

\* A step of a client leaves steps.
LEMMA MovedType ==
  ASSUME TodoType, NEW c \in Clients, NEW kind, NEW n, NEW D, Moved(c, kind, n, D)
  PROVE  TodoType'
BY DEF Moved, TodoType

LEMMA BeginType ==
  ASSUME RegType, NEW c \in Clients, NEW command \in Commands, Begin(c, command)
  PROVE  RegType'
<1>0. /\ disk \in Disks /\ used \in Uses /\ expected \in Promises /\ saved \in Saves
      /\ torn \in Torn /\ TodoType /\ MaxCommands \in Nat
  BY RegistryAssumption DEF RegType
<1>1. PICK steps \in StepsOf(command) :
        /\ todo' = [todo EXCEPT ![c] = steps]
        /\ expected' = [a \in Apps |-> IF command # "save" /\ a \in Mentions(steps)
                                       THEN Anything ELSE expected[a]]
        /\ saved' = IF command # "delete" THEN saved
                    ELSE [apps |-> saved.apps \ Mentions(steps),
                          watches |-> saved.watches \ Mentions(steps)]
  BY DEF Begin
<1>2. NewCommand(steps)
  <2>1. disk.service \in [Names -> Unit]
    BY <1>0 DEF Disks
  <2> QED  BY <2>1, CommandGood
<1>3. TodoType'
  BY <1>0, <1>1, <1>2 DEF TodoType, NewCommand
<1>4. used' \in Uses
  <2>1. used.commands + 1 \in 0 .. MaxCommands
    BY <1>0 DEF Uses, Begin
  <2> QED  BY <1>0, <2>1 DEF Uses, Begin
<1>5. Anything \in Outcomes
  BY OutcomeType DEF Anything, Contents, Runnable
<1>6. expected' \in Promises
  BY <1>0, <1>1, <1>5 DEF Promises
<1>7. saved' \in Saves
  BY <1>0, <1>1 DEF Saves
<1> QED  BY <1>0, <1>3, <1>4, <1>6, <1>7 DEF RegType, Begin

LEMMA RebootType ==
  ASSUME RegType, Reboot
  PROVE  RegType'
<1>0. /\ disk \in Disks /\ mgr \in Managers /\ used \in Uses /\ saved \in Saves /\ torn \in Torn
      /\ MaxBoots \in Nat
  BY RegistryAssumption DEF RegType
<1>1. used' \in Uses
  <2>1. used.boots + 1 \in 0 .. MaxBoots
    BY <1>0 DEF Uses, Reboot
  <2> QED  BY <1>0, <2>1 DEF Uses, Reboot
<1>2. mgr' \in Managers
  <2>1. PICK running, job, watching :
          /\ running = [n \in Names |-> Off]
          /\ job = [n \in Names |-> IF n \in mgr.bootService /\ disk.service[n] \notin Unusable
                                    THEN "start" ELSE "none"]
          /\ watching = mgr.bootPath \cap disk.path
    OBVIOUS
  <2>2. mgr' = [mgr EXCEPT !.loaded = disk.service, !.running = running, !.job = job,
                           !.watching = watching]
    BY <2>1 DEF Reboot
  <2>3. disk.service \in [Names -> Unit] /\ disk.path \in SUBSET Names
    BY <1>0, RegistryAssumption DEF Disks
  <2>4. /\ running \in [Names -> Runnable]
        /\ job \in [Names -> {"none", "start", "stop", "restart"}]
        /\ watching \in SUBSET Names
    BY <2>1, <2>3 DEF Runnable
  <2> QED  BY <1>0, <2>2, <2>3, <2>4 DEF Managers
<1>3. TodoType'
  BY EmptySeq DEF Reboot, TodoType
<1>4. expected' \in Promises
  <2> SUFFICES ASSUME NEW a \in Apps
               PROVE  (IF a \notin saved.apps \ torn.service THEN Anything
                       ELSE Outcome({disk.service[a].program},
                                    IF a \in saved.watches THEN {TRUE} ELSE BOOLEAN))
                      \in Outcomes
    BY DEF Reboot, Promises
  <2>1. disk.service[a].program \in Contents
    BY <1>0, UnitFacts, RegistryAssumption DEF Disks
  <2>2. Anything \in Outcomes
    BY OutcomeType DEF Anything, Contents, Runnable
  <2>3. PICK watched : watched = IF a \in saved.watches THEN {TRUE} ELSE BOOLEAN
    OBVIOUS
  <2>4. Outcome({disk.service[a].program}, watched) \in Outcomes
    BY <2>1, <2>3, OutcomeType
  <2> QED  BY <2>2, <2>3, <2>4
<1> QED  BY <1>0, <1>1, <1>2, <1>3, <1>4 DEF RegType, Reboot

LEMMA ManagerType ==
  ASSUME RegType,
         \/ \E n \in Names : Complete(n)
         \/ \E a \in Apps : CompanionRuns(a) \/ Trigger(a)
  PROVE  mgr' \in Managers
<1>0. disk \in Disks /\ mgr \in Managers /\ Apps \subseteq Names /\ HelperOf \in [Apps -> Names]
  BY RegistryAssumption DEF RegType
<1>1. ASSUME NEW n \in Names, Complete(n)
      PROVE  mgr' \in Managers
  <2>1. PICK runs : runs = CASE mgr.job[n] = "stop"                             -> Off
                              [] mgr.job[n] = "start" /\ mgr.running[n] # Off   -> mgr.running[n]
                              [] OTHER                                          -> Launched(n)
    OBVIOUS
  <2>2. Launched(n) \in Runnable
    BY <1>0, LookupType, UnitFacts DEF Launched, Unusable, Runnable
  <2>3. mgr.running[n] \in Runnable
    BY <1>0 DEF Managers
  <2>4. runs \in Runnable
    BY <2>1, <2>2, <2>3 DEF Runnable
  <2>5. mgr' = [mgr EXCEPT !.job = [mgr.job EXCEPT ![n] = "none"],
                           !.running = [mgr.running EXCEPT ![n] = runs]]
    BY <1>0, <1>1, <2>1 DEF Complete, Managers
  <2>6. /\ [mgr.job EXCEPT ![n] = "none"] \in [Names -> {"none", "start", "stop", "restart"}]
        /\ [mgr.running EXCEPT ![n] = runs] \in [Names -> Runnable]
    BY <1>0, <2>4 DEF Managers
  <2> QED  BY <1>0, <2>5, <2>6 DEF Managers
<1>2. ASSUME NEW a \in Apps, CompanionRuns(a)
      PROVE  mgr' \in Managers
  <2>1. PICK asked : asked = IF Lookup(a) \in Unusable THEN mgr ELSE WithJob(a, "restart")
    OBVIOUS
  <2>2. asked \in Managers
    BY <1>0, <2>1, WithJobType
  <2>3. mgr' = [asked EXCEPT !.running = [asked.running EXCEPT ![HelperOf[a]] = Off]]
    BY <1>2, <2>1 DEF CompanionRuns
  <2>4. [asked.running EXCEPT ![HelperOf[a]] = Off] \in [Names -> Runnable]
    BY <2>2 DEF Managers, Runnable
  <2> QED  BY <2>2, <2>3, <2>4 DEF Managers
<1>3. ASSUME NEW a \in Apps, Trigger(a)
      PROVE  mgr' \in Managers
  <2>1. WithJob(HelperOf[a], "start") \in Managers
    BY <1>0, WithJobType
  <2>2. [mgr EXCEPT !.watching = @ \ {a}] \in Managers
    BY <1>0 DEF Managers
  <2> QED  BY <1>3, <2>1, <2>2 DEF Trigger
<1> QED  BY <1>1, <1>2, <1>3

LEMMA NextType == RegType /\ [Next]_vars => RegType'
<1> SUFFICES ASSUME RegType, [Next]_vars PROVE RegType'
  OBVIOUS
<1>0. TodoType
  BY DEF RegType
<1>1. ASSUME NEW c \in Clients, NEW command \in Commands, Begin(c, command)
      PROVE  RegType'
  BY <1>1, BeginType
<1>2. ASSUME NEW c \in Clients, Killed(c)
      PROVE  RegType'
  <2>1. used.crashes + 1 \in 0 .. MaxCrashes
    BY <1>2, RegistryAssumption DEF RegType, Uses, Killed
  <2>2. used' \in Uses
    BY <1>2, <2>1 DEF RegType, Uses, Killed
  <2>3. TodoType'
    BY <1>0, <1>2, EmptySeq DEF TodoType, Killed
  <2> QED  BY <1>2, <2>2, <2>3 DEF RegType, Killed
<1>3. ASSUME NEW c \in Clients, NEW n \in Names, FileStep(c, n)
      PROVE  RegType'
  <2>1. mgr' = mgr
    BY <1>3, FileStepIs
  <2>2. TodoType'
    BY <1>0, <1>3, FileMoves, MovedType
  <2> QED  BY <1>3, <2>1, <2>2, DiskStep, UsedStep, PromiseStep, TornStep DEF RegType
<1>4. ASSUME NEW c \in Clients, NEW n \in Names, CallStep(c, n)
      PROVE  RegType'
  <2>1. disk' = disk /\ TodoType'
    BY <1>0, <1>4, CallMoves, MovedType
  <2> QED  BY <1>4, <2>1, MgrStep, UsedStep, PromiseStep, TornStep DEF RegType
<1>5. CASE \/ \E n \in Names : Complete(n)
           \/ \E a \in Apps : CompanionRuns(a) \/ Trigger(a)
  <2>1. UNCHANGED << disk, todo, used, expected, saved, torn >>
    BY <1>5 DEF Complete, CompanionRuns, Trigger
  <2>2. mgr' \in Managers
    BY <1>5, ManagerType
  <2> QED  BY <2>1, <2>2 DEF RegType, TodoType
<1>6. CASE Reboot
  BY <1>6, RebootType
<1>7. CASE UNCHANGED vars
  BY <1>7 DEF RegType, TodoType, vars
<1> QED  BY <1>1, <1>2, <1>3, <1>4, <1>5, <1>6, <1>7 DEF Next

LEMMA AlwaysTyped == Spec => []RegType
BY InitType, NextType, PTL DEF Spec

\* Files, manager, promises and bounds keep their shape, through every command,
\* crash, failure and reboot.
THEOREM RegistryTypes == Spec => []TypeOK
BY AlwaysTyped, RegTypeIsTypeOK, PTL

-----------------------------------------------------------------------------
(* The order of the files.                                                   *)

\* Clients are about different apps, and each writes or unlinks.
Apart == Separate /\ \A x \in Clients : OneWay(todo[x])

LEMMA InitApart == Init => Apart
<1> SUFFICES ASSUME Init PROVE Apart
  OBVIOUS
<1>1. \A x \in Clients : todo[x] = << >>
  BY DEF Init
<1>2. Mentions(<< >>) = {} /\ OneWay(<< >>)
  BY DEF Mentions, OneWay
<1> QED  BY <1>1, <1>2 DEF Apart, Separate

LEMMA NothingLeft ==
  /\ << >> \in Seq(AnyStep) /\ Mentions(<< >>) = {} /\ OneWay(<< >>)
  /\ \A late, early, done : Prepared(<< >>, late, early, done)
BY EmptySeq DEF Mentions, OneWay, Prepared

\* A client begins a command.
LEMMA BeginFacts ==
  ASSUME RegType, NEW c \in Clients, NEW command \in Commands, Begin(c, command)
  PROVE  \E steps : /\ NewCommand(steps) /\ todo' = [todo EXCEPT ![c] = steps]
                    /\ disk' = disk
                    /\ \A x \in Clients : Mentions(todo[x]) \cap Mentions(steps) = {}
<1>1. disk.service \in [Names -> Unit]
  BY DEF RegType, Disks
<1> QED  BY <1>1, CommandGood DEF Begin

LEMMA NextApart == RegType /\ Apart /\ [Next]_vars => Apart'
<1> SUFFICES ASSUME RegType, Apart, [Next]_vars PROVE Apart'
  OBVIOUS
<1>0. TodoType /\ Separate
  BY DEF RegType, Apart
<1>1. ASSUME NEW c \in Clients, NEW command \in Commands, Begin(c, command)
      PROVE  Apart'
  <2>1. PICK steps : /\ NewCommand(steps) /\ todo' = [todo EXCEPT ![c] = steps]
                     /\ \A x \in Clients : Mentions(todo[x]) \cap Mentions(steps) = {}
    BY <1>1, BeginFacts
  <2>2. todo'[c] = steps /\ \A x \in Clients \ {c} : todo'[x] = todo[x]
    BY <1>0, <2>1 DEF TodoType
  <2>3. Separate'
    <3> SUFFICES ASSUME NEW x \in Clients, NEW y \in Clients, x # y
                 PROVE  Mentions(todo'[x]) \cap Mentions(todo'[y]) = {}
      BY DEF Separate
    <3>1. CASE x = c
      BY <3>1, <2>1, <2>2
    <3>2. CASE y = c
      BY <3>2, <2>1, <2>2
    <3>3. CASE x # c /\ y # c
      BY <3>3, <2>2, <1>0 DEF Separate
    <3> QED  BY <3>1, <3>2, <3>3
  <2>4. \A x \in Clients : OneWay(todo'[x])
    BY <2>1, <2>2 DEF NewCommand, Apart
  <2> QED  BY <2>3, <2>4 DEF Apart
<1>2. ASSUME NEW c \in Clients, Killed(c)
      PROVE  Apart'
  <2>1. \A x \in Clients : todo'[x] = << >> \/ todo'[x] = todo[x]
    BY <1>0, <1>2 DEF Killed, TodoType
  <2>2. Separate'
    BY <1>0, <2>1, NothingLeft DEF Separate
  <2> QED  BY <2>1, <2>2, NothingLeft DEF Apart
<1>3. ASSUME NEW c \in Clients, NEW n \in Names, FileStep(c, n) \/ CallStep(c, n)
      PROVE  Apart'
  <2>1. PICK kind, D : Moved(c, kind, n, D)
    BY <1>0, <1>3, FileMoves, CallMoves
  <2>2. Separate' /\ \A x \in Clients : OneWay(todo[x]) => OneWay(todo'[x])
    BY <1>0, <2>1, MovedFacts
  <2> QED  BY <2>2 DEF Apart
<1>4. CASE UNCHANGED todo
  BY <1>4 DEF Apart, Separate
<1>5. CASE Reboot
  <2>1. \A x \in Clients : todo'[x] = << >>
    BY <1>5 DEF Reboot
  <2> QED  BY <2>1, NothingLeft DEF Apart, Separate
<1> QED  BY <1>1, <1>2, <1>3, <1>4, <1>5 DEF Next, Complete, CompanionRuns, Trigger, vars

\* What comes before what.
Ordering(late, early) ==
  \/ late = EnvUnits /\ early = "env"
  \/ late = Of("unlinkEnv") /\ early = "unlinkService"
  \/ late = Of("path") /\ early = "openHelper"
  \/ late = Of("unlinkHelper") /\ early = "unlinkPath"

AllPrepared(late, early, done) == \A x \in Clients : Prepared(todo[x], late, early, done)

\* Such a step opens and fills none, either.
LEMMA QuietTorn ==
  ASSUME [Next]_vars,
         ~ \E c \in Clients, n \in Names : FileStep(c, n) /\ ~FileFails(c, n) /\ ~WriteLost(c, n)
  PROVE  torn' = torn
<1>1. CASE \E c \in Clients : (\E command \in Commands : Begin(c, command)) \/ Killed(c)
  BY <1>1 DEF Begin, Killed
<1>2. ASSUME NEW c \in Clients, NEW n \in Names, FileFails(c, n) \/ WriteLost(c, n)
      PROVE  torn' = torn
  BY <1>2 DEF FileFails, WriteLost
<1>3. ASSUME NEW c \in Clients, NEW n \in Names, CallStep(c, n)
      PROVE  torn' = torn
  BY <1>3 DEF CallStep, Reload, Start, StartPath, Stop, StopPath, Await, Restart, Enable,
              Disable, Refused, CallFails, End, Saved, Calls
<1>4. CASE \/ \E n \in Names : Complete(n)
           \/ \E a \in Apps : CompanionRuns(a) \/ Trigger(a)
           \/ Reboot \/ UNCHANGED vars
  BY <1>4 DEF Complete, CompanionRuns, Trigger, Reboot, vars
<1> QED  BY <1>1, <1>2, <1>3, <1>4 DEF Next

\* A step that changes no file keeps the order.
LEMMA QuietOrder ==
  ASSUME RegType, Apart, [Next]_vars, NEW late, NEW early, NEW done, Ordering(late, early),
         AllPrepared(late, early, done),
         ~ \E c \in Clients, n \in Names : FileStep(c, n) /\ ~FileFails(c, n) /\ ~WriteLost(c, n)
  PROVE  disk' = disk /\ \A x \in Clients : Prepared(todo'[x], late, early, done)
<1>0. TodoType /\ Separate /\ early \in Writes \cup Unlinks
      /\ early \notin Lasts /\ early \notin {"service", "helper", "path"}
  BY DEF RegType, Apart, Ordering, Writes, Unlinks, Lasts
<1>1. ASSUME NEW c \in Clients, NEW command \in Commands, Begin(c, command)
      PROVE  disk' = disk /\ \A x \in Clients : Prepared(todo'[x], late, early, done)
  <2>1. PICK steps : /\ NewCommand(steps) /\ todo' = [todo EXCEPT ![c] = steps]
                     /\ disk' = disk
    BY <1>1, BeginFacts
  <2>2. todo'[c] = steps /\ \A x \in Clients \ {c} : todo'[x] = todo[x]
    BY <1>0, <2>1 DEF TodoType
  <2>3. Prepared(steps, late, early, {})
    BY <2>1 DEF NewCommand, Planned, Ordering
  <2>4. Prepared(steps, late, early, done)
    BY <2>3 DEF Prepared
  <2> QED  BY <2>1, <2>2, <2>4 DEF AllPrepared
<1>2. ASSUME NEW c \in Clients, Killed(c)
      PROVE  disk' = disk /\ \A x \in Clients : Prepared(todo'[x], late, early, done)
  <2>1. \A x \in Clients : todo'[x] = << >> \/ todo'[x] = todo[x]
    BY <1>0, <1>2 DEF Killed, TodoType
  <2> QED  BY <1>2, <2>1, NothingLeft DEF AllPrepared, Killed
<1>3. ASSUME NEW c \in Clients, NEW n \in Names, FileFails(c, n)
      PROVE  disk' = disk /\ \A x \in Clients : Prepared(todo'[x], late, early, done)
  <2>1. PICK kind \in Writes : \E D :
          /\ Moved(c, kind, n, D) /\ Droppable(c, n, D)
          /\ \A i \in 1 .. Len(todo'[c]) : todo'[c][i].name = n =>
               /\ kind \notin {"env", "openService"}
               /\ kind = "openHelper" => todo'[c][i].do \notin {"helper", "openPath", "path"}
    BY <1>0, <1>3, FailMoves
  <2>2. PICK D : Moved(c, kind, n, D) /\ Droppable(c, n, D)
    BY <2>1
  <2>3. \A i \in 1 .. Len(todo'[c]) :
          todo'[c][i] \in late /\ todo'[c][i].name = n /\ kind = early => FALSE
    BY <2>1 DEF Ordering, Of, Writes
  <2>4. \A x \in Clients : Prepared(todo'[x], late, early, done)
    <3>1. \A i \in 1 .. Len(todo'[c]) :
            /\ todo'[c][i] \in late
            /\ todo'[c][i].name = n
            /\ n \in done \/ kind = early
            => n \in done
      BY <2>3
    <3>2. /\ \A x \in Clients : Prepared(todo[x], late, early, done)
          /\ Passes(done, done, n)
      BY DEF AllPrepared, Passes
    <3> QED  BY <1>0, <2>2, <3>1, <3>2, MovedPrepared
  <2> QED  BY <1>3, <2>4, FailMoves DEF FileFails
<1>4. ASSUME NEW c \in Clients, NEW n \in Names, CallStep(c, n)
      PROVE  disk' = disk /\ \A x \in Clients : Prepared(todo'[x], late, early, done)
  <2>1. PICK kind, D : /\ kind \notin Writes \cup Unlinks
                       /\ Moved(c, kind, n, D) /\ Droppable(c, n, D)
    BY <1>0, <1>4, CallMoves
  <2>2. kind # early
    BY <1>0, <2>1
  <2>3. \A x \in Clients : Prepared(todo'[x], late, early, done)
    <3>1. \A i \in 1 .. Len(todo'[c]) :
            /\ todo'[c][i] \in late
            /\ todo'[c][i].name = n
            /\ n \in done \/ kind = early
            => n \in done
      BY <2>2
    <3>2. /\ \A x \in Clients : Prepared(todo[x], late, early, done)
          /\ Passes(done, done, n)
      BY DEF AllPrepared, Passes
    <3> QED  BY <1>0, <2>1, <3>1, <3>2, MovedPrepared
  <2> QED  BY <1>0, <1>4, <2>3, CallMoves
<1>7. ASSUME NEW c \in Clients, NEW n \in Names, WriteLost(c, n)
      PROVE  disk' = disk /\ \A x \in Clients : Prepared(todo'[x], late, early, done)
  <2>1. PICK kind \in {"service", "helper", "path"} :
          Moved(c, kind, n, {}) /\ Droppable(c, n, {})
    BY <1>0, <1>7, LostMoves
  <2>2. /\ \A x \in Clients : Prepared(todo[x], late, early, done)
        /\ Passes(done, done, n) /\ kind # early
    BY <1>0 DEF AllPrepared, Passes
  <2>3. \A x \in Clients : Prepared(todo'[x], late, early, done)
    BY <1>0, <2>1, <2>2, MovedPrepared
  <2> QED  BY <1>7, <2>3 DEF WriteLost
<1>5. CASE UNCHANGED << disk, todo >>
  BY <1>5 DEF AllPrepared
<1>6. CASE Reboot
  <2>1. \A x \in Clients : todo'[x] = << >>
    BY <1>6 DEF Reboot
  <2> QED  BY <1>6, <2>1, NothingLeft DEF Reboot
<1> QED  BY <1>1, <1>2, <1>3, <1>4, <1>5, <1>6, <1>7 DEF Next, Complete, CompanionRuns, Trigger,
            vars

\* The first step of a list has what it needs.
LEMMA HeadPrepared ==
  ASSUME TodoType, NEW c \in Clients, todo[c] # << >>, NEW late, NEW early, NEW done,
         AllPrepared(late, early, done), Head(todo[c]) \in late
  PROVE  Head(todo[c]).name \in done
<1>1. /\ Prepared(todo[c], late, early, done) /\ 1 \in 1 .. Len(todo[c])
      /\ todo[c][1] = Head(todo[c])
  BY HeadIs DEF AllPrepared
<1>2. \A j \in 1 .. (1 - 1) : FALSE
  OBVIOUS
<1> QED  BY <1>1, <1>2 DEF Prepared

\* A command that writes has nothing to unlink, and the other way round.
LEMMA Opposite ==
  ASSUME TodoType, Apart, NEW c \in Clients, NEW kind, NEW n, NEW D, Moved(c, kind, n, D)
  PROVE  \A i \in 1 .. Len(todo'[c]) :
           /\ kind \in Writes => todo'[c][i].do \notin Unlinks
           /\ kind \in Unlinks => todo'[c][i].do \notin Writes
<1>1. OneWay(todo[c])
  BY DEF Apart
<1>2. /\ 1 \in 1 .. Len(todo[c]) /\ todo[c][1].do = kind
      /\ DOMAIN todo[c] = 1 .. Len(todo[c])
  BY HeadIs, LenProperties DEF Moved
<1>3. Writes \cap Unlinks = {}
  BY DEF Writes, Unlinks
<1>4. \A i \in 1 .. Len(todo[c]) : /\ kind \in Writes => todo[c][i].do \notin Unlinks
                                   /\ kind \in Unlinks => todo[c][i].do \notin Writes
  BY <1>1, <1>2, <1>3 DEF OneWay
<1>5. \A i \in 1 .. Len(todo'[c]) : todo'[c][i] \in ToSet(todo[c])
  BY MovedDropped
<1> QED  BY <1>2, <1>4, <1>5 DEF ToSet

\* A file step that is done: what it leaves prepared.
LEMMA FilesOrder ==
  ASSUME RegType, Apart, NEW c \in Clients, NEW kind, NEW n, NEW result,
         Files(c, kind, n, result), NEW late, NEW early, NEW done, NEW later,
         Ordering(late, early), AllPrepared(late, early, done),
         Passes(done, later, n),
         \/ n \in later
         \/ n \notin done /\ kind # early
         \/ kind \in Writes /\ \A s \in late : s.do \in Unlinks
         \/ kind \in Unlinks /\ \A s \in late : s.do \in Writes
  PROVE  \A x \in Clients : Prepared(todo'[x], late, early, later)
<1>1. /\ TodoType /\ Separate /\ early \notin Lasts
      /\ Moved(c, kind, n, {}) /\ Droppable(c, n, {})
  BY DoingTail DEF RegType, Apart, Ordering, Files, Step, Lasts
<1>2. \A i \in 1 .. Len(todo'[c]) :
        /\ todo'[c][i] \in late
        /\ todo'[c][i].name = n
        /\ n \in done \/ kind = early
        => n \in later
  BY <1>1, Opposite
<1>3. \A x \in Clients : Prepared(todo[x], late, early, done)
  BY DEF AllPrepared
<1> QED  BY <1>1, <1>2, <1>3, MovedPrepared

LEMMA FilesHead ==
  ASSUME RegType, NEW c \in Clients, NEW kind, NEW n, NEW result, Files(c, kind, n, result)
  PROVE  /\ todo[c] # << >> /\ Head(todo[c]) \in AnyStep
         /\ Head(todo[c]).do = kind /\ Head(todo[c]).name = n /\ disk' = result
         /\ kind = "service" => Head(todo[c]).unit \in Unit
BY HeadIs, StepType DEF RegType, Files, Step, Doing

\* The names whose .service names no .env file.
NoEnv == {m \in Names : ~disk.service[m].env}

EnvInv == /\ EnvPresent
          /\ AllPrepared(EnvUnits, "env", disk.env)
          /\ AllPrepared(Of("unlinkEnv"), "unlinkService", NoEnv)

LEMMA EnvFile ==
  ASSUME RegType, Apart, EnvInv, NEW c \in Clients, NEW n \in Names, FileStep(c, n),
         ~FileFails(c, n), ~WriteLost(c, n)
  PROVE  EnvInv'
<1>0. /\ disk \in Disks
      /\ Ordering(EnvUnits, "env") /\ Ordering(Of("unlinkEnv"), "unlinkService")
      /\ \A s \in EnvUnits : s.do \in Writes
      /\ \A s \in Of("unlinkEnv") : s.do \in Unlinks
      /\ AllPrepared(EnvUnits, "env", disk.env)
      /\ AllPrepared(Of("unlinkEnv"), "unlinkService", NoEnv)
      /\ EnvPresent
  BY DEF RegType, Ordering, EnvUnits, Of, Writes, Unlinks, EnvInv
\* What a step has to leave.
<1>1. ASSUME NEW kind, NEW result, Files(c, kind, n, result),
             \A m \in Names : disk'.service[m].env => m \in disk'.env,
             \/ disk.env \subseteq disk'.env /\ kind # "env"
             \/ kind = "env" /\ disk'.env = disk.env \cup {n}
             \/ kind \in Unlinks /\ disk'.env = disk.env \ {n},
             \/ NoEnv \subseteq NoEnv' /\ kind # "unlinkService"
             \/ kind = "unlinkService" /\ NoEnv \cup {n} \subseteq NoEnv'
             \/ kind \in Writes /\ NoEnv \ {n} \subseteq NoEnv'
      PROVE  EnvInv'
  <2>1. \A x \in Clients : Prepared(todo'[x], EnvUnits, "env", disk'.env)
    <3>1. PICK done, later : done = disk.env /\ later = disk'.env
      OBVIOUS
    <3>2. Passes(done, later, n)
      BY <1>1, <3>1 DEF Passes
    <3>3. \/ n \in later
          \/ n \notin done /\ kind # "env"
          \/ kind \in Unlinks /\ \A s \in EnvUnits : s.do \in Writes
      BY <1>0, <1>1, <3>1
    <3>4. AllPrepared(EnvUnits, "env", done)
      BY <1>0, <3>1
    <3>5. \A x \in Clients : Prepared(todo'[x], EnvUnits, "env", later)
      BY <1>0, <1>1, <3>2, <3>3, <3>4, FilesOrder
    <3> QED  BY <3>1, <3>5
  <2>2. \A x \in Clients : Prepared(todo'[x], Of("unlinkEnv"), "unlinkService", NoEnv')
    <3>1. PICK done, later : done = NoEnv /\ later = NoEnv'
      OBVIOUS
    <3>2. Passes(done, later, n)
      BY <1>1, <3>1 DEF Passes
    <3>3. \/ n \in later
          \/ n \notin done /\ kind # "unlinkService"
          \/ kind \in Writes /\ \A s \in Of("unlinkEnv") : s.do \in Unlinks
      BY <1>0, <1>1, <3>1
    <3>4. AllPrepared(Of("unlinkEnv"), "unlinkService", done)
      BY <1>0, <3>1
    <3>5. \A x \in Clients : Prepared(todo'[x], Of("unlinkEnv"), "unlinkService", later)
      BY <1>0, <1>1, <3>2, <3>3, <3>4, FilesOrder
    <3> QED  BY <3>1, <3>5
  <2> QED  BY <1>1, <2>1, <2>2 DEF EnvInv, EnvPresent, AllPrepared
<1>2. CASE WriteEnv(c, n)
  <2>1. Files(c, "env", n, [disk EXCEPT !.env = @ \cup {n}])
    BY <1>2 DEF WriteEnv
  <2>2. disk'.service = disk.service /\ disk'.env = disk.env \cup {n}
    BY <1>0, <2>1 DEF Files, Disks
  <2>3. NoEnv' = NoEnv
    BY <2>2 DEF NoEnv
  <2> QED  BY <1>0, <1>1, <2>1, <2>2, <2>3 DEF EnvPresent
<1>3. CASE WriteService(c, n)
  <2>1. Files(c, "service", n, [disk EXCEPT !.service[n] = Head(todo[c]).unit])
    BY <1>3 DEF WriteService, Closes
  <2>2. PICK unit \in Unit : unit = Head(todo[c]).unit
    BY <2>1, FilesHead
  <2>3. /\ disk'.service = [disk.service EXCEPT ![n] = unit]
        /\ disk'.env = disk.env
    BY <1>0, <2>1, <2>2 DEF Files, Disks
  <2>4. disk'.service[n] = unit /\ \A m \in Names \ {n} : disk'.service[m] = disk.service[m]
    BY <1>0, <2>3 DEF Disks
  <2>5. unit.env => n \in disk.env
    <3>1. SUFFICES ASSUME unit.env PROVE n \in disk.env
      OBVIOUS
    <3>2. Head(todo[c]) \in EnvUnits
      BY <2>1, <2>2, <3>1, FilesHead DEF EnvUnits
    <3> QED  BY <1>0, <2>1, <3>2, FilesHead, HeadPrepared DEF RegType
  <2>6. NoEnv \ {n} \subseteq NoEnv'
    BY <2>4 DEF NoEnv
  <2>7. \A m \in Names : disk'.service[m].env => m \in disk'.env
    BY <1>0, <2>3, <2>4, <2>5 DEF EnvPresent
  <2> QED  BY <1>1, <2>1, <2>3, <2>6, <2>7 DEF Writes
<1>4. CASE OpenService(c, n) \/ OpenHelper(c, n) \/ WriteHelper(c, n)
  <2>1. PICK kind, m, unit :
          /\ kind \in {"openService", "openHelper", "helper"} /\ unit \in {Empty, Companion}
          /\ Files(c, kind, n, [disk EXCEPT !.service[m] = unit])
    BY <1>4 DEF OpenService, OpenHelper, WriteHelper, Opens, Closes
  <2>2. /\ disk'.service = [disk.service EXCEPT ![m] = unit]
        /\ disk'.env = disk.env
    BY <1>0, <2>1 DEF Files, Disks
  <2>3. \A l \in Names : disk'.service[l] = disk.service[l] \/ ~disk'.service[l].env
    BY <1>0, <2>1, <2>2 DEF Disks, Companion, Empty
  <2>4. NoEnv \subseteq NoEnv'
    BY <2>3 DEF NoEnv
  <2>5. \A l \in Names : disk'.service[l].env => l \in disk'.env
    BY <1>0, <2>2, <2>3 DEF EnvPresent
  <2> QED  BY <1>1, <2>1, <2>2, <2>4, <2>5
<1>5. CASE OpenPath(c, n) \/ WritePath(c, n) \/ UnlinkPath(c, n)
  <2>1. PICK kind, result : kind \in {"openPath", "path", "unlinkPath"} /\ Files(c, kind, n, result)
    BY <1>5 DEF OpenPath, WritePath, UnlinkPath, Opens, Closes, Removes
  <2>2. disk'.service = disk.service /\ disk'.env = disk.env
    BY <1>0, <1>5 DEF OpenPath, WritePath, UnlinkPath, Opens, Closes, Removes, Files, Disks
  <2>3. NoEnv' = NoEnv
    BY <2>2 DEF NoEnv
  <2> QED  BY <1>0, <1>1, <2>1, <2>2, <2>3 DEF EnvPresent
<1>6. CASE UnlinkService(c, n)
  <2>1. Files(c, "unlinkService", n, [disk EXCEPT !.service[n] = NoUnit])
    BY <1>6 DEF UnlinkService, Removes
  <2>2. disk'.service = [disk.service EXCEPT ![n] = NoUnit] /\ disk'.env = disk.env
    BY <1>0, <2>1 DEF Files, Disks
  <2>3. /\ ~disk'.service[n].env
        /\ \A m \in Names : disk'.service[m] = disk.service[m] \/ ~disk'.service[m].env
    BY <1>0, <2>2 DEF Disks, NoUnit
  <2>4. NoEnv \cup {n} \subseteq NoEnv'
    BY <2>3 DEF NoEnv
  <2>5. \A m \in Names : disk'.service[m].env => m \in disk'.env
    BY <1>0, <2>2, <2>3 DEF EnvPresent
  <2> QED  BY <1>1, <2>1, <2>2, <2>4, <2>5
<1>7. CASE UnlinkHelper(c, n)
  <2>1. PICK result : /\ Files(c, "unlinkHelper", n, result)
                      /\ result = IF n \in Apps THEN [disk EXCEPT !.service[HelperOf[n]] = NoUnit]
                                  ELSE disk
    BY <1>7 DEF UnlinkHelper, Removes
  <2>2. /\ \/ disk'.service = [disk.service EXCEPT ![HelperOf[n]] = NoUnit]
           \/ disk'.service = disk.service
        /\ disk'.env = disk.env
    BY <1>0, <2>1 DEF Files, Disks
  <2>3. \A m \in Names : disk'.service[m] = disk.service[m] \/ ~disk'.service[m].env
    BY <1>0, <2>2 DEF Disks, NoUnit
  <2>4. NoEnv \subseteq NoEnv'
    BY <2>3 DEF NoEnv
  <2>5. \A m \in Names : disk'.service[m].env => m \in disk'.env
    BY <1>0, <2>2, <2>3 DEF EnvPresent
  <2> QED  BY <1>1, <2>1, <2>2, <2>4, <2>5
<1>8. CASE UnlinkEnv(c, n)
  <2>1. Files(c, "unlinkEnv", n, [disk EXCEPT !.env = @ \ {n}])
    BY <1>8 DEF UnlinkEnv, Removes
  <2>2. disk'.service = disk.service /\ disk'.env = disk.env \ {n}
    BY <1>0, <2>1 DEF Files, Disks
  <2>3. NoEnv' = NoEnv
    BY <2>2 DEF NoEnv
  <2>4. n \in NoEnv
    <3>1. Head(todo[c]) \in Of("unlinkEnv")
      BY <2>1, FilesHead DEF Of
    <3> QED  BY <1>0, <2>1, <3>1, FilesHead, HeadPrepared DEF RegType
  <2>5. \A m \in Names : disk'.service[m].env => m \in disk'.env
    BY <1>0, <2>2, <2>4 DEF EnvPresent, NoEnv
  <2> QED  BY <1>1, <2>1, <2>2, <2>3, <2>5 DEF Unlinks
<1> QED  BY <1>2, <1>3, <1>4, <1>5, <1>6, <1>7, <1>8 DEF FileStep

LEMMA InitPrepared ==
  ASSUME Init, NEW late, NEW early, NEW done
  PROVE  AllPrepared(late, early, done)
BY NothingLeft DEF Init, AllPrepared

LEMMA EnvInit == Init => EnvInv
<1> SUFFICES ASSUME Init PROVE EnvInv
  OBVIOUS
<1>1. EnvPresent
  BY DEF Init, EnvPresent, NoUnit
<1> QED  BY <1>1, InitPrepared DEF EnvInv

LEMMA EnvNext == RegType /\ Apart /\ EnvInv /\ [Next]_vars => EnvInv'
<1> SUFFICES ASSUME RegType, Apart, EnvInv, [Next]_vars PROVE EnvInv'
  OBVIOUS
<1>1. CASE \E c \in Clients, n \in Names : FileStep(c, n) /\ ~FileFails(c, n) /\ ~WriteLost(c, n)
  BY <1>1, EnvFile
<1>2. CASE ~ \E c \in Clients, n \in Names : FileStep(c, n) /\ ~FileFails(c, n) /\ ~WriteLost(c, n)
  <2>1. /\ Ordering(EnvUnits, "env") /\ Ordering(Of("unlinkEnv"), "unlinkService")
        /\ AllPrepared(EnvUnits, "env", disk.env)
        /\ AllPrepared(Of("unlinkEnv"), "unlinkService", NoEnv)
    BY DEF Ordering, EnvInv
  <2>2. /\ disk' = disk
        /\ \A x \in Clients : Prepared(todo'[x], EnvUnits, "env", disk.env)
    BY <1>2, <2>1, QuietOrder
  <2>3. \A x \in Clients : Prepared(todo'[x], Of("unlinkEnv"), "unlinkService", NoEnv)
    BY <1>2, <2>1, QuietOrder
  <2> QED  BY <2>2, <2>3 DEF EnvInv, EnvPresent, AllPrepared, NoEnv
<1> QED  BY <1>1, <1>2

LEMMA AlwaysApart == Spec => []Apart
<1>1. Init => Apart
  BY InitApart
<1>2. RegType /\ Apart /\ [Next]_vars => Apart'
  BY NextApart
<1> QED  BY <1>1, <1>2, AlwaysTyped, PTL DEF Spec

\* A service file never names an environment file that is not there, whatever
\* the commands, of however many clients, and wherever one fails or is killed:
\* unit_gen_create_service writes .env first, and unit_gen_delete unlinks it last.
THEOREM SecretsInPlace == Spec => []EnvPresent
<1>1. Init => EnvInv
  BY EnvInit
<1>2. RegType /\ Apart /\ EnvInv /\ [Next]_vars => EnvInv'
  BY EnvNext
<1>3. EnvInv => EnvPresent
  BY DEF EnvInv
<1> QED  BY <1>1, <1>2, <1>3, AlwaysTyped, AlwaysApart, PTL DEF Spec

-----------------------------------------------------------------------------
(* The watch and the companion it starts. *)

\* The apps that have their companion, if only an empty one that is being written or
\* was cut short, and the names without a .path.
Accompanied == {a \in Apps : \/ disk.service[HelperOf[a]] = Companion
                             \/ disk.service[HelperOf[a]] = Empty /\ a \in torn.helper}
Unwatched == Names \ disk.path

PathInv == /\ disk.path \subseteq Accompanied
           /\ AllPrepared(Of("path"), "openHelper", Accompanied)
           /\ AllPrepared(Of("unlinkHelper"), "unlinkPath", Unwatched)

\* No app is named like another's companion, and companions are not deleted as
\* apps.
OwnCompanions == ~Everything /\ \A a \in Apps : HelperOf[a] \notin Apps

LEMMA PathFile ==
  ASSUME OwnCompanions, RegType, Apart, PathInv, NEW c \in Clients, NEW n \in Names,
         FileStep(c, n), ~FileFails(c, n), ~WriteLost(c, n)
  PROVE  PathInv'
<1>0. /\ disk \in Disks /\ torn \in Torn /\ HelperOf \in [Apps -> Names] /\ TodoType
      /\ \A a, b \in Apps : HelperOf[a] = HelperOf[b] => a = b
      /\ Ordering(Of("path"), "openHelper") /\ Ordering(Of("unlinkHelper"), "unlinkPath")
      /\ \A s \in Of("path") : s.do \in Writes
      /\ \A s \in Of("unlinkHelper") : s.do \in Unlinks
      /\ AllPrepared(Of("path"), "openHelper", Accompanied)
      /\ AllPrepared(Of("unlinkHelper"), "unlinkPath", Unwatched)
      /\ disk.path \subseteq Accompanied /\ Deletable = Apps
  BY RegistryAssumption
     DEF RegType, Ordering, Of, Writes, Unlinks, PathInv, OwnCompanions, Deletable
\* What a step has to leave.
<1>1. ASSUME NEW kind, NEW result, Files(c, kind, n, result),
             disk'.path \subseteq Accompanied',
             \/ Accompanied \subseteq Accompanied' /\ kind # "openHelper"
             \/ kind = "openHelper" /\ Accompanied \cup {n} \subseteq Accompanied'
             \/ kind \in Unlinks /\ Accompanied \ {n} \subseteq Accompanied',
             \/ disk'.path \subseteq disk.path /\ kind # "unlinkPath"
             \/ kind = "unlinkPath" /\ disk'.path = disk.path \ {n}
             \/ kind \in Writes /\ disk'.path \subseteq disk.path \cup {n}
      PROVE  PathInv'
  <2>1. \A x \in Clients : Prepared(todo'[x], Of("path"), "openHelper", Accompanied')
    <3>1. PICK done, later : done = Accompanied /\ later = Accompanied'
      OBVIOUS
    <3>2. Passes(done, later, n)
      BY <1>1, <3>1 DEF Passes
    <3>3. \/ n \in later
          \/ n \notin done /\ kind # "openHelper"
          \/ kind \in Unlinks /\ \A s \in Of("path") : s.do \in Writes
      BY <1>0, <1>1, <3>1
    <3>4. AllPrepared(Of("path"), "openHelper", done)
      BY <1>0, <3>1
    <3>5. \A x \in Clients : Prepared(todo'[x], Of("path"), "openHelper", later)
      BY <1>0, <1>1, <3>2, <3>3, <3>4, FilesOrder
    <3> QED  BY <3>1, <3>5
  <2>2. \A x \in Clients : Prepared(todo'[x], Of("unlinkHelper"), "unlinkPath", Unwatched')
    <3>1. PICK done, later : done = Unwatched /\ later = Unwatched'
      OBVIOUS
    <3>2. Passes(done, later, n)
      BY <1>1, <3>1 DEF Passes, Unwatched
    <3>3. \/ n \in later
          \/ n \notin done /\ kind # "unlinkPath"
          \/ kind \in Writes /\ \A s \in Of("unlinkHelper") : s.do \in Unlinks
      BY <1>0, <1>1, <3>1 DEF Unwatched
    <3>4. AllPrepared(Of("unlinkHelper"), "unlinkPath", done)
      BY <1>0, <3>1
    <3>5. \A x \in Clients : Prepared(todo'[x], Of("unlinkHelper"), "unlinkPath", later)
      BY <1>0, <1>1, <3>2, <3>3, <3>4, FilesOrder
    <3> QED  BY <3>1, <3>5
  <2> QED  BY <1>1, <2>1, <2>2 DEF PathInv, TriggerHasHelper, AllPrepared
<1>2. CASE WriteEnv(c, n) \/ UnlinkEnv(c, n)
  <2>1. PICK kind, result : kind \in {"env", "unlinkEnv"} /\ Files(c, kind, n, result)
    BY <1>2 DEF WriteEnv, UnlinkEnv, Removes
  <2>2. disk'.service = disk.service /\ disk'.path = disk.path /\ torn' = torn
    BY <1>0, <1>2 DEF WriteEnv, UnlinkEnv, Removes, Files, Disks
  <2>3. Accompanied' = Accompanied
    BY <2>2 DEF Accompanied
  <2> QED  BY <1>0, <1>1, <2>1, <2>2, <2>3
<1>3. CASE OpenService(c, n) \/ WriteService(c, n) \/ UnlinkService(c, n)
  <2>1. PICK kind, result : /\ kind \in {"openService", "service", "unlinkService"}
                            /\ Files(c, kind, n, result)
    BY <1>3 DEF OpenService, WriteService, UnlinkService, Opens, Closes, Removes
  <2>2. n \in Apps
    BY <1>0, <2>1, FilesHead, StepType DEF Writes, Unlinks
  <2>3. /\ \A a \in Apps : disk'.service[HelperOf[a]] = disk.service[HelperOf[a]]
        /\ disk'.path = disk.path /\ disk.path \subseteq Apps
    BY <1>0, <1>3, <2>2 DEF OpenService, WriteService, UnlinkService, Opens, Closes, Removes,
                            Files, Disks, OwnCompanions
  <2>4. torn'.helper = torn.helper
    BY <1>0, <1>3 DEF OpenService, WriteService, UnlinkService, Opens, Closes, Removes, Torn
  <2>5. Accompanied' = Accompanied
    BY <2>3, <2>4 DEF Accompanied
  <2> QED  BY <1>0, <1>1, <2>1, <2>3, <2>5
<1>4. CASE OpenHelper(c, n) \/ WriteHelper(c, n)
  <2>1. PICK kind, unit :
          /\ Files(c, kind, n, [disk EXCEPT !.service[HelperOf[n]] = unit])
          /\ \/ /\ kind = "openHelper" /\ unit = Empty
                /\ torn' = [torn EXCEPT !["helper"] = @ \cup {n}]
             \/ /\ kind = "helper" /\ unit = Companion
                /\ torn' = [torn EXCEPT !["helper"] = @ \ {n}]
    BY <1>4 DEF OpenHelper, WriteHelper, Opens, Closes
  <2>2. n \in Apps
    BY <1>0, <2>1, FilesHead, StepType DEF Writes
  <2>3. /\ disk'.service = [disk.service EXCEPT ![HelperOf[n]] = unit]
        /\ disk'.path = disk.path /\ disk.path \subseteq Apps
    BY <1>0, <2>1 DEF Files, Disks
  <2>4. /\ disk'.service[HelperOf[n]] = unit
        /\ \A a \in Apps \ {n} : disk'.service[HelperOf[a]] = disk.service[HelperOf[a]]
    BY <1>0, <2>2, <2>3 DEF Disks
  <2>5. \/ unit = Companion
        \/ unit = Empty /\ n \in torn'.helper
    BY <1>0, <2>1 DEF Torn
  <2>6. \A a \in Apps \ {n} : a \in torn.helper => a \in torn'.helper
    BY <1>0, <2>1 DEF Torn
  <2>7. Accompanied \cup {n} \subseteq Accompanied'
    <3>1. n \in Accompanied'
      <4>1. disk'.service[HelperOf[n]] = unit
        BY <2>4
      <4>2. \/ disk'.service[HelperOf[n]] = Companion
            \/ disk'.service[HelperOf[n]] = Empty /\ n \in torn'.helper
        BY <4>1, <2>5
      <4> QED  BY <2>2, <4>2 DEF Accompanied
    <3>2. ASSUME NEW a \in Accompanied, a # n
          PROVE  a \in Accompanied'
      <4>1. disk'.service[HelperOf[a]] = disk.service[HelperOf[a]] /\ a \in Apps
        BY <2>4, <3>2 DEF Accompanied
      <4>2. a \in torn.helper => a \in torn'.helper
        BY <2>6, <3>2, <4>1
      <4> QED  BY <3>2, <4>1, <4>2 DEF Accompanied
    <3> QED  BY <3>1, <3>2
  <2>8. disk'.path \subseteq Accompanied'
    BY <1>0, <2>3, <2>7
  <2>9. kind \in {"openHelper", "helper"}
    BY <2>1
  <2> QED  BY <1>1, <2>1, <2>3, <2>7, <2>8, <2>9
<1>5. CASE WritePath(c, n)
  <2>1. Files(c, "path", n, [disk EXCEPT !.path = @ \cup {n}])
    BY <1>5 DEF WritePath, Closes
  <2>2. disk'.service = disk.service /\ disk'.path = disk.path \cup {n} /\ torn'.helper = torn.helper
    BY <1>0, <1>5, <2>1 DEF Files, Disks, WritePath, Closes, Torn
  <2>3. Accompanied' = Accompanied
    BY <2>2 DEF Accompanied
  <2>4. n \in Accompanied
    <3>1. Head(todo[c]) \in Of("path")
      BY <2>1, FilesHead DEF Of
    <3> QED  BY <1>0, <2>1, <3>1, FilesHead, HeadPrepared
  <2>5. disk'.path \subseteq Accompanied'
    BY <1>0, <2>2, <2>3, <2>4
  <2> QED  BY <1>1, <2>1, <2>2, <2>3, <2>5 DEF Writes
<1>6. CASE OpenPath(c, n) \/ UnlinkPath(c, n)
  <2>1. PICK kind, result : kind \in {"openPath", "unlinkPath"} /\ Files(c, kind, n, result)
    BY <1>6 DEF OpenPath, UnlinkPath, Opens, Removes
  <2>2. /\ disk'.service = disk.service /\ disk'.path = disk.path \ {n}
        /\ torn'.helper = torn.helper
    BY <1>0, <1>6 DEF OpenPath, UnlinkPath, Opens, Removes, Files, Disks, Torn
  <2>3. Accompanied' = Accompanied
    BY <2>2 DEF Accompanied
  <2>4. disk'.path \subseteq Accompanied'
    BY <1>0, <2>2, <2>3
  <2> QED  BY <1>1, <2>1, <2>2, <2>3, <2>4
<1>7. CASE UnlinkHelper(c, n)
  <2>1. PICK result : Files(c, "unlinkHelper", n, result)
    BY <1>7 DEF UnlinkHelper, Removes
  <2>2. n \in Apps
    BY <1>0, <2>1, FilesHead, StepType DEF Unlinks
  <2>3. /\ disk'.service = [disk.service EXCEPT ![HelperOf[n]] = NoUnit]
        /\ disk'.path = disk.path /\ disk.path \subseteq Apps /\ torn' = torn
    BY <1>0, <1>7, <2>2 DEF UnlinkHelper, Removes, Files, Disks
  <2>4. n \notin disk.path
    <3>1. Head(todo[c]) \in Of("unlinkHelper")
      BY <2>1, FilesHead DEF Of
    <3>2. n \in Unwatched
      BY <1>0, <2>1, <3>1, FilesHead, HeadPrepared
    <3> QED  BY <3>2 DEF Unwatched
  <2>5. \A a \in Apps \ {n} : disk'.service[HelperOf[a]] = disk.service[HelperOf[a]]
    BY <1>0, <2>2, <2>3 DEF Disks
  <2>6. Accompanied \ {n} \subseteq Accompanied'
    BY <2>3, <2>5 DEF Accompanied
  <2>7. disk'.path \subseteq Accompanied'
    BY <1>0, <2>3, <2>4, <2>6
  <2> QED  BY <1>1, <2>1, <2>3, <2>6, <2>7 DEF Unlinks
<1> QED  BY <1>2, <1>3, <1>4, <1>5, <1>6, <1>7 DEF FileStep

LEMMA PathInit == Init => PathInv
<1> SUFFICES ASSUME Init PROVE PathInv
  OBVIOUS
<1>1. disk.path = {}
  BY DEF Init
<1> QED  BY <1>1, InitPrepared DEF PathInv

LEMMA PathNext == OwnCompanions /\ RegType /\ Apart /\ PathInv /\ [Next]_vars => PathInv'
<1> SUFFICES ASSUME OwnCompanions, RegType, Apart, PathInv, [Next]_vars PROVE PathInv'
  OBVIOUS
<1>1. CASE \E c \in Clients, n \in Names : FileStep(c, n) /\ ~FileFails(c, n) /\ ~WriteLost(c, n)
  BY <1>1, PathFile
<1>2. CASE ~ \E c \in Clients, n \in Names : FileStep(c, n) /\ ~FileFails(c, n) /\ ~WriteLost(c, n)
  <2>1. /\ Ordering(Of("path"), "openHelper") /\ Ordering(Of("unlinkHelper"), "unlinkPath")
        /\ AllPrepared(Of("path"), "openHelper", Accompanied)
        /\ AllPrepared(Of("unlinkHelper"), "unlinkPath", Unwatched)
    BY DEF Ordering, PathInv
  <2>2. /\ disk' = disk /\ torn' = torn
        /\ \A x \in Clients : Prepared(todo'[x], Of("path"), "openHelper", Accompanied)
    BY <1>2, <2>1, QuietOrder, QuietTorn
  <2>3. \A x \in Clients : Prepared(todo'[x], Of("unlinkHelper"), "unlinkPath", Unwatched)
    BY <1>2, <2>1, QuietOrder
  <2> QED  BY <2>2, <2>3 DEF PathInv, AllPrepared, Accompanied, Unwatched
<1> QED  BY <1>1, <1>2

\* As long as nobody names an app like another's companion or deletes "all" (which
\* takes companions for apps), a .path file always has the companion it triggers,
\* whole, or empty because it is being written or writing it was cut short:
\* unit_gen_create_path comes after unit_gen_create_restart_service and does not
\* come at all when that fails, and unit_gen_delete unlinks .path first.
THEOREM WatchesAccompanied == OwnCompanions /\ Spec => []TriggerHasHelper
<1>1. Init => PathInv
  BY PathInit
<1>2. OwnCompanions /\ RegType /\ Apart /\ PathInv /\ [Next]_vars => PathInv'
  BY PathNext
<1>3. PathInv => TriggerHasHelper
  BY DEF PathInv, TriggerHasHelper, Accompanied
<1>4. ASSUME OwnCompanions
      PROVE  RegType /\ Apart /\ PathInv /\ [Next]_vars => PathInv'
  BY <1>2, <1>4
<1>5. SUFFICES ASSUME OwnCompanions PROVE Spec => []TriggerHasHelper
  OBVIOUS
<1>6. RegType /\ Apart /\ PathInv /\ [Next]_vars => PathInv'
  BY <1>4, <1>5
<1> QED  BY <1>1, <1>3, <1>6, AlwaysTyped, AlwaysApart, PTL DEF Spec

-----------------------------------------------------------------------------
(* What the manager knows of the files. *)

\* The manager has n as it is on disk, as it was, or not at all.
Current(n) == mgr.loaded[n] \in {NoUnit, disk.service[n]}

\* Some client has yet to reload.
WillReload == \E x \in Clients : \E i \in 1 .. Len(todo[x]) : todo[x][i].do = "reload"

Smooth == used.crashes = 0 /\ used.failures = 0

FreshInv == Smooth => /\ \A x \in Clients : Reloaded(todo[x])
                      /\ WillReload \/ \A m \in Names : Current(m)

\* A step that is not dropped stays.
LEMMA LeftStays ==
  ASSUME NEW q \in Seq(AnyStep), q # << >>, NEW r \in Seq(AnyStep), NEW D, Leaves(r, q, D),
         NEW k \in 2 .. Len(q), q[k] \notin D
  PROVE  \E i \in 1 .. Len(r) : r[i] = q[k]
<1>0. PICK t, m : t = Tail(q) /\ m = Len(Tail(q))
  OBVIOUS
<1>1. /\ m \in Nat /\ Len(q) = m + 1
      /\ \A j \in 1 .. m : t[j] = q[j + 1]
  BY <1>0, HeadTailProperties, LenProperties
<1>2. PICK f : Picks(f, r, m, t, D)
  BY <1>0 DEF Leaves
<1>3. k - 1 \in 1 .. m /\ t[k - 1] = q[k]
  BY <1>1
<1>4. PICK i \in 1 .. Len(r) : f[i] = k - 1
  BY <1>2, <1>3 DEF Picks
<1> QED  BY <1>2, <1>3, <1>4 DEF Picks

\* A reload that is ahead stays ahead, and each change keeps its own.
LEMMA MovedReload ==
  ASSUME TodoType, NEW c \in Clients, NEW kind, NEW n, NEW D, Moved(c, kind, n, D),
         \A s \in D : s.do # "reload"
  PROVE  /\ \A x \in Clients : Reloaded(todo[x]) => Reloaded(todo'[x])
         /\ WillReload /\ kind # "reload" => WillReload'
         /\ Reloaded(todo[c]) /\ kind \in Changes => WillReload'
<1>1. PICK r \in Seq(AnyStep) : Leaves(r, todo[c], D) /\ todo' = [todo EXCEPT ![c] = r]
  BY DEF Moved
<1>2. /\ todo'[c] = r /\ \A x \in Clients \ {c} : todo'[x] = todo[x]
  BY <1>1 DEF TodoType
<1>3. PICK q : q = todo[c]
  OBVIOUS
<1>4. /\ q \in Seq(AnyStep) /\ q # << >> /\ Len(q) \in Nat /\ 1 \in 1 .. Len(q)
      /\ q[1].do = kind /\ Leaves(r, q, D)
  BY <1>1, <1>3, HeadIs DEF Moved
<1>5. ASSUME NEW k \in 2 .. Len(q), q[k].do = "reload"
      PROVE  WillReload'
  <2>1. PICK i \in 1 .. Len(r) : r[i] = q[k]
    BY <1>4, <1>5, LeftStays
  <2> QED  BY <2>1, <1>2, <1>5 DEF WillReload
<1>6. Reloaded(q) => Reloaded(r)
  <2> SUFFICES ASSUME Reloaded(q), NEW i \in 1 .. Len(r), r[i].do \in Changes
               PROVE  \E l \in (i + 1) .. Len(r) : r[l].do = "reload"
    BY DEF Reloaded
  <2>1. PICK k \in 2 .. Len(q) :
          /\ r[i] = q[k] /\ r[i] \notin D
          /\ \A j \in 2 .. (k - 1) : q[j] \in D \/ \E l \in 1 .. (i - 1) : r[l] = q[j]
          /\ \A j \in (k + 1) .. Len(q) :
               q[j] \in D \/ \E l \in (i + 1) .. Len(r) : r[l] = q[j]
    <3>1. q \in Seq(AnyStep) /\ q # << >> /\ r \in Seq(AnyStep) /\ Leaves(r, q, D)
      BY <1>4
    <3> QED  BY ONLY <3>1, i \in 1 .. Len(r), LeavesPlaces
  <2>2. k \in 1 .. Len(q)
    BY <2>1, <1>4
  <2>3. PICK j \in (k + 1) .. Len(q) : q[j].do = "reload"
    BY <2>1, <2>2 DEF Reloaded
  <2> QED  BY <2>1, <2>3
<1>7. \A x \in Clients : Reloaded(todo[x]) => Reloaded(todo'[x])
  BY <1>2, <1>3, <1>6
<1>8. WillReload /\ kind # "reload" => WillReload'
  <2> SUFFICES ASSUME WillReload, kind # "reload" PROVE WillReload'
    OBVIOUS
  <2>1. PICK x \in Clients : \E i \in 1 .. Len(todo[x]) : todo[x][i].do = "reload"
    BY DEF WillReload
  <2>2. PICK i \in 1 .. Len(todo[x]) : todo[x][i].do = "reload"
    BY <2>1
  <2>3. CASE x = c
    <3>1. i \in 2 .. Len(q) /\ q[i].do = "reload"
      BY <2>2, <2>3, <1>3, <1>4
    <3> QED  BY <3>1, <1>5
  <2>4. CASE x # c
    BY <2>2, <2>4, <1>2 DEF WillReload
  <2> QED  BY <2>3, <2>4
<1>9. Reloaded(todo[c]) /\ kind \in Changes => WillReload'
  <2> SUFFICES ASSUME Reloaded(q), kind \in Changes PROVE WillReload'
    BY <1>3
  <2>1. PICK j \in (1 + 1) .. Len(q) : q[j].do = "reload"
    BY <1>4 DEF Reloaded
  <2> QED  BY <2>1, <1>5
<1> QED  BY <1>7, <1>8, <1>9

\* A job loads a unit as it is on disk.
LEMMA WithJobLoads ==
  ASSUME RegType, NEW n \in Names, NEW asked
  PROVE  \A m \in Names : WithJob(n, asked).loaded[m] \in {mgr.loaded[m], disk.service[m]}
BY DEF RegType, WithJob, Lookup, Managers

\* What the manager loads anew is what is on disk.
LoadsCurrent == \A m \in Names : mgr'.loaded[m] \in {mgr.loaded[m], disk.service[m]}

LEMMA CallLoads ==
  ASSUME RegType, NEW c \in Clients, NEW n \in Names, CallStep(c, n)
  PROVE  LoadsCurrent
<1>0. mgr \in Managers /\ disk \in Disks
  BY DEF RegType
<1>1. CASE Reload(c, n)
  BY <1>0, <1>1 DEF Reload, Calls, Managers, LoadsCurrent
<1>2. CASE mgr'.loaded = mgr.loaded
  BY <1>2 DEF LoadsCurrent
<1>3. CASE \E asked : mgr' = WithJob(n, asked)
  BY <1>3, WithJobLoads DEF LoadsCurrent
<1>4. StartPath(c, n) \/ StopPath(c, n) \/ Await(c, n) => mgr'.loaded = mgr.loaded
  BY <1>0 DEF StartPath, StopPath, Await, Calls, Managers
<1>5. Enable(c, n) \/ Disable(c, n) => mgr'.loaded = mgr.loaded
  BY <1>0 DEF Enable, Disable, Calls, Managers
<1>6. Refused(c, n) \/ CallFails(c, n) \/ End(c, n) \/ Saved(c, n) => mgr'.loaded = mgr.loaded
  BY DEF Refused, CallFails, End, Saved
<1>7. \/ Start(c, n) \/ Restart(c, n) \/ Stop(c, n)
      => mgr' = mgr \/ \E asked : mgr' = WithJob(n, asked)
  BY DEF Start, Restart, Stop, Calls
<1> QED  BY <1>1, <1>2, <1>3, <1>4, <1>5, <1>6, <1>7 DEF CallStep

LEMMA ManagerLoads ==
  ASSUME RegType,
         \/ \E n \in Names : Complete(n)
         \/ \E a \in Apps : CompanionRuns(a) \/ Trigger(a)
  PROVE  LoadsCurrent
<1>0. mgr \in Managers /\ disk \in Disks /\ Apps \subseteq Names /\ HelperOf \in [Apps -> Names]
  BY RegistryAssumption DEF RegType
<1>1. ASSUME NEW n \in Names, Complete(n)
      PROVE  LoadsCurrent
  BY <1>0, <1>1 DEF Complete, Managers, LoadsCurrent
<1>2. ASSUME NEW a \in Apps, CompanionRuns(a)
      PROVE  LoadsCurrent
  <2>1. PICK asked : asked = IF Lookup(a) \in Unusable THEN mgr ELSE WithJob(a, "restart")
    OBVIOUS
  <2>2. asked \in Managers
    BY <1>0, <2>1, WithJobType
  <2>3. mgr'.loaded = asked.loaded
    BY <1>2, <2>1, <2>2 DEF CompanionRuns, Managers
  <2>4. \A m \in Names : asked.loaded[m] \in {mgr.loaded[m], disk.service[m]}
    BY <1>0, <2>1, WithJobLoads
  <2> QED  BY <2>3, <2>4 DEF LoadsCurrent
<1>3. ASSUME NEW a \in Apps, Trigger(a)
      PROVE  LoadsCurrent
  <2>1. \A m \in Names : WithJob(HelperOf[a], "start").loaded[m]
                           \in {mgr.loaded[m], disk.service[m]}
    BY <1>0, WithJobLoads
  <2>2. [mgr EXCEPT !.watching = @ \ {a}].loaded = mgr.loaded
    BY <1>0 DEF Managers
  <2> QED  BY <1>3, <2>1, <2>2 DEF Trigger, LoadsCurrent
<1> QED  BY <1>1, <1>2, <1>3

\* Nothing becomes stale where the files stay and only what is on disk is loaded.
LEMMA StaysCurrent ==
  ASSUME disk' = disk, LoadsCurrent, NEW m \in Names, Current(m)
  PROVE  Current(m)'
BY DEF LoadsCurrent, Current

LEMMA InitFresh == Init => FreshInv
<1> SUFFICES ASSUME Init PROVE FreshInv
  OBVIOUS
<1>1. Reloaded(<< >>)
  BY DEF Reloaded
<1> QED  BY <1>1 DEF Init, FreshInv, Current

LEMMA FreshCall ==
  ASSUME RegType, FreshInv, Smooth', Smooth, NEW c \in Clients, NEW n \in Names,
         CallStep(c, n)
  PROVE  FreshInv'
<1>0. TodoType
  BY DEF RegType
<1>1. PICK kind, D : Moved(c, kind, n, D) /\ \A s \in D : s.do \in {"finish", "saved"}
  BY <1>0, CallMoves
<1>2. disk' = disk /\ LoadsCurrent
  BY <1>0, CallMoves, CallLoads
<1>3. \A s \in D : s.do # "reload"
  BY <1>1
<1>4. \A x \in Clients : Reloaded(todo'[x])
  BY <1>0, <1>1, <1>3, MovedReload DEF FreshInv
<1>5. WillReload' \/ \A m \in Names : Current(m)'
  <2>1. CASE kind = "reload"
    <3>1. Doing(c, "reload", n, todo'[c]) \/ Head(todo[c]).do = "reload"
      BY <1>1, <2>1 DEF Moved
    <3>2. ~CallFails(c, n)
      <4> SUFFICES ASSUME CallFails(c, n) PROVE FALSE
        OBVIOUS
      <4>1. used'.failures = used.failures + 1
        BY DEF CallFails, RegType, Uses
      <4> QED  BY <4>1 DEF Smooth
    <3>3. Reload(c, n)
      BY <1>1, <2>1, <3>2
         DEF Moved, CallStep, Start, StartPath, Stop, StopPath, Await, Restart, Enable,
             Disable, Refused, End, Saved, Calls, Step, Doing
    <3>4. mgr'.loaded = disk.service
      BY <3>3 DEF Reload, Calls, RegType, Managers
    <3> QED  BY <1>2, <3>4 DEF Current
  <2>2. CASE kind # "reload"
    <3>1. WillReload => WillReload'
      BY <1>0, <1>1, <1>3, <2>2, MovedReload
    <3>2. (\A m \in Names : Current(m)) => \A m \in Names : Current(m)'
      BY <1>2, StaysCurrent
    <3> QED  BY <3>1, <3>2 DEF FreshInv
  <2> QED  BY <2>1, <2>2
<1> QED  BY <1>4, <1>5 DEF FreshInv

LEMMA FreshFile ==
  ASSUME RegType, FreshInv, Smooth', Smooth, NEW c \in Clients, NEW n \in Names,
         FileStep(c, n)
  PROVE  FreshInv'
<1>0. TodoType /\ disk \in Disks
  BY DEF RegType
<1>1. ~FileFails(c, n)
  <2> SUFFICES ASSUME FileFails(c, n) PROVE FALSE
    OBVIOUS
  <2>1. used'.failures = used.failures + 1
    BY DEF FileFails, RegType, Uses
  <2> QED  BY <2>1 DEF Smooth
<1>2. ASSUME NEW kind, NEW result, Files(c, kind, n, result), kind # "reload",
             kind \in Changes \/ disk'.service = disk.service
      PROVE  FreshInv'
  <2>1. Moved(c, kind, n, {}) /\ mgr' = mgr
    BY <1>0, <1>2, DoingTail DEF Files, Step
  <2>2. \A x \in Clients : Reloaded(todo'[x])
    BY <1>0, <2>1, MovedReload DEF FreshInv
  <2>3. WillReload' \/ \A m \in Names : Current(m)'
    <3>1. CASE kind \in Changes
      BY <1>0, <2>1, <3>1, MovedReload DEF FreshInv
    <3>2. CASE disk'.service = disk.service
      <4>1. WillReload => WillReload'
        BY <1>0, <1>2, <2>1, MovedReload
      <4>2. (\A m \in Names : Current(m)) => \A m \in Names : Current(m)'
        BY <2>1, <3>2 DEF Current
      <4> QED  BY <4>1, <4>2 DEF FreshInv
    <3> QED  BY <1>2, <3>1, <3>2
  <2> QED  BY <2>2, <2>3 DEF FreshInv
<1>3. CASE \E kind, result : Files(c, kind, n, result) /\ kind \in Changes
  BY <1>2, <1>3 DEF Changes
<1>4. CASE \/ WriteEnv(c, n) \/ OpenPath(c, n) \/ WritePath(c, n)
           \/ UnlinkPath(c, n) \/ UnlinkEnv(c, n)
  <2>1. disk'.service = disk.service
    BY <1>0, <1>4 DEF WriteEnv, OpenPath, WritePath, UnlinkPath, UnlinkEnv, Opens, Closes,
                      Removes, Files, Disks
  <2>2. \E kind, result : Files(c, kind, n, result) /\ kind # "reload"
    BY <1>4 DEF WriteEnv, OpenPath, WritePath, UnlinkPath, UnlinkEnv, Opens, Closes, Removes
  <2> QED  BY <1>2, <2>1, <2>2
<1>5. \/ OpenService(c, n) \/ WriteService(c, n) \/ OpenHelper(c, n) \/ WriteHelper(c, n)
      \/ UnlinkService(c, n) \/ UnlinkHelper(c, n)
      => \E kind, result : Files(c, kind, n, result) /\ kind \in Changes
  BY DEF OpenService, WriteService, OpenHelper, WriteHelper, UnlinkService, UnlinkHelper,
         Opens, Closes, Removes, Changes
<1>6. CASE WriteLost(c, n)
  <2>1. PICK kind \in {"service", "helper", "path"} : Moved(c, kind, n, {})
    BY <1>0, <1>6, LostMoves
  <2>2. disk' = disk /\ mgr' = mgr
    BY <1>6 DEF WriteLost
  <2>3. \A x \in Clients : Reloaded(todo'[x])
    BY <1>0, <2>1, MovedReload DEF FreshInv
  <2>4. WillReload => WillReload'
    BY <1>0, <2>1, MovedReload
  <2>5. (\A m \in Names : Current(m)) => \A m \in Names : Current(m)'
    BY <2>2 DEF Current
  <2> QED  BY <2>3, <2>4, <2>5 DEF FreshInv
<1> QED  BY <1>1, <1>3, <1>4, <1>5, <1>6 DEF FileStep

\* A step of a client is counted if it fails, and counts no crash.
LEMMA FailuresGrow ==
  ASSUME used \in Uses, NEW c, NEW n, FileStep(c, n) \/ CallStep(c, n)
  PROVE  /\ used'.crashes = used.crashes
         /\ \/ used'.failures = used.failures
            \/ /\ used'.failures = used.failures + 1
               /\ FileFails(c, n) \/ CallFails(c, n)
<1>1. CASE UNCHANGED used
  BY <1>1
<1>2. CASE FileFails(c, n) \/ CallFails(c, n)
  BY <1>2 DEF FileFails, CallFails, Uses
<1>3. CASE WriteLost(c, n)
  BY <1>3 DEF WriteLost, Uses
<1>4. FileStep(c, n) => FileFails(c, n) \/ WriteLost(c, n) \/ UNCHANGED used
  BY FileStepIs DEF Step
<1>5. CallStep(c, n) => CallFails(c, n) \/ UNCHANGED used
  BY DEF CallStep, Reload, Start, StartPath, Stop, StopPath, Await, Restart, Enable,
         Disable, Refused, End, Saved, Calls, Step
<1> QED  BY <1>1, <1>2, <1>3, <1>4, <1>5

LEMMA FreshNext == RegType /\ FreshInv /\ [Next]_vars => FreshInv'
<1> SUFFICES ASSUME RegType, FreshInv, [Next]_vars, Smooth'
             PROVE  FreshInv'
  BY DEF FreshInv
<1>0. TodoType /\ used \in Uses
  BY DEF RegType
<1>1. CASE UNCHANGED vars
  BY <1>1 DEF FreshInv, Smooth, Current, WillReload, vars
<1>2. ASSUME NEW c \in Clients, NEW command \in Commands, Begin(c, command)
      PROVE  FreshInv'
  <2>1. PICK steps : /\ NewCommand(steps) /\ todo' = [todo EXCEPT ![c] = steps]
                     /\ disk' = disk
    BY <1>2, BeginFacts
  <2>2. todo'[c] = steps /\ \A x \in Clients \ {c} : todo'[x] = todo[x]
    BY <1>0, <2>1 DEF TodoType
  <2>3. Smooth /\ mgr' = mgr /\ todo[c] = << >>
    BY <1>0, <1>2 DEF Begin, Smooth, Uses
  <2>4. \A x \in Clients : Reloaded(todo'[x])
    BY <2>1, <2>2, <2>3 DEF FreshInv, NewCommand
  <2>5. WillReload => WillReload'
    <3> SUFFICES ASSUME WillReload PROVE WillReload'
      OBVIOUS
    <3>1. PICK x \in Clients : \E i \in 1 .. Len(todo[x]) : todo[x][i].do = "reload"
      BY DEF WillReload
    <3>2. x # c
      BY <2>3, <3>1, EmptySeq
    <3> QED  BY <2>2, <3>1, <3>2 DEF WillReload
  <2>6. (\A m \in Names : Current(m)) => \A m \in Names : Current(m)'
    BY <2>1, <2>3 DEF Current
  <2> QED  BY <2>3, <2>4, <2>5, <2>6 DEF FreshInv
<1>3. ASSUME NEW c \in Clients, Killed(c)
      PROVE  FreshInv'
  <2>1. used'.crashes = used.crashes + 1 /\ used.crashes \in Nat
    BY <1>0, <1>3 DEF Killed, Uses
  <2> QED  BY <2>1 DEF Smooth
<1>4. ASSUME NEW c \in Clients, NEW n \in Names, FileStep(c, n) \/ CallStep(c, n)
      PROVE  FreshInv'
  <2>1. Smooth
    <3>1. used'.failures = used.failures \/ used'.failures = used.failures + 1
      BY <1>0, <1>4, FailuresGrow
    <3>2. used.failures \in Nat /\ used'.crashes = used.crashes
      BY <1>0, <1>4, FailuresGrow DEF Uses
    <3> QED  BY <3>1, <3>2 DEF Smooth
  <2> QED  BY <1>4, <2>1, FreshFile, FreshCall
<1>5. CASE \/ \E n \in Names : Complete(n)
           \/ \E a \in Apps : CompanionRuns(a) \/ Trigger(a)
  <2>1. UNCHANGED << disk, todo, used, expected, saved, torn >>
    BY <1>5 DEF Complete, CompanionRuns, Trigger
  <2>2. LoadsCurrent
    BY <1>5, ManagerLoads
  <2>3. (\A m \in Names : Current(m)) => \A m \in Names : Current(m)'
    BY <2>1, <2>2, StaysCurrent
  <2> QED  BY <2>1, <2>3 DEF FreshInv, Smooth, WillReload
<1>6. CASE Reboot
  <2>1. \A x \in Clients : todo'[x] = << >>
    BY <1>6 DEF Reboot
  <2>2. Reloaded(<< >>)
    BY DEF Reloaded
  <2>3. mgr'.loaded = disk.service /\ disk' = disk
    BY <1>6 DEF Reboot, RegType, Managers
  <2> QED  BY <2>1, <2>2, <2>3 DEF FreshInv, Current
<1> QED  BY <1>1, <1>2, <1>3, <1>4, <1>5, <1>6 DEF Next

\* Between commands, when none was killed or failed, what the manager has loaded is
\* what is on disk: start_single_app reloads after its files, cmd_delete after the
\* last of its deletions.
THEOREM ManagerFresh == Spec => []LoadedFresh
<1>1. Init => FreshInv
  BY InitFresh
<1>2. RegType /\ FreshInv /\ [Next]_vars => FreshInv'
  BY FreshNext
<1>3. FreshInv => LoadedFresh
  <2> SUFFICES ASSUME FreshInv, Idle, used.crashes = 0, used.failures = 0
               PROVE  \A m \in Names : Current(m)
    BY DEF LoadedFresh, Current
  <2>1. ~WillReload
    BY EmptySeq DEF Idle, WillReload
  <2> QED  BY <2>1 DEF FreshInv, Smooth
<1> QED  BY <1>1, <1>2, <1>3, AlwaysTyped, PTL DEF Spec

-----------------------------------------------------------------------------
(* What the steps left still promise. *)

\* The kinds of the steps on the same name that come before step i.
Before(q, i) == {q[j].do : j \in {k \in 1 .. (i - 1) : q[k].name = q[i].name}}

Kinds == CallKinds \cup Writes \cup Unlinks \cup {"finish"}
Saving == {"enable", "saved"}

\* Which kind of step never follows which, on one name.
Backwards ==
  (Saving \X (Kinds \ Saving)) \cup ((Kinds \ Saving) \X Saving)
  \cup ({"finish"} \X Kinds)
  \cup ({"start", "restart", "startPath"} \X
        {"openService", "service", "openPath", "path", "reload", "start"})
  \cup ({"reload"} \X (Writes \ {"env"}))
  \cup ({"service", "unlinkService"} \X {"openService", "service"})
  \cup ({"helper"} \X {"openHelper", "helper"})
  \cup ({"path"} \X {"openPath", "path", "unlinkPath"})
  \cup ({"startPath"} \X {"unlinkPath"}) \cup ({"unlinkPath"} \X {"stopPath"})

Ordered(q) ==
  \A i, j \in 1 .. Len(q) :
    i < j /\ q[i].name = q[j].name => << q[i].do, q[j].do >> \notin Backwards

MayRun == Programs \cup {Off}

\* A step goes with a promise about the same name.
Fits(s, outcome) ==
  /\ s.do = "service" => s.unit.program \in outcome.running /\ s.unit.program \in Programs
  /\ s.do \in {"openService", "service", "start", "restart"} =>
       outcome.running = MayRun \/ outcome.running \subseteq Programs
  /\ s.do \in {"stop", "unlinkService"} => outcome.running = {Off}
  /\ s.do \in {"path", "startPath"} => TRUE \in outcome.watched
  /\ s.do \in {"unlinkPath", "stopPath"} => FALSE \in outcome.watched

AllFit(q) ==
  \A i, j \in 1 .. Len(q) :
    q[j].do = "finish" /\ q[i].name = q[j].name => Fits(q[i], q[j].outcome)

\* Two steps that are left come in the order they had.
LEMMA LeavesPair ==
  ASSUME NEW S, NEW q \in Seq(S), q # << >>, NEW r \in Seq(S), NEW D, Leaves(r, q, D),
         NEW i \in 1 .. Len(r), NEW j \in 1 .. Len(r)
  PROVE  \E k, l \in 1 .. Len(q) : r[i] = q[k] /\ r[j] = q[l] /\ (i < j => k < l)
<1>0. PICK t, m : t = Tail(q) /\ m = Len(Tail(q))
  OBVIOUS
<1>1. m \in Nat /\ Len(q) = m + 1 /\ \A k \in 1 .. m : t[k] = q[k + 1]
  BY <1>0, HeadTailProperties, LenProperties
<1>2. PICK f : Picks(f, r, m, t, D)
  BY <1>0 DEF Leaves
<1>3. /\ f[i] \in 1 .. m /\ f[j] \in 1 .. m /\ r[i] = t[f[i]] /\ r[j] = t[f[j]]
      /\ i < j => f[i] < f[j]
  BY <1>2 DEF Picks
<1>4. PICK k, l : k = f[i] + 1 /\ l = f[j] + 1
  OBVIOUS
<1>5. k \in 1 .. Len(q) /\ l \in 1 .. Len(q) /\ r[i] = q[k] /\ r[j] = q[l]
  <2>1. \A u \in 1 .. m : u + 1 \in 1 .. Len(q) /\ q[u + 1] = t[u]
    BY <1>1
  <2> QED  BY <2>1, <1>3, <1>4
<1>6. f[i] < f[j] => k < l
  BY <1>1, <1>3, <1>4
<1> QED  BY <1>3, <1>5, <1>6

LEMMA LeavesOrdered ==
  ASSUME NEW q \in Seq(AnyStep), q # << >>, NEW r \in Seq(AnyStep), NEW D, Leaves(r, q, D)
  PROVE  /\ Ordered(q) => Ordered(r)
         /\ AllFit(q) => AllFit(r)
<1>1. ASSUME Ordered(q)
      PROVE  Ordered(r)
  <2> SUFFICES ASSUME NEW i \in 1 .. Len(r), NEW j \in 1 .. Len(r), i < j,
                      r[i].name = r[j].name
               PROVE  << r[i].do, r[j].do >> \notin Backwards
    BY DEF Ordered
  <2>1. PICK k, l \in 1 .. Len(q) : r[i] = q[k] /\ r[j] = q[l] /\ (i < j => k < l)
    BY LeavesPair
  <2> QED  BY <1>1, <2>1 DEF Ordered
<1>2. ASSUME AllFit(q)
      PROVE  AllFit(r)
  <2> SUFFICES ASSUME NEW i \in 1 .. Len(r), NEW j \in 1 .. Len(r), r[j].do = "finish",
                      r[i].name = r[j].name
               PROVE  Fits(r[i], r[j].outcome)
    BY DEF AllFit
  <2>1. PICK k, l \in 1 .. Len(q) : r[i] = q[k] /\ r[j] = q[l] /\ (i < j => k < l)
    BY LeavesPair
  <2> QED  BY <1>2, <2>1 DEF AllFit
<1> QED  BY <1>1, <1>2

\* What comes before a step that is left: what came before it, without the step
\* just taken and the steps dropped.
LEMMA LeavesBefore ==
  ASSUME NEW q \in Seq(AnyStep), q # << >>, NEW r \in Seq(AnyStep), NEW D, Leaves(r, q, D),
         NEW i \in 1 .. Len(r)
  PROVE  \E k \in 2 .. Len(q) :
           /\ r[i] = q[k] /\ r[i] \notin D
           /\ Before(r, i) \subseteq Before(q, k)
           /\ \A kind \in Before(q, k) :
                \/ kind \in Before(r, i)
                \/ q[1].name = r[i].name /\ q[1].do = kind
                \/ \E s \in D : s.name = r[i].name /\ s.do = kind
<1>0. PICK t, m : t = Tail(q) /\ m = Len(Tail(q))
  OBVIOUS
<1>1. /\ m \in Nat /\ Len(q) = m + 1 /\ Len(r) \in Nat
      /\ \A k \in 1 .. m : t[k] = q[k + 1]
  BY <1>0, HeadTailProperties, LenProperties
<1>2. PICK f : Picks(f, r, m, t, D)
  BY <1>0 DEF Leaves
<1>3. PICK k : k = f[i] + 1
  OBVIOUS
<1>4. k \in 2 .. Len(q) /\ f[i] \in 1 .. m /\ r[i] = q[k] /\ r[i] \notin D
  <2>1. f[i] \in 1 .. m /\ r[i] = t[f[i]] /\ r[i] \notin D
    BY <1>2 DEF Picks
  <2> QED  BY <2>1, <1>1, <1>3
<1>5. Before(r, i) \subseteq Before(q, k)
  <2> SUFFICES ASSUME NEW l \in 1 .. (i - 1), r[l].name = r[i].name
               PROVE  r[l].do \in Before(q, k)
    BY DEF Before
  <2>1. l \in 1 .. Len(r) /\ l < i
    BY <1>1
  <2>2. f[l] \in 1 .. m /\ f[l] < f[i] /\ r[l] = t[f[l]]
    BY <1>2, <2>1 DEF Picks
  <2>3. f[l] + 1 \in 1 .. (k - 1) /\ q[f[l] + 1] = r[l]
    <3>1. PICK u : u = f[l]
      OBVIOUS
    <3>2. PICK v : v = f[i]
      OBVIOUS
    <3>3. /\ u \in 1 .. m /\ v \in 1 .. m /\ u < v /\ r[l] = t[u]
          /\ k = v + 1 /\ m \in Nat
      BY <1>1, <1>3, <1>4, <2>2, <3>1, <3>2
    <3>4. u + 1 \in 1 .. (k - 1)
      BY ONLY <3>3
    <3>5. q[u + 1] = t[u]
      BY <1>1, <3>3
    <3> QED  BY <3>1, <3>3, <3>4, <3>5
  <2> QED  BY <1>4, <2>3 DEF Before
<1>6. ASSUME NEW j \in 1 .. (k - 1), q[j].name = q[k].name
      PROVE  \/ q[j].do \in Before(r, i)
             \/ q[1].name = r[i].name /\ q[1].do = q[j].do
             \/ \E s \in D : s.name = r[i].name /\ s.do = q[j].do
  <2>1. CASE j = 1
    BY <2>1, <1>4, <1>6
  <2>2. CASE j # 1 /\ q[j] \in D
    BY <2>2, <1>4, <1>6
  <2>3. CASE j # 1 /\ q[j] \notin D
    <3>1. j - 1 \in 1 .. m /\ t[j - 1] = q[j]
      BY <2>3, <1>1, <1>4
    <3>2. PICK l \in 1 .. Len(r) : f[l] = j - 1 /\ r[l] = q[j]
      BY <1>2, <2>3, <3>1 DEF Picks
    <3>3. f[l] < f[i]
      BY <3>2, <1>1, <1>3, <1>4
    <3>4. ~(i < l) /\ i # l
      <4>1. i < l => f[i] < f[l]
        BY <1>2 DEF Picks
      <4>2. f[i] \in Int /\ f[l] \in Int
        BY <1>1, <1>4, <3>1, <3>2
      <4> QED  BY <3>3, <4>1, <4>2
    <3>5. l \in 1 .. (i - 1)
      BY <3>4, <1>1
    <3> QED  BY <3>2, <3>5, <1>4, <1>6 DEF Before
  <2> QED  BY <2>1, <2>2, <2>3
<1>7. \A kind \in Before(q, k) :
         \/ kind \in Before(r, i)
         \/ q[1].name = r[i].name /\ q[1].do = kind
         \/ \E s \in D : s.name = r[i].name /\ s.do = kind
  BY <1>6 DEF Before
<1> QED  BY <1>4, <1>5, <1>7

\* Client x has step s left, and on the same name steps of the kinds P before it.
Has(x, s, P) ==
  \E i \in 1 .. Len(todo[x]) : todo[x][i] = s /\ Before(todo[x], i) = P

\* A step that is left was left before, and after no other steps than the one just
\* taken and the ones dropped.
LEMMA MovedHas ==
  ASSUME TodoType, Separate, NEW c \in Clients, NEW kind, NEW n, NEW D, Moved(c, kind, n, D),
         \A d \in D : d.name = n,
         NEW x \in Clients, NEW s, NEW P, Has(x, s, P)'
  PROVE  \E O : /\ Has(x, s, O) /\ P \subseteq O
                /\ s.name # n => O = P
                /\ s.name = n => /\ x = c /\ s \notin D /\ kind \in O
                                 /\ \A kd \in O : \/ kd \in P \cup {kind}
                                                  \/ \E d \in D : d.do = kd
<1>1. PICK r \in Seq(AnyStep) : Leaves(r, todo[c], D) /\ todo' = [todo EXCEPT ![c] = r]
  BY DEF Moved
<1>2. /\ todo'[c] = r /\ \A y \in Clients \ {c} : todo'[y] = todo[y]
  BY <1>1 DEF TodoType
<1>3. PICK i \in 1 .. Len(todo'[x]) : todo'[x][i] = s /\ Before(todo'[x], i) = P
  BY DEF Has
<1>4. CASE x # c
  <2>1. todo'[x] = todo[x] /\ todo[x] \in Seq(AnyStep)
    BY <1>2, <1>4 DEF TodoType
  <2>2. Has(x, s, P)
    BY <1>3, <2>1 DEF Has
  <2>3. s.name # n
    <3>1. n \notin Mentions(todo[x])
      BY <1>4, MovedFacts
    <3>2. s.name \in Mentions(todo[x])
      BY <1>3, <2>1, MentionsIs
    <3> QED  BY <3>1, <3>2
  <2> QED  BY <2>2, <2>3
<1>5. CASE x = c
  <2>1. PICK q : q = todo[c]
    OBVIOUS
  <2>2. /\ q \in Seq(AnyStep) /\ q # << >> /\ q[1].do = kind /\ q[1].name = n
        /\ Leaves(r, q, D) /\ Len(q) \in Nat
    BY <1>1, <2>1, HeadIs DEF Moved
  <2>3. i \in 1 .. Len(r) /\ r[i] = s /\ Before(r, i) = P
    BY <1>2, <1>3, <1>5
  <2>4. PICK k \in 2 .. Len(q) :
          /\ r[i] = q[k] /\ r[i] \notin D
          /\ Before(r, i) \subseteq Before(q, k)
          /\ \A kd \in Before(q, k) :
               \/ kd \in Before(r, i)
               \/ q[1].name = r[i].name /\ q[1].do = kd
               \/ \E d \in D : d.name = r[i].name /\ d.do = kd
    BY <2>2, <2>3, LeavesBefore
  <2>5. PICK O : O = Before(q, k)
    OBVIOUS
  <2>6. k \in 1 .. Len(q)
    BY <2>2
  <2>7. Has(x, s, O)
    BY <1>5, <2>1, <2>3, <2>4, <2>5, <2>6 DEF Has
  <2>8. /\ P \subseteq O /\ s \notin D
        /\ \A kd \in O : \/ kd \in P
                         \/ n = s.name /\ kd = kind
                         \/ \E d \in D : d.name = s.name /\ d.do = kd
    BY <2>2, <2>3, <2>4, <2>5
  <2>9. s.name # n => O = P
    <3> SUFFICES ASSUME s.name # n PROVE O \subseteq P
      BY <2>8
    <3> QED  BY <2>8
  <2>10. s.name = n => kind \in O
    <3>1. 1 \in 1 .. (k - 1)
      BY <2>2
    <3> QED  BY <2>2, <2>3, <2>4, <2>5, <3>1 DEF Before
  <2> QED  BY <1>5, <2>7, <2>8, <2>9, <2>10
<1> QED  BY <1>4, <1>5

\* What the step just taken says of what is left on its name.
LEMMA MovedRules ==
  ASSUME TodoType, NEW c \in Clients, NEW kind, NEW n, NEW D, Moved(c, kind, n, D),
         Ordered(todo[c]), AllFit(todo[c]),
         NEW s, NEW P, Has(c, s, P)', s.name = n
  PROVE  /\ << kind, s.do >> \notin Backwards
         /\ \A kd \in P : << kind, kd >> \notin Backwards
         /\ s.do = "finish" => Fits(Head(todo[c]), s.outcome)
<1>1. PICK r \in Seq(AnyStep) : Leaves(r, todo[c], D) /\ todo' = [todo EXCEPT ![c] = r]
  BY DEF Moved
<1>2. PICK q : q = todo[c]
  OBVIOUS
<1>3. /\ q \in Seq(AnyStep) /\ q # << >> /\ q[1].do = kind /\ q[1].name = n /\ Head(q) = q[1]
      /\ Leaves(r, q, D) /\ Len(q) \in Nat /\ 1 \in 1 .. Len(q)
  BY <1>1, <1>2, HeadIs DEF Moved
<1>4. PICK i \in 1 .. Len(r) : r[i] = s /\ Before(r, i) = P
  BY <1>1 DEF Has, TodoType
<1>5. ASSUME NEW j \in 1 .. Len(r), r[j].name = n
      PROVE  << kind, r[j].do >> \notin Backwards
  <2>1. PICK k \in 2 .. Len(q) : r[j] = q[k]
    BY <1>3, LeavesBefore
  <2>2. k \in 1 .. Len(q) /\ 1 < k
    BY <1>3
  <2> QED  BY <1>2, <1>3, <1>5, <2>1, <2>2 DEF Ordered
<1>6. \A kd \in P : << kind, kd >> \notin Backwards
  <2> SUFFICES ASSUME NEW j \in 1 .. (i - 1), r[j].name = r[i].name
               PROVE  << kind, r[j].do >> \notin Backwards
    BY <1>4 DEF Before
  <2>1. j \in 1 .. Len(r)
    BY LenProperties
  <2> QED  BY <1>4, <1>5, <2>1
<1>7. s.do = "finish" => Fits(q[1], s.outcome)
  <2>1. PICK k \in 2 .. Len(q) : r[i] = q[k]
    BY <1>3, LeavesBefore
  <2>2. k \in 1 .. Len(q)
    BY <1>3
  <2> QED  BY <1>2, <1>3, <1>4, <2>1, <2>2 DEF AllFit
<1> QED  BY <1>2, <1>3, <1>4, <1>5, <1>6, <1>7

\* The lists as wholes.
Lists == \A x \in Clients : Ordered(todo[x]) /\ AllFit(todo[x])

LEMMA MovedLists ==
  ASSUME TodoType, NEW c \in Clients, NEW kind, NEW n, NEW D, Moved(c, kind, n, D), Lists
  PROVE  Lists'
<1>1. PICK r \in Seq(AnyStep) : Leaves(r, todo[c], D) /\ todo' = [todo EXCEPT ![c] = r]
  BY DEF Moved
<1>2. /\ todo'[c] = r /\ \A y \in Clients \ {c} : todo'[y] = todo[y]
      /\ todo[c] \in Seq(AnyStep) /\ todo[c] # << >>
  BY <1>1 DEF TodoType, Moved
<1>3. Ordered(r) /\ AllFit(r)
  BY <1>1, <1>2, LeavesOrdered DEF Lists
<1> QED  BY <1>2, <1>3 DEF Lists

LEMMA NothingOrdered == Ordered(<< >>) /\ AllFit(<< >>)
BY DEF Ordered, AllFit

\* A step that goes wrong changes no file and no unit, and nothing is promised of
\* its name any more.
GivenUp(c, n) == Refused(c, n) \/ CallFails(c, n) \/ FileFails(c, n)

Unpromised(c, n) ==
  \A i \in 1 .. Len(todo[c]) : todo[c][i].name = n => todo[c][i].do \notin {"finish", "saved"}

\* What NoPromise drops, and what stays.
LEMMA NoPromiseLeaves ==
  ASSUME TodoType, NEW c \in Clients, NEW kind, NEW n,
         NEW r \in Seq(AnyStep), NEW D, Leaves(r, todo[c], D), \A d \in D : d.name = n,
         Doing(c, kind, n, NoPromise(r, n))
  PROVE  \E E : /\ Moved(c, kind, n, E) /\ \A d \in E : d.name = n
                /\ Unpromised(c, n)'
                /\ \A d \in E : d \in D \/ d.do \in {"finish", "saved"}
<1>1. PICK E : E = StepsOn(r, n, {"finish", "saved"})
  OBVIOUS
<1>2. todo[c] \in Seq(AnyStep) /\ todo[c] # << >>
  BY DEF TodoType, Doing
<1>3. Without(r, E) \in Seq(AnyStep) /\ Leaves(Without(r, E), todo[c], D \cup E)
  BY <1>2, LeavesAgain
<1>4. NoPromise(r, n) = Without(r, E)
  BY <1>1 DEF NoPromise
<1>5. Moved(c, kind, n, D \cup E)
  BY <1>3, <1>4 DEF Moved, Doing
<1>6. \A d \in E : d.name = n /\ d.do \in {"finish", "saved"}
  BY <1>1 DEF StepsOn
<1>7. Unpromised(c, n)'
  <2> SUFFICES ASSUME NEW i \in 1 .. Len(todo'[c]), todo'[c][i].name = n,
                      todo'[c][i].do \in {"finish", "saved"}
               PROVE  FALSE
    BY DEF Unpromised
  <2>1. PICK s : s = todo'[c][i]
    OBVIOUS
  <2>2. todo'[c] = Without(r, E)
    BY <1>4 DEF Doing, TodoType
  <2>3. PICK f : Picks(f, Without(r, E), Len(r), r, E)
    BY WithoutPicks
  <2>4. s \notin E /\ f[i] \in 1 .. Len(r) /\ s = r[f[i]]
    BY <2>1, <2>2, <2>3 DEF Picks
  <2>5. s \in ToSet(r)
    BY <2>4, LenProperties DEF ToSet
  <2> QED  BY <1>1, <2>1, <2>4, <2>5 DEF StepsOn
<1> QED  BY <1>5, <1>6, <1>7

LEMMA GivenUpMoves ==
  ASSUME TodoType, NEW c \in Clients, NEW n \in Names, GivenUp(c, n)
  PROVE  /\ UNCHANGED << disk, mgr, expected, saved, torn >>
         /\ \E kind, D :
              /\ Moved(c, kind, n, D) /\ \A d \in D : d.name = n
              /\ Unpromised(c, n)'
              /\ Refused(c, n) => /\ kind \in {"start", "restart", "enable"}
                                  /\ \A d \in D : d.do \in {"finish", "saved"}
              /\ \/ kind # "openService" /\ \A d \in D : d.do # "openService"
                 \/ \A i \in 1 .. Len(todo'[c]) : todo'[c][i].name # n
<1>0. UNCHANGED << disk, mgr, expected, saved, torn >>
  BY DEF GivenUp, Refused, CallFails, FileFails
<1>1. ASSUME NEW kind, Doing(c, kind, n, NoPromise(Tail(todo[c]), n))
      PROVE  \E D : /\ Moved(c, kind, n, D) /\ \A d \in D : d.name = n
                    /\ Unpromised(c, n)'
                    /\ \A d \in D : d.do \in {"finish", "saved"}
  <2>1. todo[c] \in Seq(AnyStep) /\ todo[c] # << >>
    BY <1>1 DEF TodoType, Doing
  <2>2. PICK r : r = Tail(todo[c])
    OBVIOUS
  <2>3. PICK D : D = {}
    OBVIOUS
  <2>4. r \in Seq(AnyStep) /\ Leaves(r, todo[c], D)
    BY <2>1, <2>2, <2>3, LeavesTail
  <2>5. \A d \in D : d.name = n
    BY <2>3
  <2>6. Doing(c, kind, n, NoPromise(r, n))
    BY <1>1, <2>2
  <2>7. PICK E : /\ Moved(c, kind, n, E) /\ \A d \in E : d.name = n
                 /\ Unpromised(c, n)'
                 /\ \A d \in E : d \in D \/ d.do \in {"finish", "saved"}
    BY <2>4, <2>5, <2>6, NoPromiseLeaves
  <2> QED  BY <2>3, <2>7
<1>2. CASE Refused(c, n)
  <2>1. PICK kind \in {"start", "restart", "enable"} :
          Doing(c, kind, n, NoPromise(Tail(todo[c]), n))
    BY <1>2 DEF Refused
  <2>2. PICK D : /\ Moved(c, kind, n, D) /\ \A d \in D : d.name = n
                 /\ Unpromised(c, n)'
                 /\ \A d \in D : d.do \in {"finish", "saved"}
    BY <1>1, <2>1
  <2> QED  BY <1>0, <2>2
<1>3. CASE CallFails(c, n)
  <2>1. PICK kind : /\ Doing(c, kind, n, NoPromise(Tail(todo[c]), n))
                    /\ kind # "openService"
    BY <1>3 DEF CallFails
  <2>2. PICK D : /\ Moved(c, kind, n, D) /\ \A d \in D : d.name = n
                 /\ Unpromised(c, n)'
                 /\ \A d \in D : d.do \in {"finish", "saved"}
    BY <1>1, <2>1
  <2>3. \A d \in D : d.do # "openService"
    BY <2>2
  <2> QED  BY <1>0, <1>2, <2>1, <2>2, <2>3
<1>4. CASE FileFails(c, n)
  <2>1. CASE \E step \in {"env", "openService"} :
               Doing(c, step, n, Without(Tail(todo[c]), {s \in ToSet(Tail(todo[c])) : s.name = n}))
    <3>1. PICK D : D = {s \in ToSet(Tail(todo[c])) : s.name = n}
      OBVIOUS
    <3>2. PICK kind \in {"env", "openService"} : Doing(c, kind, n, Without(Tail(todo[c]), D))
      BY <2>1, <3>1
    <3>3. Moved(c, kind, n, D)
      BY <3>2, DoingDrops
    <3>4. \A i \in 1 .. Len(todo'[c]) : todo'[c][i].name # n
      BY <3>1, <3>3, MovedDropped
    <3>5. \A d \in D : d.name = n
      BY <3>1
    <3>6. Unpromised(c, n)'
      BY <3>4 DEF Unpromised
    <3> QED  BY <1>0, <1>2, <3>3, <3>4, <3>5, <3>6
  <2>2. CASE Doing(c, "openHelper", n,
                   NoPromise(Without(Tail(todo[c]),
                                     StepsOn(Tail(todo[c]), n, {"helper", "openPath", "path"})), n))
    <3>1. PICK D, r : /\ D = StepsOn(Tail(todo[c]), n, {"helper", "openPath", "path"})
                      /\ r = Without(Tail(todo[c]), D)
      OBVIOUS
    <3>2. todo[c] \in Seq(AnyStep) /\ todo[c] # << >>
      BY <2>2 DEF TodoType, Doing
    <3>3. r \in Seq(AnyStep) /\ Leaves(r, todo[c], D)
      BY <3>1, <3>2, LeavesWithout
    <3>4. \A d \in D : d.name = n /\ d.do # "openService"
      BY <3>1 DEF StepsOn
    <3>5. Doing(c, "openHelper", n, NoPromise(r, n))
      BY <2>2, <3>1
    <3>6. PICK E : /\ Moved(c, "openHelper", n, E) /\ \A d \in E : d.name = n
                   /\ Unpromised(c, n)'
                   /\ \A d \in E : d \in D \/ d.do \in {"finish", "saved"}
      BY <3>3, <3>4, <3>5, NoPromiseLeaves
    <3>7. \A d \in E : d.do # "openService"
      BY <3>4, <3>6
    <3> QED  BY <1>0, <1>2, <3>6, <3>7
  <2>3. CASE Doing(c, "openPath", n,
                   NoPromise(Without(Tail(todo[c]), StepsOn(Tail(todo[c]), n, {"path"})), n))
    <3>1. PICK D, r : /\ D = StepsOn(Tail(todo[c]), n, {"path"})
                      /\ r = Without(Tail(todo[c]), D)
      OBVIOUS
    <3>2. todo[c] \in Seq(AnyStep) /\ todo[c] # << >>
      BY <2>3 DEF TodoType, Doing
    <3>3. r \in Seq(AnyStep) /\ Leaves(r, todo[c], D)
      BY <3>1, <3>2, LeavesWithout
    <3>4. \A d \in D : d.name = n /\ d.do # "openService"
      BY <3>1 DEF StepsOn
    <3>5. Doing(c, "openPath", n, NoPromise(r, n))
      BY <2>3, <3>1
    <3>6. PICK E : /\ Moved(c, "openPath", n, E) /\ \A d \in E : d.name = n
                   /\ Unpromised(c, n)'
                   /\ \A d \in E : d \in D \/ d.do \in {"finish", "saved"}
      BY <3>3, <3>4, <3>5, NoPromiseLeaves
    <3>7. \A d \in E : d.do # "openService"
      BY <3>4, <3>6
    <3> QED  BY <1>0, <1>2, <3>6, <3>7
  <2> QED  BY <1>4, <2>1, <2>2, <2>3 DEF FileFails
<1> QED  BY <1>2, <1>3, <1>4 DEF GivenUp

-----------------------------------------------------------------------------
(* What the steps of a new command promise. *)

KindsIn(q) == {q[i].do : i \in 1 .. Len(q)}

\* Steps on n of the kinds K, in an order that keeps the promise `outcome`.
Block(q, n, K, outcome) ==
  /\ q \in Seq(AnyStep)
  /\ KindsIn(q) = K
  /\ \A i \in 1 .. Len(q) : /\ q[i].name = n
                            /\ Fits(q[i], outcome)
                            /\ q[i].do = "finish" => q[i].outcome = outcome
  /\ Ordered(q)

\* No step of K follows one of L on a name, in that order.
Clear(L, K) == \A l \in L, k \in K : << l, k >> \notin Backwards

LEMMA BackwardsIs ==
  ASSUME NEW l \in Kinds, NEW k \in Kinds, << l, k >> \in Backwards
  PROVE  \/ l \in Saving /\ k \notin Saving
         \/ l \notin Saving /\ k \in Saving
         \/ l = "finish"
         \/ /\ l \in {"start", "restart", "startPath"}
            /\ k \in {"openService", "service", "openPath", "path", "reload", "start"}
         \/ l = "reload" /\ k \in Writes \ {"env"}
         \/ l \in {"service", "unlinkService"} /\ k \in {"openService", "service"}
         \/ l = "helper" /\ k \in {"openHelper", "helper"}
         \/ l = "path" /\ k \in {"openPath", "path", "unlinkPath"}
         \/ l = "startPath" /\ k = "unlinkPath"
         \/ l = "unlinkPath" /\ k = "stopPath"
BY DEF Backwards

LEMMA FinishLast ==
  ASSUME NEW k \in Kinds
  PROVE  << "finish", k >> \in Backwards
BY DEF Backwards

LEMMA BlockFlat ==
  ASSUME NEW q \in Seq(AnyStep), NEW n, NEW K, NEW outcome, KindsIn(q) = K, Clear(K, K),
         \A i \in 1 .. Len(q) : /\ q[i].name = n
                                /\ Fits(q[i], outcome)
                                /\ q[i].do = "finish" => q[i].outcome = outcome
  PROVE  Block(q, n, K, outcome)
<1>1. \A i \in 1 .. Len(q) : q[i].do \in K
  BY DEF KindsIn
<1>2. Ordered(q)
  BY <1>1 DEF Ordered, Clear
<1> QED  BY <1>2 DEF Block

LEMMA BlockOne ==
  ASSUME NEW s \in AnyStep, NEW outcome, Fits(s, outcome),
         s.do = "finish" => s.outcome = outcome
  PROVE  Block(<< s >>, s.name, {s.do}, outcome)
<1>1. PICK q : q = << s >>
  OBVIOUS
<1>2. q \in Seq(AnyStep) /\ Len(q) = 1 /\ q[1] = s
  BY <1>1
<1>3. KindsIn(q) = {s.do}
  BY <1>2 DEF KindsIn
<1>4. Ordered(q)
  BY <1>2 DEF Ordered
<1>5. Block(q, s.name, {s.do}, outcome)
  BY <1>2, <1>3, <1>4 DEF Block
<1> QED  BY <1>1, <1>5

LEMMA BlockEmpty ==
  ASSUME NEW n, NEW outcome
  PROVE  Block(<< >>, n, {}, outcome)
BY EmptySeq DEF Block, KindsIn, Ordered

LEMMA BlockConcat ==
  ASSUME NEW q, NEW r, NEW n, NEW L, NEW K, NEW outcome,
         Block(q, n, L, outcome), Block(r, n, K, outcome), Clear(L, K)
  PROVE  Block(q \o r, n, L \cup K, outcome)
<1>1. q \in Seq(AnyStep) /\ r \in Seq(AnyStep)
  BY DEF Block
<1>2. PICK w, m, p : w = q \o r /\ m = Len(q) /\ p = Len(r)
  OBVIOUS
<1>3. /\ w \in Seq(AnyStep) /\ Len(w) = m + p /\ m \in Nat /\ p \in Nat
      /\ \A i \in 1 .. m + p : w[i] = IF i <= m THEN q[i] ELSE r[i - m]
  BY <1>1, <1>2, ConcatProperties, LenProperties
<1>4. \A i \in 1 .. Len(w) : \/ i \in 1 .. m /\ w[i] = q[i]
                             \/ i > m /\ i - m \in 1 .. p /\ w[i] = r[i - m]
  BY <1>3
<1>5. \A i \in 1 .. m : i \in 1 .. Len(w) /\ w[i] = q[i]
  BY <1>3
<1>6. \A i \in 1 .. p : m + i \in 1 .. Len(w) /\ w[m + i] = r[i]
  BY <1>3
<1>7. KindsIn(w) = L \cup K
  <2>1. \A k \in KindsIn(w) : k \in KindsIn(q) \cup KindsIn(r)
    BY <1>2, <1>4 DEF KindsIn
  <2>2. \A k \in KindsIn(q) \cup KindsIn(r) : k \in KindsIn(w)
    BY <1>2, <1>5, <1>6 DEF KindsIn
  <2> QED  BY <2>1, <2>2 DEF Block
<1>8. \A i \in 1 .. Len(w) : /\ w[i].name = n
                             /\ Fits(w[i], outcome)
                             /\ w[i].do = "finish" => w[i].outcome = outcome
  BY <1>2, <1>4 DEF Block
<1>9. Ordered(w)
  <2> SUFFICES ASSUME NEW i \in 1 .. Len(w), NEW j \in 1 .. Len(w), i < j,
                      w[i].name = w[j].name
               PROVE  << w[i].do, w[j].do >> \notin Backwards
    BY DEF Ordered
  <2>1. CASE i \in 1 .. m /\ w[i] = q[i] /\ j \in 1 .. m /\ w[j] = q[j]
    BY <1>2, <2>1 DEF Block, Ordered
  <2>2. CASE i \in 1 .. m /\ w[i] = q[i] /\ j - m \in 1 .. p /\ w[j] = r[j - m]
    <3>1. q[i].do \in L /\ r[j - m].do \in K
      BY <1>2, <2>2 DEF Block, KindsIn
    <3> QED  BY <2>2, <3>1 DEF Clear
  <2>3. CASE i - m \in 1 .. p /\ w[i] = r[i - m] /\ j - m \in 1 .. p /\ w[j] = r[j - m]
    <3>1. i - m < j - m
      BY <1>3
    <3> QED  BY <1>2, <2>3, <3>1 DEF Block, Ordered
  <2>4. ~(i > m /\ j \in 1 .. m)
    BY <1>3
  <2> QED  BY <1>4, <2>1, <2>2, <2>3, <2>4
<1>10. Block(w, n, L \cup K, outcome)
  BY <1>3, <1>7, <1>8, <1>9 DEF Block
<1> QED  BY <1>2, <1>10

\* The promise comes last.
LEMMA BlockFinish ==
  ASSUME NEW q, NEW n, NEW K, NEW outcome, Block(q, n, K, outcome), K \subseteq Kinds,
         NEW i \in 1 .. Len(q), q[i].do = "finish"
  PROVE  q[i].name = n /\ q[i].outcome = outcome /\ Before(q, i) = K \ {"finish"}
<1>1. q \in Seq(AnyStep) /\ Len(q) \in Nat
  BY LenProperties DEF Block
<1>2. \A j \in 1 .. Len(q) : q[j].do \in K /\ q[j].name = n
  BY DEF Block, KindsIn
<1>3. \A j \in 1 .. Len(q) : i < j => FALSE
  BY <1>2, FinishLast DEF Block, Ordered
<1>4. \A j \in 1 .. Len(q) : j < i => q[j].do # "finish"
  BY <1>2, FinishLast DEF Block, Ordered
<1>5. Before(q, i) \subseteq K \ {"finish"}
  BY <1>1, <1>2, <1>4 DEF Before
<1>6. ASSUME NEW k \in K \ {"finish"}
      PROVE  k \in Before(q, i)
  <2>1. PICK j \in 1 .. Len(q) : q[j].do = k
    BY <1>6 DEF Block, KindsIn
  <2>2. j \in 1 .. (i - 1) /\ q[j].name = q[i].name
    BY <1>1, <1>2, <1>3, <1>6, <2>1
  <2> QED  BY <2>1, <2>2 DEF Before
<1> QED  BY <1>5, <1>6 DEF Block

\* Steps that go with a promise.
LEMMA DoFits ==
  ASSUME NEW n \in Names, NEW kind \in Kinds \ {"service", "finish"}, NEW outcome \in Outcomes,
         kind \in {"openService", "start", "restart"} =>
           outcome.running = MayRun \/ outcome.running \subseteq Programs,
         kind \in {"stop", "unlinkService"} => outcome.running = {Off},
         kind \in {"path", "startPath"} => TRUE \in outcome.watched,
         kind \in {"unlinkPath", "stopPath"} => FALSE \in outcome.watched,
         kind \in Writes => n \in Apps, kind \in Unlinks => n \in Deletable
  PROVE  /\ Do(kind, n) \in AnyStep /\ Fits(Do(kind, n), outcome)
         /\ Do(kind, n).do = kind /\ Do(kind, n).name = n
         /\ Block(<< Do(kind, n) >>, n, {kind}, outcome)
<1>1. PICK s : s = Do(kind, n)
  OBVIOUS
<1>2. s.do = kind /\ s.name = n
  BY <1>1 DEF Do
<1>3. s \in AnyStep
  BY <1>1, DoIsStep, UnlinkIsStep, DoFileIsStep DEF Kinds
<1>4. Fits(s, outcome)
  BY <1>2 DEF Fits
<1>5. Block(<< s >>, s.name, {s.do}, outcome)
  BY <1>2, <1>3, <1>4, BlockOne
<1> QED  BY <1>1, <1>2, <1>3, <1>4, <1>5

LEMMA WaitBlock ==
  ASSUME NEW n \in Names, NEW outcome \in Outcomes
  PROVE  Block(Wait(n), n, IF Bus THEN {} ELSE {"await"}, outcome)
<1>1. Block(<< Do("await", n) >>, n, {"await"}, outcome)
  BY DoFits DEF Kinds, CallKinds, Writes, Unlinks
<1> QED  BY <1>1, BlockEmpty DEF Wait, Optional

Waits == IF Bus THEN {} ELSE {"await"}

LEMMA TwoBlock ==
  ASSUME NEW n \in Names, NEW outcome \in Outcomes, NEW s \in AnyStep, NEW t \in AnyStep,
         NEW k, NEW l, Block(<< s >>, n, {k}, outcome), Block(<< t >>, n, {l}, outcome),
         << k, l >> \notin Backwards
  PROVE  Block(<< s, t >>, n, {k, l}, outcome)
<1>1. Clear({k}, {l}) /\ {k} \cup {l} = {k, l}
  BY DEF Clear
<1>2. Block(<< s >> \o << t >>, n, {k} \cup {l}, outcome)
  BY <1>1, BlockConcat
<1> QED  BY <1>1, <1>2, PairIs

LEMMA StartBlock ==
  ASSUME NEW n \in Names, NEW outcome \in Outcomes, TRUE \in outcome.watched,
         outcome.running = MayRun \/ outcome.running \subseteq Programs
  PROVE  Block(StartSteps(n), n, {"start", "startPath"} \cup Waits, outcome)
<1>1. /\ Do("start", n) \in AnyStep /\ Do("startPath", n) \in AnyStep
      /\ Block(<< Do("start", n) >>, n, {"start"}, outcome)
      /\ Block(<< Do("startPath", n) >>, n, {"startPath"}, outcome)
  BY DoFits DEF Kinds, CallKinds, Writes, Unlinks
<1>2. << "start", "startPath" >> \notin Backwards
  BY BackwardsIs DEF Kinds, CallKinds, Saving
<1>3. Block(<< Do("start", n), Do("startPath", n) >>, n, {"start", "startPath"}, outcome)
  BY <1>1, <1>2, TwoBlock
<1>4. Clear({"start", "startPath"}, Waits)
  BY BackwardsIs DEF Clear, Waits, Kinds, CallKinds, Saving
<1> QED  BY <1>3, <1>4, WaitBlock, BlockConcat DEF StartSteps, Waits

LEMMA StopBlock ==
  ASSUME NEW n \in Names, NEW outcome \in Outcomes, FALSE \in outcome.watched,
         outcome.running = {Off}
  PROVE  Block(StopSteps(n), n, {"stop", "stopPath"} \cup Waits, outcome)
<1>1. /\ Do("stop", n) \in AnyStep /\ Do("stopPath", n) \in AnyStep
      /\ Block(<< Do("stop", n) >>, n, {"stop"}, outcome)
      /\ Block(<< Do("stopPath", n) >>, n, {"stopPath"}, outcome)
  BY DoFits DEF Kinds, CallKinds, Writes, Unlinks
<1>2. << "stop", "stopPath" >> \notin Backwards
  BY BackwardsIs DEF Kinds, CallKinds, Saving
<1>3. Block(<< Do("stop", n), Do("stopPath", n) >>, n, {"stop", "stopPath"}, outcome)
  BY <1>1, <1>2, TwoBlock
<1>4. Clear({"stop", "stopPath"}, Waits)
  BY BackwardsIs DEF Clear, Waits, Kinds, CallKinds, Saving
<1> QED  BY <1>3, <1>4, WaitBlock, BlockConcat DEF StopSteps, Waits

LEMMA RestartBlock ==
  ASSUME NEW n \in Names, NEW outcome \in Outcomes,
         outcome.running = MayRun \/ outcome.running \subseteq Programs
  PROVE  Block(RestartSteps(n), n, {"restart"} \cup Waits, outcome)
<1>1. Block(<< Do("restart", n) >>, n, {"restart"}, outcome)
  BY DoFits DEF Kinds, CallKinds, Writes, Unlinks
<1>2. Clear({"restart"}, Waits)
  BY BackwardsIs DEF Clear, Waits, Kinds, CallKinds, Saving
<1> QED  BY <1>1, <1>2, WaitBlock, BlockConcat DEF RestartSteps, Waits

LEMMA FinishBlock ==
  ASSUME NEW n \in Names, NEW outcome \in Outcomes
  PROVE  Block(<< Finish(n, outcome) >>, n, {"finish"}, outcome)
<1>1. PICK s : s = Finish(n, outcome)
  OBVIOUS
<1>2. s \in AnyStep /\ s.do = "finish" /\ s.name = n /\ s.outcome = outcome
  BY <1>1, FinishIsStep DEF Finish
<1>3. Fits(s, outcome)
  BY <1>2 DEF Fits
<1>4. Block(<< s >>, s.name, {s.do}, outcome)
  BY <1>2, <1>3, BlockOne
<1> QED  BY <1>1, <1>2, <1>4

Written(d) == {"openService", "service"} \cup IF d.env THEN {"env"} ELSE {}
Watch(d) == IF d.watched THEN {"openHelper", "helper", "openPath", "path"} ELSE {}

LEMMA WriteFits ==
  ASSUME NEW a \in Apps, NEW unit \in Unit, NEW outcome \in Outcomes,
         unit.program \in outcome.running, unit.program \in Programs,
         outcome.running = MayRun \/ outcome.running \subseteq Programs
  PROVE  Block(<< Write(a, unit) >>, a, {"service"}, outcome)
<1>1. PICK s : s = Write(a, unit)
  OBVIOUS
<1>2. s \in AnyStep /\ s.do = "service" /\ s.name = a /\ s.unit = unit
  BY <1>1, WriteIsStep
<1>3. Fits(s, outcome)
  BY <1>2 DEF Fits
<1>4. Block(<< s >>, s.name, {s.do}, outcome)
  BY <1>2, <1>3, BlockOne
<1> QED  BY <1>1, <1>2, <1>4

LEMMA ServiceBlock ==
  ASSUME NEW d \in Deployment, NEW outcome \in Outcomes, d.program \in outcome.running,
         outcome.running = MayRun \/ outcome.running \subseteq Programs
  PROVE  Block(ServiceSteps(d), d.name, Written(d), outcome)
<1>1. PICK n, unit : n = d.name /\ unit = [program |-> d.program, env |-> d.env]
  OBVIOUS
<1>2. /\ n \in Apps /\ n \in Names /\ unit \in Unit /\ unit.program = d.program
      /\ d.env \in BOOLEAN /\ d.program \in Programs
  BY <1>1, DeploymentType
<1>3. Block(<< Do("openService", n), Write(n, unit) >>, n, {"openService", "service"}, outcome)
  <2>1. Block(<< Write(n, unit) >>, n, {"service"}, outcome) /\ Write(n, unit) \in AnyStep
    BY <1>2, WriteFits, WriteIsStep
  <2>2. /\ Block(<< Do("openService", n) >>, n, {"openService"}, outcome)
        /\ Do("openService", n) \in AnyStep
    BY <1>2, DoFits DEF Kinds, CallKinds, Writes, Unlinks
  <2>3. << "openService", "service" >> \notin Backwards
    BY BackwardsIs DEF Kinds, Writes, Saving
  <2> QED  BY <1>2, <2>1, <2>2, <2>3, TwoBlock
<1>4. Block(<< Do("env", n) >>, n, {"env"}, outcome)
  BY <1>2, DoFits DEF Kinds, CallKinds, Writes, Unlinks
<1>5. /\ Clear({"env"}, {"openService", "service"})
      /\ Clear({}, {"openService", "service"})
  BY BackwardsIs DEF Clear, Kinds, CallKinds, Writes, Saving
<1>6. ServiceSteps(d) = Optional(d.env, << Do("env", n) >>) 
                        \o << Do("openService", n), Write(n, unit) >>
  BY <1>1 DEF ServiceSteps
<1>7. Block(Optional(d.env, << Do("env", n) >>), n, IF d.env THEN {"env"} ELSE {}, outcome)
  BY <1>2, <1>4, BlockEmpty DEF Optional
<1>8. Clear(IF d.env THEN {"env"} ELSE {}, {"openService", "service"})
  BY <1>5
<1>9. Block(ServiceSteps(d), n,
            (IF d.env THEN {"env"} ELSE {}) \cup {"openService", "service"}, outcome)
  BY <1>3, <1>6, <1>7, <1>8, BlockConcat
<1>10. (IF d.env THEN {"env"} ELSE {}) \cup {"openService", "service"} = Written(d)
  BY DEF Written
<1> QED  BY <1>1, <1>9, <1>10

LEMMA QuadIs ==
  ASSUME NEW s \in AnyStep, NEW t \in AnyStep, NEW u \in AnyStep, NEW v \in AnyStep
  PROVE  << s, t >> \o << u, v >> = << s, t, u, v >>
<1>1. PICK q, r, w : q = << s, t >> /\ r = << u, v >> /\ w = << s, t, u, v >>
  OBVIOUS
<1>2. /\ q \in Seq(AnyStep) /\ r \in Seq(AnyStep) /\ w \in Seq(AnyStep)
      /\ Len(q) = 2 /\ Len(r) = 2 /\ Len(w) = 4
      /\ q[1] = s /\ q[2] = t /\ r[1] = u /\ r[2] = v
      /\ w[1] = s /\ w[2] = t /\ w[3] = u /\ w[4] = v
  BY <1>1
<1>3. /\ q \o r \in Seq(AnyStep) /\ Len(q \o r) = Len(q) + Len(r)
      /\ \A i \in 1 .. Len(q) + Len(r) :
           (q \o r)[i] = IF i <= Len(q) THEN q[i] ELSE r[i - Len(q)]
  BY <1>2, ConcatProperties
<1>4. \A i \in 1 .. 4 : (q \o r)[i] = w[i]
  BY <1>2, <1>3
<1>5. q \o r = w
  BY <1>2, <1>3, <1>4, SeqEqual
<1> QED  BY <1>1, <1>5

LEMMA PathBlock ==
  ASSUME NEW d \in Deployment, NEW outcome \in Outcomes, TRUE \in outcome.watched
  PROVE  Block(PathSteps(d), d.name, Watch(d), outcome)
<1>1. PICK n, o, h, p, w :
        /\ n = d.name /\ o = Do("openHelper", n) /\ h = Do("helper", n)
        /\ p = Do("openPath", n) /\ w = Do("path", n)
  OBVIOUS
<1>2. n \in Apps /\ n \in Names /\ d.watched \in BOOLEAN
  BY <1>1, DeploymentType
<1>3. /\ o \in AnyStep /\ Block(<< o >>, n, {"openHelper"}, outcome)
      /\ h \in AnyStep /\ Block(<< h >>, n, {"helper"}, outcome)
  BY <1>1, <1>2, DoFits DEF Kinds, CallKinds, Writes, Unlinks
<1>4. /\ p \in AnyStep /\ Block(<< p >>, n, {"openPath"}, outcome)
      /\ w \in AnyStep /\ Block(<< w >>, n, {"path"}, outcome)
  BY <1>1, <1>2, DoFits DEF Kinds, CallKinds, Writes, Unlinks
<1>5. << "openHelper", "helper" >> \notin Backwards /\ << "openPath", "path" >> \notin Backwards
  BY BackwardsIs DEF Kinds, Writes, Saving
<1>6. Clear({"openHelper", "helper"}, {"openPath", "path"})
  BY BackwardsIs DEF Clear, Kinds, Writes, Saving
<1>7. /\ Block(<< o, h >>, n, {"openHelper", "helper"}, outcome)
      /\ Block(<< p, w >>, n, {"openPath", "path"}, outcome)
  BY <1>2, <1>3, <1>4, <1>5, TwoBlock
<1>8. Block(<< o, h >> \o << p, w >>, n,
            {"openHelper", "helper"} \cup {"openPath", "path"}, outcome)
  BY <1>6, <1>7, BlockConcat
<1>9. {"openHelper", "helper"} \cup {"openPath", "path"}
        = {"openHelper", "helper", "openPath", "path"}
  OBVIOUS
<1>10. << o, h >> \o << p, w >> = << o, h, p, w >>
  BY <1>3, <1>4, QuadIs
<1>11. Block(<< o, h, p, w >>, n, {"openHelper", "helper", "openPath", "path"}, outcome)
  BY <1>8, <1>9, <1>10
<1>12. PathSteps(d) = Optional(d.watched, << o, h, p, w >>)
  BY <1>1 DEF PathSteps
<1> QED  BY <1>1, <1>2, <1>11, <1>12, BlockEmpty DEF Optional, Watch

\* What start_single_app promises.
DeployOutcome(d) == Outcome(IF Cold(d.name) THEN {d.program} ELSE Programs,
                            IF d.watched THEN {TRUE} ELSE BOOLEAN)

DeployTypes(d) == Written(d) \cup Watch(d) \cup {"reload", "start", "startPath", "finish"} \cup Waits

LEMMA DeployBlock ==
  ASSUME NEW d \in Deployment
  PROVE  /\ Block(DeploySteps(d), d.name, DeployTypes(d), DeployOutcome(d))
         /\ DeployOutcome(d) \in Outcomes
<1>1. PICK n, o : n = d.name /\ o = DeployOutcome(d)
  OBVIOUS
<1>2. n \in Apps /\ n \in Names /\ d.program \in Programs /\ d.watched \in BOOLEAN
  BY <1>1, DeploymentType
<1>3. /\ o \in Outcomes /\ d.program \in o.running /\ o.running \subseteq Programs
      /\ TRUE \in o.watched
  <2>1. PICK running, watched :
          /\ running = (IF Cold(d.name) THEN {d.program} ELSE Programs)
          /\ watched = (IF d.watched THEN {TRUE} ELSE BOOLEAN)
    OBVIOUS
  <2>2. /\ running \in SUBSET Contents /\ watched \in SUBSET BOOLEAN
        /\ d.program \in running /\ running \subseteq Programs /\ TRUE \in watched
    BY <1>2, <2>1 DEF Contents, Runnable
  <2>3. o = Outcome(running, watched)
    BY <1>1, <2>1 DEF DeployOutcome
  <2> QED  BY <2>2, <2>3, OutcomeType DEF Outcome
<1>4. PICK q1, q2, q3, q4, q5 :
        /\ q1 = ServiceSteps(d) /\ q2 = PathSteps(d) /\ q3 = << Do("reload", n) >>
        /\ q4 = StartSteps(n) /\ q5 = << Finish(n, o) >>
  OBVIOUS
<1>5. PICK k1, k2, k3, k4, k5 :
        /\ k1 = Written(d) /\ k2 = Watch(d) /\ k3 = {"reload"}
        /\ k4 = {"start", "startPath"} \cup Waits /\ k5 = {"finish"}
  OBVIOUS
<1>6. Block(q1, n, k1, o) /\ Block(q2, n, k2, o)
  BY <1>1, <1>3, <1>4, <1>5, ServiceBlock, PathBlock
<1>7. Block(q3, n, k3, o)
  BY <1>2, <1>3, <1>4, <1>5, DoFits DEF Kinds, CallKinds, Writes, Unlinks
<1>8. Block(q4, n, k4, o) /\ Block(q5, n, k5, o)
  BY <1>2, <1>3, <1>4, <1>5, StartBlock, FinishBlock
<1>9. /\ k1 \subseteq {"openService", "service", "env"}
      /\ k2 \subseteq {"openHelper", "helper", "openPath", "path"}
      /\ k4 \subseteq {"start", "startPath", "await"}
  BY <1>5 DEF Written, Watch, Waits
<1>10. Clear({"openService", "service", "env"}, {"openHelper", "helper", "openPath", "path"})
  BY BackwardsIs DEF Clear, Kinds, CallKinds, Writes, Saving
<1>11. Clear(Writes, {"reload"})
  BY BackwardsIs DEF Clear, Kinds, CallKinds, Writes, Saving
<1>12. Clear(Writes \cup {"reload"}, {"start", "startPath", "await"})
  BY BackwardsIs DEF Clear, Kinds, CallKinds, Writes, Saving
<1>13. Clear(Writes \cup {"reload", "start", "startPath", "await"}, {"finish"})
  BY BackwardsIs DEF Clear, Kinds, CallKinds, Writes, Saving
<1>14. Block(q1 \o q2, n, k1 \cup k2, o)
  BY <1>6, <1>9, <1>10, BlockConcat DEF Clear
<1>15. Block(q1 \o q2 \o q3, n, k1 \cup k2 \cup k3, o)
  <2>1. Clear(k1 \cup k2, k3)
    BY <1>5, <1>9, <1>11 DEF Clear, Writes
  <2> QED  BY <1>7, <1>14, <2>1, BlockConcat
<1>16. Block(q1 \o q2 \o q3 \o q4, n, k1 \cup k2 \cup k3 \cup k4, o)
  <2>1. Clear(k1 \cup k2 \cup k3, k4)
    BY <1>5, <1>9, <1>12 DEF Clear, Writes
  <2> QED  BY <1>8, <1>15, <2>1, BlockConcat
<1>17. Block(q1 \o q2 \o q3 \o q4 \o q5, n, k1 \cup k2 \cup k3 \cup k4 \cup k5, o)
  <2>1. Clear(k1 \cup k2 \cup k3 \cup k4, k5)
    BY <1>5, <1>9, <1>13 DEF Clear, Writes
  <2> QED  BY <1>8, <1>16, <2>1, BlockConcat
<1>18. k1 \cup k2 \cup k3 \cup k4 \cup k5 = DeployTypes(d)
  BY <1>5 DEF DeployTypes
<1>19. DeploySteps(d) = q1 \o q2 \o q3 \o q4 \o q5
  BY <1>1, <1>4 DEF DeploySteps, Deployed, DeployOutcome
<1> QED  BY <1>1, <1>3, <1>17, <1>18, <1>19

GoneTypes == {"stop", "stopPath"} \cup Waits \cup {"disable"} \cup Unlinks

LEMMA DeleteBlock ==
  ASSUME NEW a \in Apps, NEW outcome \in Outcomes, outcome.running = {Off},
         FALSE \in outcome.watched
  PROVE  Block(DeleteSteps(a), a, GoneTypes, outcome)
<1>0. a \in Names /\ a \in Deletable
  BY RegistryAssumption DEF Deletable
<1>1. PICK s1, s2, s3, s4, s5 :
        /\ s1 = Do("disable", a) /\ s2 = Do("unlinkService", a) /\ s3 = Do("unlinkPath", a)
        /\ s4 = Do("unlinkHelper", a) /\ s5 = Do("unlinkEnv", a)
  OBVIOUS
<1>2. /\ s1 \in AnyStep /\ Fits(s1, outcome) /\ s1.do = "disable" /\ s1.name = a
      /\ s2 \in AnyStep /\ Fits(s2, outcome) /\ s2.do = "unlinkService" /\ s2.name = a
      /\ s3 \in AnyStep /\ Fits(s3, outcome) /\ s3.do = "unlinkPath" /\ s3.name = a
  <2>1. "disable" \in CallKinds /\ "unlinkService" \in Unlinks /\ "unlinkPath" \in Unlinks
    BY DEF CallKinds, Unlinks
  <2>2. s1 \in AnyStep /\ Fits(s1, outcome) /\ s1.do = "disable" /\ s1.name = a
    BY <1>0, <1>1, <2>1, DoFits DEF Kinds
  <2>3. s2 \in AnyStep /\ Fits(s2, outcome) /\ s2.do = "unlinkService" /\ s2.name = a
    BY <1>0, <1>1, <2>1, DoFits DEF Kinds
  <2>4. s3 \in AnyStep /\ Fits(s3, outcome) /\ s3.do = "unlinkPath" /\ s3.name = a
    BY <1>0, <1>1, <2>1, DoFits DEF Kinds
  <2> QED  BY <2>2, <2>3, <2>4
<1>3. /\ s4 \in AnyStep /\ Fits(s4, outcome) /\ s4.do = "unlinkHelper" /\ s4.name = a
      /\ s5 \in AnyStep /\ Fits(s5, outcome) /\ s5.do = "unlinkEnv" /\ s5.name = a
  <2>1. "unlinkHelper" \in Unlinks /\ "unlinkEnv" \in Unlinks
    BY DEF Unlinks
  <2>2. s4 \in AnyStep /\ Fits(s4, outcome) /\ s4.do = "unlinkHelper" /\ s4.name = a
    BY <1>0, <1>1, <2>1, DoFits DEF Kinds
  <2>3. s5 \in AnyStep /\ Fits(s5, outcome) /\ s5.do = "unlinkEnv" /\ s5.name = a
    BY <1>0, <1>1, <2>1, DoFits DEF Kinds
  <2> QED  BY <2>2, <2>3
<1>4. PICK q : q = << s1, s2, s3, s4, s5 >>
  OBVIOUS
<1>5. /\ q \in Seq(AnyStep) /\ Len(q) = 5
      /\ q[1] = s1 /\ q[2] = s2 /\ q[3] = s3 /\ q[4] = s4 /\ q[5] = s5
  BY <1>2, <1>3, <1>4
<1>6. \A i \in 1 .. 5 : i = 1 \/ i = 2 \/ i = 3 \/ i = 4 \/ i = 5
  OBVIOUS
<1>7. KindsIn(q) = {"disable"} \cup Unlinks
  <2>1. \A k \in KindsIn(q) : k \in {"disable"} \cup Unlinks
    BY <1>2, <1>3, <1>5, <1>6 DEF KindsIn, Unlinks
  <2>2. q[1].do \in KindsIn(q) /\ q[2].do \in KindsIn(q) /\ q[3].do \in KindsIn(q)
        /\ q[4].do \in KindsIn(q) /\ q[5].do \in KindsIn(q)
    BY <1>5 DEF KindsIn
  <2> QED  BY <1>2, <1>3, <1>5, <2>1, <2>2 DEF Unlinks
<1>8. Clear({"disable"} \cup Unlinks, {"disable"} \cup Unlinks)
  BY BackwardsIs DEF Clear, Kinds, CallKinds, Unlinks, Saving
<1>9. \A i \in 1 .. Len(q) : /\ q[i].name = a /\ Fits(q[i], outcome)
                             /\ q[i].do # "finish"
  BY <1>2, <1>3, <1>5, <1>6
<1>10. Block(q, a, {"disable"} \cup Unlinks, outcome)
  BY <1>5, <1>7, <1>8, <1>9, BlockFlat
<1>11. Clear({"stop", "stopPath", "await"}, {"disable"} \cup Unlinks)
  BY BackwardsIs DEF Clear, Kinds, CallKinds, Unlinks, Saving
<1>12. Clear({"stop", "stopPath"} \cup Waits, {"disable"} \cup Unlinks)
  BY <1>11 DEF Waits, Clear
<1>13. Block(StopSteps(a), a, {"stop", "stopPath"} \cup Waits, outcome)
  BY <1>0, StopBlock
<1>14. Block(StopSteps(a) \o q, a, ({"stop", "stopPath"} \cup Waits) \cup ({"disable"} \cup Unlinks), outcome)
  BY <1>10, <1>12, <1>13, BlockConcat
<1>15. ({"stop", "stopPath"} \cup Waits) \cup ({"disable"} \cup Unlinks) = GoneTypes
  BY DEF GoneTypes
<1>16. DeleteSteps(a) = StopSteps(a) \o q
  BY <1>1, <1>4 DEF DeleteSteps
<1> QED  BY <1>14, <1>15, <1>16

-----------------------------------------------------------------------------
(* Lists made of one block for each app. *)

\* Where the first m lists lie in w.
Places(w, m, off, seqs, S) ==
  /\ w \in Seq(S)
  /\ \A b \in 1 .. m : BlockAt(w, off[b], seqs[b])
  /\ \A i \in 1 .. Len(w) : \E b \in 1 .. m : i - off[b] \in 1 .. Len(seqs[b])

LEMMA PlacesMore ==
  ASSUME NEW S, NEW seqs \in Seq(Seq(S)), NEW m \in 1 .. Len(seqs), NEW w, NEW v, NEW off,
         off \in [1 .. Len(seqs) -> Nat],
         Places(w, m - 1, off, seqs, S), off[m] = Len(w), v = w \o seqs[m]
  PROVE  Places(v, m, off, seqs, S)
<1>1. seqs[m] \in Seq(S) /\ w \in Seq(S)
  BY ElementOfSeq DEF Places
<1>2. PICK r, k, p : r = seqs[m] /\ k = Len(w) /\ p = Len(r)
  OBVIOUS
<1>3. /\ v \in Seq(S) /\ Len(v) = k + p /\ k \in Nat /\ p \in Nat
      /\ \A i \in 1 .. k + p : v[i] = IF i <= k THEN w[i] ELSE r[i - k]
  BY <1>1, <1>2, ConcatProperties, LenProperties
<1>4. \A b \in 1 .. (m - 1) : BlockAt(v, off[b], seqs[b])
  <2> SUFFICES ASSUME NEW b \in 1 .. (m - 1), NEW x \in 1 .. Len(seqs[b])
               PROVE  off[b] + x \in 1 .. Len(v) /\ v[off[b] + x] = seqs[b][x]
    BY DEF BlockAt
  <2>1. off[b] + x \in 1 .. Len(w) /\ w[off[b] + x] = seqs[b][x]
    BY DEF Places, BlockAt
  <2>2. \A y \in 1 .. Len(w) : y \in 1 .. Len(v) /\ v[y] = w[y]
    BY <1>2, <1>3
  <2> QED  BY <2>1, <2>2
<1>5. BlockAt(v, off[m], seqs[m])
  <2> SUFFICES ASSUME NEW x \in 1 .. p
               PROVE  k + x \in 1 .. Len(v) /\ v[k + x] = r[x]
    BY <1>2 DEF BlockAt
  <2>1. PICK y : y = k + x
    OBVIOUS
  <2>2. y \in 1 .. k + p /\ ~(y <= k) /\ y - k = x
    BY <1>3, <2>1
  <2>3. v[y] = r[x] /\ y \in 1 .. Len(v)
    BY <1>3, <2>2
  <2> QED  BY <2>1, <2>3
<1>6. ASSUME NEW i \in 1 .. Len(v)
      PROVE  \E b \in 1 .. m : i - off[b] \in 1 .. Len(seqs[b])
  <2>1. CASE i \in 1 .. k
    <3>1. PICK b \in 1 .. (m - 1) : i - off[b] \in 1 .. Len(seqs[b])
      BY <1>2, <2>1 DEF Places
    <3>2. b \in 1 .. m
      OBVIOUS
    <3> QED  BY <3>1, <3>2
  <2>2. CASE i \notin 1 .. k
    <3>1. i - k \in 1 .. p /\ m \in 1 .. m
      BY <1>3, <2>2, LenProperties
    <3> QED  BY <1>2, <3>1
  <2> QED  BY <2>1, <2>2
<1>7. \A b \in 1 .. m : b = m \/ b \in 1 .. (m - 1)
  BY LenProperties
<1> QED  BY <1>3, <1>4, <1>5, <1>6, <1>7 DEF Places

LEMMA FlattenPlaces ==
  ASSUME NEW S, NEW seqs \in Seq(Seq(S))
  PROVE  \E off \in [1 .. Len(seqs) -> Nat] :
           Places(FlattenSeq(seqs), Len(seqs), off, seqs, S)
<1>0. Len(seqs) \in Nat
  BY LenProperties
<1>1. CASE Len(seqs) = 0
  <2>1. FlattenSeq(seqs) = << >>
    BY <1>0, <1>1, EmptySeq DEF FlattenSeq
  <2>2. PICK off : off = [b \in 1 .. Len(seqs) |-> 0]
    OBVIOUS
  <2>3. off \in [1 .. Len(seqs) -> Nat]
    BY <2>2
  <2>4. << >> \in Seq(S) /\ Len(<< >>) = 0
    BY EmptySeq
  <2>5. Places(<< >>, Len(seqs), off, seqs, S)
    BY <1>1, <2>4 DEF Places
  <2> QED  BY <2>1, <2>3, <2>5
<1>2. CASE Len(seqs) # 0
  <2>1. PICK h : Flattens(h, Len(seqs), seqs, S)
    BY <1>0, FlattensExists
  <2>2. h = [i \in 1 .. Len(seqs) |-> IF i = 1 THEN seqs[i] ELSE h[i - 1] \o seqs[i]]
    BY <2>1 DEF Flattens
  <2> DEFINE g == CHOOSE flatten : flatten = [i \in 1 .. Len(seqs) |->
                    IF i = 1 THEN seqs[i] ELSE flatten[i - 1] \o seqs[i]]
  <2>3. FlattenSeq(seqs) = g[Len(seqs)]
    BY <1>2 DEF FlattenSeq
  <2>4. g = [i \in 1 .. Len(seqs) |-> IF i = 1 THEN seqs[i] ELSE g[i - 1] \o seqs[i]]
    BY <2>2
  <2> HIDE DEF g
  <2>5. \A i \in 1 .. Len(seqs) : g[i] \in Seq(S)
    <3> DEFINE Bad == {m \in Nat : m \in 1 .. Len(seqs) /\ g[m] \notin Seq(S)}
    <3>1. ASSUME Bad # {}
          PROVE  FALSE
      <4>1. PICK m \in Bad : \A k \in Bad : m <= k
        <5> HIDE DEF Bad
        <5>1. Bad \in SUBSET Nat
          BY DEF Bad
        <5> QED  BY <5>1, <3>1, NatMin
      <4>2. m \in 1 .. Len(seqs) /\ seqs[m] \in Seq(S)
        BY <4>1, ElementOfSeq
      <4>3. m # 1
        BY <2>4, <4>1, <4>2
      <4>4. m - 1 \in 1 .. Len(seqs) /\ m - 1 \in Nat /\ ~(m <= m - 1)
        BY <1>0, <4>2, <4>3
      <4>5. g[m - 1] \in Seq(S)
        BY <4>1, <4>4
      <4>6. g[m] = g[m - 1] \o seqs[m]
        BY <2>4, <4>2, <4>3
      <4>7. g[m - 1] \o seqs[m] \in Seq(S)
        BY <4>2, <4>5, ConcatProperties
      <4>8. g[m] \notin Seq(S)
        BY <4>1
      <4> QED  BY <4>6, <4>7, <4>8
    <3> QED  BY <3>1
  <2>6. PICK off : off = [b \in 1 .. Len(seqs) |-> IF b = 1 THEN 0 ELSE Len(g[b - 1])]
    OBVIOUS
  <2>7. off \in [1 .. Len(seqs) -> Nat]
    <3>1. \A b \in 1 .. Len(seqs) : off[b] \in Nat
      <4> TAKE b \in 1 .. Len(seqs)
      <4>1. b # 1 => b - 1 \in 1 .. Len(seqs)
        BY <1>0
      <4>2. b # 1 => Len(g[b - 1]) \in Nat
        BY <2>5, <4>1, LenProperties
      <4> QED  BY <2>6, <4>2
    <3> QED  BY <2>6, <3>1
  <2> DEFINE Bad == {m \in Nat : m \in 1 .. Len(seqs) /\ ~Places(g[m], m, off, seqs, S)}
  <2>8. ASSUME Bad # {}
        PROVE  FALSE
    <3>1. PICK m \in Bad : \A k \in Bad : m <= k
      <4> HIDE DEF Bad
      <4>1. Bad \in SUBSET Nat
        BY DEF Bad
      <4> QED  BY <4>1, <2>8, NatMin
    <3>2. m \in 1 .. Len(seqs) /\ m \in Nat /\ seqs[m] \in Seq(S)
      BY <3>1, ElementOfSeq
    <3>3. CASE m = 1
      <4>1. g[m] = seqs[m] /\ off[m] = 0
        BY <2>4, <2>6, <3>2, <3>3
      <4>2. Len(seqs[m]) \in Nat
        BY <3>2, LenProperties
      <4>3. BlockAt(seqs[m], 0, seqs[m])
        BY <4>2 DEF BlockAt
      <4>4. Places(seqs[m], m, off, seqs, S)
        <5>1. \A b \in 1 .. m : b = m
          BY <3>3
        <5>2. \A i \in 1 .. Len(seqs[m]) : m \in 1 .. m /\ i - off[m] \in 1 .. Len(seqs[m])
          BY <3>3, <4>1, <4>2
        <5> QED  BY <3>2, <4>1, <4>3, <5>1, <5>2 DEF Places
      <4> QED  BY <3>1, <4>1, <4>4
    <3>4. CASE m # 1
      <4>1. m - 1 \in 1 .. Len(seqs) /\ m - 1 \in Nat /\ ~(m <= m - 1)
        BY <3>2, <3>4, <1>0
      <4>2. Places(g[m - 1], m - 1, off, seqs, S)
        BY <4>1, <3>1
      <4>3. g[m] = g[m - 1] \o seqs[m] /\ off[m] = Len(g[m - 1])
        BY <2>4, <2>6, <3>2, <3>4
      <4>4. Places(g[m], m, off, seqs, S)
        BY <2>7, <3>2, <4>2, <4>3, PlacesMore
      <4> QED  BY <3>1, <4>4
    <3> QED  BY <3>3, <3>4
  <2>9. Len(seqs) \in 1 .. Len(seqs) /\ Len(seqs) \notin Bad
    BY <2>8, <1>0, <1>2
  <2> QED  BY <2>3, <2>7, <2>9, <1>0
<1> QED  BY <1>1, <1>2

\* One list alone.
LEMMA FlattenOne ==
  ASSUME NEW q \in Seq(AnyStep), NEW a, NEW seqs, seqs = [i \in DOMAIN << a >> |-> q]
  PROVE  FlattenSeq(seqs) = q
<1>1. DOMAIN << a >> = 1 .. 1
  OBVIOUS
<1>2. seqs \in [1 .. 1 -> Seq(AnyStep)] /\ seqs[1] = q
  BY <1>1
<1>3. seqs \in Seq(Seq(AnyStep)) /\ Len(seqs) = 1
  <2>1. Seq(Seq(AnyStep)) = UNION {[1 .. n -> Seq(AnyStep)] : n \in Nat}
    BY SeqDef
  <2>2. seqs \in Seq(Seq(AnyStep))
    BY <1>2, <2>1
  <2>3. DOMAIN seqs = 1 .. 1 /\ DOMAIN seqs = 1 .. Len(seqs) /\ Len(seqs) \in Nat
    BY <1>2, <2>2, LenProperties
  <2> QED  BY <2>2, <2>3
<1>4. PICK h : Flattens(h, Len(seqs), seqs, AnyStep)
  BY <1>3, FlattensExists
<1>5. h = [i \in 1 .. Len(seqs) |-> IF i = 1 THEN seqs[i] ELSE h[i - 1] \o seqs[i]]
  BY <1>4 DEF Flattens
<1> DEFINE g == CHOOSE flatten : flatten = [i \in 1 .. Len(seqs) |->
                  IF i = 1 THEN seqs[i] ELSE flatten[i - 1] \o seqs[i]]
<1>6. FlattenSeq(seqs) = g[Len(seqs)]
  BY <1>3 DEF FlattenSeq
<1>7. g = [i \in 1 .. Len(seqs) |-> IF i = 1 THEN seqs[i] ELSE g[i - 1] \o seqs[i]]
  BY <1>5
<1> HIDE DEF g
<1>8. g[1] = seqs[1]
  BY <1>3, <1>7
<1> QED  BY <1>2, <1>3, <1>6, <1>8

-----------------------------------------------------------------------------
(* What is still to come of a promise about n, when the steps before it on n   *)
(* are of the kinds P.                                                         *)

\* n runs one of R, or is about to.
Active(n, R) == \/ mgr.job[n] = "none" /\ mgr.running[n] \in R
                \/ mgr.job[n] = "restart"
                \/ mgr.job[n] = "start" /\ mgr.running[n] \in R \cup {Off}

\* n will run one of R, its file, the manager and the jobs being what they are; the
\* start of an app whose file was left empty is refused, and ends the promise.
Promise(n, R, P) ==
  /\ \/ "service" \in P \/ disk.service[n].program \in R
     \/ "start" \in P /\ disk.service[n] = Empty
  /\ "openService" \in P => "service" \in P
  /\ "reload" \in P \/ Current(n)
  /\ "start" \in P \/ "restart" \in P \/ Active(n, R)
  /\ "start" \in P /\ R # Programs => Cold(n)
  /\ "service" \in P => "reload" \in P
  /\ "reload" \in P => "start" \in P

\* n does not run, or is about to stop.
Down(n) == \/ mgr.job[n] = "stop"
           \/ mgr.running[n] = Off /\ (mgr.job[n] = "none" \/ Lookup(n) = NoUnit)

Kept(n, R, P) == \/ R = MayRun
                 \/ R \subseteq Programs /\ Promise(n, R, P)
                 \/ R = {Off} /\ (FilesChange \/ "stop" \in P \/ Down(n))

\* n is watched or will be, and a change will find its companion; or the writing of
\* one of its files was cut short.
WatchOn(n, P) ==
  /\ "path" \in P \/ "helper" \in P => "reload" \in P
  /\ "reload" \in P => "startPath" \in P /\ ("path" \in P \/ n \in disk.path \cup torn.path)
  /\ "reload" \notin P =>
       \/ n \in torn.path \cup torn.helper
       \/ /\ mgr.loaded[HelperOf[n]] # Empty
          /\ n \in mgr.watching \/ ("startPath" \in P /\ n \in disk.path)

\* n will be watched, or not, as W says.
WatchKept(n, W, P) ==
  /\ TRUE \notin W => "stopPath" \in P \/ n \notin mgr.watching \/ n \in torn.path
  /\ FALSE \notin W => WatchOn(n, P)

Vowed(n, outcome, P) == Kept(n, outcome.running, P) /\ WatchKept(n, outcome.watched, P)

\* What an app's unit may run.
AppUnit(unit) == unit \in Unusable \/ unit.program \in Programs

\* The steps of a new command that is not a `save`.
Sound(q) ==
  /\ q \in Seq(AnyStep) /\ Ordered(q) /\ AllFit(q)
  /\ \A i \in 1 .. Len(q) :
       /\ q[i].name \in Apps /\ q[i].do \notin Saving
       /\ q[i].do = "service" => q[i].unit.program \in Programs
       /\ q[i].do = "finish" => Vowed(q[i].name, q[i].outcome, Before(q, i))
       /\ q[i].do = "unlinkPath" => "stopPath" \in Before(q, i)
       /\ q[i].do = "service" => "openService" \in Before(q, i)
       /\ q[i].do = "path" => "openPath" \in Before(q, i)

\* The steps of a `save`.
SoundSave(q) ==
  /\ q \in Seq(AnyStep) /\ Ordered(q) /\ AllFit(q)
  /\ \A i \in 1 .. Len(q) :
       /\ q[i].do \in Saving
       /\ disk.service[q[i].name] # NoUnit
       /\ q[i].do = "saved" => "enable" \in Before(q, i)

Deletes == {"disable"} \cup Unlinks

\* What a step of a block never comes before, comes before it.
LEMMA BlockBefore ==
  ASSUME NEW q, NEW a, NEW K, NEW outcome, Block(q, a, K, outcome),
         NEW l \in K, NEW i \in 1 .. Len(q), q[i].do # l, << q[i].do, l >> \in Backwards
  PROVE  l \in Before(q, i)
<1>1. q \in Seq(AnyStep) /\ Len(q) \in Nat /\ \A j \in 1 .. Len(q) : q[j].name = a
  BY LenProperties DEF Block
<1>2. PICK j \in 1 .. Len(q) : q[j].do = l
  BY DEF Block, KindsIn
<1>3. ~(i < j) /\ i # j
  BY <1>1, <1>2 DEF Block, Ordered
<1>4. j \in 1 .. (i - 1) /\ q[j].name = q[i].name
  BY <1>1, <1>3
<1> QED  BY <1>2, <1>4 DEF Before

LEMMA BlockSound ==
  ASSUME NEW q, NEW a \in Apps, NEW K, NEW outcome, Block(q, a, K, outcome),
         K \subseteq Kinds \ Saving, Vowed(a, outcome, K \ {"finish"}),
         "unlinkPath" \in K => "stopPath" \in K,
         "service" \in K => "openService" \in K, "path" \in K => "openPath" \in K
  PROVE  Sound(q)
<1>1. q \in Seq(AnyStep) /\ Len(q) \in Nat /\ Ordered(q)
  BY LenProperties DEF Block
<1>2. AllFit(q)
  BY DEF Block, AllFit
<1>3. \A i \in 1 .. Len(q) : q[i].name = a /\ q[i].do \in K
  BY DEF Block, KindsIn
<1>4. ASSUME NEW i \in 1 .. Len(q), q[i].do = "finish"
      PROVE  Vowed(q[i].name, q[i].outcome, Before(q, i))
  <2>1. q[i].name = a /\ q[i].outcome = outcome /\ Before(q, i) = K \ {"finish"}
    BY <1>4, BlockFinish
  <2> QED  BY <2>1
<1>5. ASSUME NEW i \in 1 .. Len(q)
      PROVE  /\ q[i].do = "unlinkPath" => "stopPath" \in Before(q, i)
             /\ q[i].do = "service" => "openService" \in Before(q, i)
             /\ q[i].do = "path" => "openPath" \in Before(q, i)
  <2>1. /\ << "unlinkPath", "stopPath" >> \in Backwards
        /\ << "service", "openService" >> \in Backwards
        /\ << "path", "openPath" >> \in Backwards
    BY DEF Backwards
  <2> QED  BY <1>3, <2>1, BlockBefore
<1>6. \A i \in 1 .. Len(q) : q[i].do = "service" => q[i].unit.program \in Programs
  BY DEF Block, Fits
<1> QED  BY <1>1, <1>2, <1>3, <1>4, <1>5, <1>6 DEF Sound

\* Sound lists about different apps, one after the other.
LEMMA ManySound ==
  ASSUME NEW seqs \in Seq(Seq(AnyStep)), NEW N,
         \A b \in 1 .. Len(seqs) : Sound(seqs[b]),
         \A b \in 1 .. Len(seqs) : \A i \in 1 .. Len(seqs[b]) : seqs[b][i].name = N[b],
         \A b, c \in 1 .. Len(seqs) : N[b] = N[c] => b = c
  PROVE  Sound(FlattenSeq(seqs))
<1>1. PICK off \in [1 .. Len(seqs) -> Nat] :
        Places(FlattenSeq(seqs), Len(seqs), off, seqs, AnyStep)
  BY FlattenPlaces
<1>2. PICK q, m : q = FlattenSeq(seqs) /\ m = Len(seqs)
  OBVIOUS
<1>3. q \in Seq(AnyStep) /\ Len(q) \in Nat /\ m \in Nat
  BY <1>1, <1>2, LenProperties DEF Places
\* Two steps on one name lie in the same list.
<1>4. ASSUME NEW i \in 1 .. Len(q)
      PROVE  \E b \in 1 .. m : \E p \in 1 .. Len(seqs[b]) :
               /\ i = off[b] + p /\ q[i] = seqs[b][p]
               /\ \A j \in 1 .. Len(q) : q[j].name = q[i].name =>
                    j - off[b] \in 1 .. Len(seqs[b]) /\ q[j] = seqs[b][j - off[b]]
  <2>1. \A j \in 1 .. Len(q) : \E b \in 1 .. m :
          j - off[b] \in 1 .. Len(seqs[b]) /\ q[j] = seqs[b][j - off[b]]
    <3> TAKE j \in 1 .. Len(q)
    <3>1. PICK b \in 1 .. m : j - off[b] \in 1 .. Len(seqs[b])
      BY <1>1, <1>2 DEF Places
    <3>2. PICK p : p = j - off[b]
      OBVIOUS
    <3>3. off[b] \in Nat /\ p \in 1 .. Len(seqs[b]) /\ j = off[b] + p
      <4>1. off[b] \in Nat
        BY <1>2
      <4>2. p \in 1 .. Len(seqs[b])
        BY <3>1, <3>2
      <4>3. \A o \in Nat : p = j - o => j = o + p
        BY <1>3
      <4> QED  BY <4>1, <4>2, <4>3, <3>2
    <3>4. q[j] = seqs[b][p]
      BY <1>1, <1>2, <3>3 DEF Places, BlockAt
    <3> QED  BY <3>1, <3>2, <3>4
  <2>2. PICK b \in 1 .. m : i - off[b] \in 1 .. Len(seqs[b]) /\ q[i] = seqs[b][i - off[b]]
    BY <2>1
  <2>3. ASSUME NEW j \in 1 .. Len(q), q[j].name = q[i].name
        PROVE  j - off[b] \in 1 .. Len(seqs[b]) /\ q[j] = seqs[b][j - off[b]]
    <3>1. PICK e \in 1 .. m : j - off[e] \in 1 .. Len(seqs[e]) /\ q[j] = seqs[e][j - off[e]]
      BY <2>1
    <3>2. q[j].name = N[e] /\ q[i].name = N[b]
      BY <1>2, <2>2, <3>1
    <3>3. e = b
      BY <1>2, <2>3, <3>2
    <3> QED  BY <3>1, <3>3
  <2>4. PICK p : p = i - off[b]
    OBVIOUS
  <2>5. p \in 1 .. Len(seqs[b]) /\ i = off[b] + p /\ q[i] = seqs[b][p]
    <3>1. off[b] \in Nat
      BY <1>2
    <3>2. \A o \in Nat : p = i - o => i = o + p
      BY <1>3
    <3> QED  BY <2>2, <2>4, <3>1, <3>2
  <2> QED  BY <2>3, <2>5
<1>5. Ordered(q) /\ AllFit(q)
  <2> SUFFICES ASSUME NEW i \in 1 .. Len(q), NEW j \in 1 .. Len(q), q[i].name = q[j].name
               PROVE  /\ i < j => << q[i].do, q[j].do >> \notin Backwards
                      /\ q[j].do = "finish" => Fits(q[i], q[j].outcome)
    BY DEF Ordered, AllFit
  <2>1. PICK b \in 1 .. m : \E p \in 1 .. Len(seqs[b]) :
          /\ i = off[b] + p /\ q[i] = seqs[b][p]
          /\ \A k \in 1 .. Len(q) : q[k].name = q[i].name =>
               k - off[b] \in 1 .. Len(seqs[b]) /\ q[k] = seqs[b][k - off[b]]
    BY <1>4
  <2>2. PICK p \in 1 .. Len(seqs[b]) :
          /\ i = off[b] + p /\ q[i] = seqs[b][p]
          /\ \A k \in 1 .. Len(q) : q[k].name = q[i].name =>
               k - off[b] \in 1 .. Len(seqs[b]) /\ q[k] = seqs[b][k - off[b]]
    BY <2>1
  <2>3. PICK x, o, r : x = j - off[b] /\ o = off[b] /\ r = seqs[b]
    OBVIOUS
  <2>4. x \in 1 .. Len(r) /\ q[j] = r[x] /\ p \in 1 .. Len(r) /\ q[i] = r[p]
    BY <2>2, <2>3
  <2>5. i < j => p < x
    <3>1. o \in Nat
      BY <1>2, <2>3
    <3>2. p \in Int /\ x \in Int
      BY <2>4
    <3>3. i = o + p /\ x = j - o
      BY <2>2, <2>3
    <3> QED  BY ONLY <3>1, <3>2, <3>3, <1>3, i \in 1 .. Len(q), j \in 1 .. Len(q)
  <2>6. Sound(r)
    BY <1>2, <2>3
  <2> QED  BY <2>4, <2>5, <2>6 DEF Sound, Ordered, AllFit
<1>6. ASSUME NEW i \in 1 .. Len(q)
      PROVE  /\ q[i].name \in Apps /\ q[i].do \notin Saving
             /\ q[i].do = "service" => q[i].unit.program \in Programs
             /\ q[i].do = "finish" => Vowed(q[i].name, q[i].outcome, Before(q, i))
             /\ q[i].do = "unlinkPath" => "stopPath" \in Before(q, i)
             /\ q[i].do = "service" => "openService" \in Before(q, i)
             /\ q[i].do = "path" => "openPath" \in Before(q, i)
  <2>1. PICK b \in 1 .. m : \E p \in 1 .. Len(seqs[b]) :
          /\ i = off[b] + p /\ q[i] = seqs[b][p]
          /\ \A k \in 1 .. Len(q) : q[k].name = q[i].name =>
               k - off[b] \in 1 .. Len(seqs[b]) /\ q[k] = seqs[b][k - off[b]]
    BY <1>4
  <2>2. PICK p \in 1 .. Len(seqs[b]) :
          /\ i = off[b] + p /\ q[i] = seqs[b][p]
          /\ \A k \in 1 .. Len(q) : q[k].name = q[i].name =>
               k - off[b] \in 1 .. Len(seqs[b]) /\ q[k] = seqs[b][k - off[b]]
    BY <2>1
  <2>3. PICK r, o : r = seqs[b] /\ o = off[b]
    OBVIOUS
  <2>4. /\ o \in Nat /\ p \in 1 .. Len(r) /\ i = o + p /\ q[i] = r[p] /\ Sound(r)
        /\ \A k \in 1 .. Len(q) : q[k].name = q[i].name => k - o \in 1 .. Len(r) /\ q[k] = r[k - o]
        /\ \A x \in 1 .. Len(r) : o + x \in 1 .. Len(q) /\ q[o + x] = r[x]
    BY <1>1, <1>2, <2>2, <2>3 DEF Places, BlockAt
  <2>5. Before(q, i) = Before(r, p)
    <3>1. ASSUME NEW k \in 1 .. (i - 1), q[k].name = q[i].name
          PROVE  q[k].do \in Before(r, p)
      <4>1. k \in 1 .. Len(q)
        BY <1>3
      <4>2. PICK x : x = k - o
        OBVIOUS
      <4>3. x \in 1 .. Len(r) /\ q[k] = r[x]
        BY <2>4, <3>1, <4>1, <4>2
      <4>4. x \in 1 .. (p - 1)
        BY <2>4, <4>2, <4>3
      <4>5. r[x].name = r[p].name
        BY <2>4, <3>1, <4>3
      <4> QED  BY <4>3, <4>4, <4>5 DEF Before
    <3>2. ASSUME NEW x \in 1 .. (p - 1), r[x].name = r[p].name
          PROVE  r[x].do \in Before(q, i)
      <4>1. x \in 1 .. Len(r)
        BY LenProperties, <2>4 DEF Sound
      <4>2. PICK k : k = o + x
        OBVIOUS
      <4>3. k \in 1 .. Len(q) /\ q[k] = r[x]
        BY <2>4, <4>1, <4>2
      <4>4. k \in 1 .. (i - 1)
        BY <2>4, <4>2, <4>3
      <4> QED  BY <2>4, <3>2, <4>3, <4>4 DEF Before
    <3> QED  BY <3>1, <3>2 DEF Before
  <2> QED  BY <2>4, <2>5 DEF Sound
<1> QED  BY <1>2, <1>3, <1>5, <1>6 DEF Sound

LEMMA TargetOne ==
  ASSUME OwnCompanions, NEW ns \in Targets
  PROVE  \E a \in Apps : ns = << a >>
BY DEF OwnCompanions, Targets

LEMMA ForOne ==
  ASSUME NEW a \in Apps, disk.service \in [Names -> Unit]
  PROVE  /\ ForEach(<< a >>, StartSteps) = StartSteps(a)
         /\ ForEach(<< a >>, StopSteps) = StopSteps(a)
         /\ ForEach(<< a >>, RestartSteps) = RestartSteps(a)
         /\ ForEach(<< a >>, DeleteSteps) = DeleteSteps(a)
         /\ ForEach(<< a >>, Started) = Started(a)
         /\ ForEach(<< a >>, Restarted) = Restarted(a)
         /\ ForEach(<< a >>, Ended) = Ended(a)
<1>0. a \in Names /\ a \in Deletable
  BY RegistryAssumption DEF Deletable
<1>1. /\ StartSteps(a) \in Seq(AnyStep) /\ StopSteps(a) \in Seq(AnyStep)
      /\ RestartSteps(a) \in Seq(AnyStep) /\ DeleteSteps(a) \in Seq(AnyStep)
  BY <1>0, StartStepsGood, StopStepsGood, RestartStepsGood, DeleteStepsGood DEF Good
<1>2. /\ Started(a) \in Seq(AnyStep) /\ Restarted(a) \in Seq(AnyStep)
      /\ Ended(a) \in Seq(AnyStep)
  BY <1>0, EndedGood DEF Good
<1>3. \A i \in DOMAIN << a >> : << a >>[i] = a
  OBVIOUS
<1>4. ForEach(<< a >>, StartSteps) = StartSteps(a)
  <2>1. PICK q, seqs : q = StartSteps(a) /\ seqs = [i \in DOMAIN << a >> |-> StartSteps(<< a >>[i])]
    OBVIOUS
  <2>2. seqs = [i \in DOMAIN << a >> |-> q]
    BY <1>3, <2>1
  <2> QED  BY <1>1, <2>1, <2>2, FlattenOne DEF ForEach
<1>5. ForEach(<< a >>, StopSteps) = StopSteps(a)
  <2>1. PICK q, seqs : q = StopSteps(a) /\ seqs = [i \in DOMAIN << a >> |-> StopSteps(<< a >>[i])]
    OBVIOUS
  <2>2. seqs = [i \in DOMAIN << a >> |-> q]
    BY <1>3, <2>1
  <2> QED  BY <1>1, <2>1, <2>2, FlattenOne DEF ForEach
<1>6. ForEach(<< a >>, RestartSteps) = RestartSteps(a)
  <2>1. PICK q, seqs : q = RestartSteps(a) /\ seqs = [i \in DOMAIN << a >> |-> RestartSteps(<< a >>[i])]
    OBVIOUS
  <2>2. seqs = [i \in DOMAIN << a >> |-> q]
    BY <1>3, <2>1
  <2> QED  BY <1>1, <2>1, <2>2, FlattenOne DEF ForEach
<1>7. ForEach(<< a >>, DeleteSteps) = DeleteSteps(a)
  <2>1. PICK q, seqs : q = DeleteSteps(a) /\ seqs = [i \in DOMAIN << a >> |-> DeleteSteps(<< a >>[i])]
    OBVIOUS
  <2>2. seqs = [i \in DOMAIN << a >> |-> q]
    BY <1>3, <2>1
  <2> QED  BY <1>1, <2>1, <2>2, FlattenOne DEF ForEach
<1>8. ForEach(<< a >>, Started) = Started(a)
  <2>1. PICK q, seqs : q = Started(a) /\ seqs = [i \in DOMAIN << a >> |-> Started(<< a >>[i])]
    OBVIOUS
  <2>2. seqs = [i \in DOMAIN << a >> |-> q]
    BY <1>3, <2>1
  <2> QED  BY <1>2, <2>1, <2>2, FlattenOne DEF ForEach
<1>9. ForEach(<< a >>, Restarted) = Restarted(a)
  <2>1. PICK q, seqs : q = Restarted(a) /\ seqs = [i \in DOMAIN << a >> |-> Restarted(<< a >>[i])]
    OBVIOUS
  <2>2. seqs = [i \in DOMAIN << a >> |-> q]
    BY <1>3, <2>1
  <2> QED  BY <1>2, <2>1, <2>2, FlattenOne DEF ForEach
<1>10. ForEach(<< a >>, Ended) = Ended(a)
  <2>1. PICK q, seqs : q = Ended(a) /\ seqs = [i \in DOMAIN << a >> |-> Ended(<< a >>[i])]
    OBVIOUS
  <2>2. seqs = [i \in DOMAIN << a >> |-> q]
    BY <1>3, <2>1
  <2> QED  BY <1>2, <2>1, <2>2, FlattenOne DEF ForEach
<1> QED  BY <1>4, <1>5, <1>6, <1>7, <1>8, <1>9, <1>10

\* An app that is there runs a program.
LEMMA FreshRuns ==
  ASSUME NEW a \in Apps, AppUnit(disk.service[a]), Fresh(a)
  PROVE  disk.service[a].program \in Programs /\ Current(a)
BY DEF AppUnit, Fresh, Current

LEMMA UpSound ==
  ASSUME NEW a \in Apps, AppUnit(disk.service[a])
  PROVE  Sound(StartSteps(a) \o Started(a))
<1>0. a \in Names
  BY RegistryAssumption
<1>1. PICK o : o = IF Fresh(a) THEN Outcome(Programs, BOOLEAN) ELSE Anything
  OBVIOUS
<1>2. /\ o.running = (IF Fresh(a) THEN Programs ELSE MayRun) /\ o.watched = BOOLEAN
      /\ o \in Outcomes
  BY <1>1 DEF Outcome, Anything, MayRun, Outcomes, Contents, Runnable
<1>3. Block(StartSteps(a), a, {"start", "startPath"} \cup Waits, o)
  BY <1>0, <1>2, StartBlock
<1>4. Block(<< Finish(a, o) >>, a, {"finish"}, o)
  BY <1>0, <1>2, FinishBlock
<1>5. Clear({"start", "startPath"} \cup Waits, {"finish"})
  BY BackwardsIs DEF Clear, Waits, Kinds, CallKinds, Saving
<1>6. Started(a) = << Finish(a, o) >>
  BY <1>1 DEF Started
<1>7. PICK K : K = ({"start", "startPath"} \cup Waits) \cup {"finish"}
  OBVIOUS
<1>8. Block(StartSteps(a) \o Started(a), a, K, o)
  BY <1>3, <1>4, <1>5, <1>6, <1>7, BlockConcat
<1>9. K \subseteq Kinds \ Saving /\ K \cap {"unlinkPath", "service", "path"} = {}
  BY <1>7 DEF Waits, Kinds, CallKinds, Saving
<1>10. Vowed(a, o, K \ {"finish"})
  <2>1. WatchKept(a, o.watched, K \ {"finish"})
    BY <1>2 DEF WatchKept
  <2>2. "start" \in K \ {"finish"} /\ K \cap {"openService", "service", "reload"} = {}
    BY <1>7 DEF Waits
  <2>3. Kept(a, o.running, K \ {"finish"})
    <3>1. CASE Fresh(a)
      BY <1>2, <2>2, <3>1, FreshRuns DEF Kept, Promise
    <3>2. CASE ~Fresh(a)
      BY <1>2, <3>2 DEF Kept
    <3> QED  BY <3>1, <3>2
  <2> QED  BY <2>1, <2>3 DEF Vowed
<1> QED  BY <1>8, <1>9, <1>10, BlockSound

LEMMA AgainSound ==
  ASSUME NEW a \in Apps, AppUnit(disk.service[a])
  PROVE  Sound(RestartSteps(a) \o Restarted(a))
<1>0. a \in Names
  BY RegistryAssumption
<1>1. PICK o : o = IF Fresh(a) THEN Outcome({disk.service[a].program}, BOOLEAN) ELSE Anything
  OBVIOUS
<1>2. /\ o.running = (IF Fresh(a) THEN {disk.service[a].program} ELSE MayRun)
      /\ o.watched = BOOLEAN /\ o \in Outcomes
      /\ o.running = MayRun \/ o.running \subseteq Programs
  BY <1>1, FreshRuns DEF Outcome, Anything, MayRun, Outcomes, Contents, Runnable
<1>3. Block(RestartSteps(a), a, {"restart"} \cup Waits, o)
  BY <1>0, <1>2, RestartBlock
<1>4. Block(<< Finish(a, o) >>, a, {"finish"}, o)
  BY <1>0, <1>2, FinishBlock
<1>5. Clear({"restart"} \cup Waits, {"finish"})
  BY BackwardsIs DEF Clear, Waits, Kinds, CallKinds, Saving
<1>6. Restarted(a) = << Finish(a, o) >>
  BY <1>1 DEF Restarted
<1>7. PICK K : K = ({"restart"} \cup Waits) \cup {"finish"}
  OBVIOUS
<1>8. Block(RestartSteps(a) \o Restarted(a), a, K, o)
  BY <1>3, <1>4, <1>5, <1>6, <1>7, BlockConcat
<1>9. K \subseteq Kinds \ Saving /\ K \cap {"unlinkPath", "service", "path"} = {}
  BY <1>7 DEF Waits, Kinds, CallKinds, Saving
<1>10. Vowed(a, o, K \ {"finish"})
  <2>1. WatchKept(a, o.watched, K \ {"finish"})
    BY <1>2 DEF WatchKept
  <2>2. "restart" \in K \ {"finish"} /\ K \cap {"openService", "service", "reload", "start"} = {}
    BY <1>7 DEF Waits
  <2>3. Kept(a, o.running, K \ {"finish"})
    <3>1. CASE Fresh(a)
      BY <1>2, <2>2, <3>1, FreshRuns DEF Kept, Promise
    <3>2. CASE ~Fresh(a)
      BY <1>2, <3>2 DEF Kept
    <3> QED  BY <3>1, <3>2
  <2> QED  BY <2>1, <2>3 DEF Vowed
<1> QED  BY <1>8, <1>9, <1>10, BlockSound

LEMMA StoppedIs == Stopped.running = {Off} /\ Stopped.watched = {FALSE} /\ Stopped \in Outcomes
BY DEF Stopped, Outcome, Outcomes, Contents, Runnable

LEMMA StopSound ==
  ASSUME NEW a \in Apps
  PROVE  Sound(StopSteps(a) \o Ended(a))
<1>0. a \in Names
  BY RegistryAssumption
<1>3. Block(StopSteps(a), a, {"stop", "stopPath"} \cup Waits, Stopped)
  BY <1>0, StoppedIs, StopBlock
<1>4. Block(Ended(a), a, {"finish"}, Stopped)
  BY <1>0, StoppedIs, FinishBlock DEF Ended
<1>5. Clear({"stop", "stopPath"} \cup Waits, {"finish"})
  BY BackwardsIs DEF Clear, Waits, Kinds, CallKinds, Saving
<1>7. PICK K : K = ({"stop", "stopPath"} \cup Waits) \cup {"finish"}
  OBVIOUS
<1>8. Block(StopSteps(a) \o Ended(a), a, K, Stopped)
  BY <1>3, <1>4, <1>5, <1>7, BlockConcat
<1>9. K \subseteq Kinds \ Saving /\ K \cap {"unlinkPath", "service", "path"} = {}
  BY <1>7 DEF Waits, Kinds, CallKinds, Saving
<1>10. Vowed(a, Stopped, K \ {"finish"})
  <2>1. "stop" \in K \ {"finish"} /\ "stopPath" \in K \ {"finish"}
    BY <1>7
  <2> QED  BY <2>1, StoppedIs DEF Vowed, Kept, WatchKept
<1> QED  BY <1>8, <1>9, <1>10, BlockSound

LEMMA DeleteSound ==
  ASSUME NEW a \in Apps
  PROVE  Sound(DeleteSteps(a) \o << Do("reload", a) >> \o Ended(a))
<1>0. a \in Names
  BY RegistryAssumption
<1>1. Block(DeleteSteps(a), a, GoneTypes, Stopped)
  BY StoppedIs, DeleteBlock
<1>2. Block(<< Do("reload", a) >>, a, {"reload"}, Stopped)
  BY <1>0, StoppedIs, DoFits DEF Kinds, CallKinds, Writes, Unlinks
<1>3. Block(Ended(a), a, {"finish"}, Stopped)
  BY <1>0, StoppedIs, FinishBlock DEF Ended
<1>4. Clear(GoneTypes, {"reload"})
  BY BackwardsIs DEF Clear, GoneTypes, Unlinks, Waits, Kinds, CallKinds, Saving
<1>5. Clear(GoneTypes \cup {"reload"}, {"finish"})
  <2>1. \A l \in GoneTypes \cup {"reload"} : l \in Kinds /\ l \notin Saving /\ l # "finish"
    BY DEF GoneTypes, Unlinks, Waits, Kinds, CallKinds, Saving
  <2>2. "finish" \in Kinds /\ "finish" \notin Saving /\ "finish" \notin Writes
    BY DEF Kinds, Saving, Writes
  <2> QED  BY <2>1, <2>2, BackwardsIs DEF Clear
<1>6. Block(DeleteSteps(a) \o << Do("reload", a) >>, a, GoneTypes \cup {"reload"}, Stopped)
  BY <1>1, <1>2, <1>4, BlockConcat
<1>7. PICK K : K = (GoneTypes \cup {"reload"}) \cup {"finish"}
  OBVIOUS
<1>8. Block(DeleteSteps(a) \o << Do("reload", a) >> \o Ended(a), a, K, Stopped)
  BY <1>3, <1>5, <1>6, <1>7, BlockConcat
<1>9. K \subseteq Kinds \ Saving /\ "stopPath" \in K /\ "stop" \in K
      /\ K \cap {"service", "path"} = {}
  BY <1>7 DEF GoneTypes, Waits, Kinds, CallKinds, Unlinks, Saving
<1>10. Vowed(a, Stopped, K \ {"finish"})
  BY <1>9, StoppedIs DEF Vowed, Kept, WatchKept
<1> QED  BY <1>8, <1>9, <1>10, BlockSound

LEMMA DeploySound ==
  ASSUME NEW d \in Deployment
  PROVE  Sound(DeploySteps(d)) /\ \A i \in 1 .. Len(DeploySteps(d)) : DeploySteps(d)[i].name = d.name
<1>0. d.name \in Apps /\ d.program \in Programs /\ d.watched \in BOOLEAN
  BY DeploymentType
<1>1. Block(DeploySteps(d), d.name, DeployTypes(d), DeployOutcome(d))
  BY DeployBlock
<1>2. PICK K, o : K = DeployTypes(d) /\ o = DeployOutcome(d)
  OBVIOUS
<1>3. /\ K \subseteq Kinds \ Saving /\ "unlinkPath" \notin K
      /\ {"openService", "service", "reload", "start", "startPath"} \subseteq K \ {"finish"}
      /\ d.watched => {"openPath", "path"} \subseteq K \ {"finish"}
      /\ ~d.watched => "path" \notin K
  BY <1>2 DEF DeployTypes, Written, Watch, Waits, Kinds, CallKinds, Writes, Saving
<1>4. /\ o.running = (IF Cold(d.name) THEN {d.program} ELSE Programs)
      /\ o.watched = (IF d.watched THEN {TRUE} ELSE BOOLEAN)
  BY <1>2 DEF DeployOutcome, Outcome
<1>5. WatchKept(d.name, o.watched, K \ {"finish"})
  BY <1>0, <1>3, <1>4 DEF WatchKept, WatchOn
<1>6. Kept(d.name, o.running, K \ {"finish"})
  <2>1. o.running \subseteq Programs
    BY <1>0, <1>4
  <2>2. Promise(d.name, o.running, K \ {"finish"})
    BY <1>3, <1>4 DEF Promise
  <2> QED  BY <2>1, <2>2 DEF Kept
<1>7. Sound(DeploySteps(d))
  BY <1>0, <1>1, <1>2, <1>3, <1>5, <1>6, BlockSound DEF Vowed
<1> QED  BY <1>1, <1>7 DEF Block

LEMMA StartSound ==
  ASSUME NEW config \in Configs
  PROVE  Sound(ForEach(config, DeploySteps))
<1>1. /\ config \in Seq(Deployment)
      /\ \A i, j \in DOMAIN config : config[i].name = config[j].name => i = j
  BY RegistryAssumption
<1>2. PICK seqs : seqs = [i \in DOMAIN config |-> DeploySteps(config[i])]
  OBVIOUS
<1>3. DOMAIN config = 1 .. Len(config) /\ Len(config) \in Nat
  BY <1>1, LenProperties
<1>4. \A i \in 1 .. Len(config) : config[i] \in Deployment /\ seqs[i] = DeploySteps(config[i])
  BY <1>1, <1>2, <1>3, ElementOfSeq
<1>5. \A i \in 1 .. Len(config) :
        /\ Sound(seqs[i]) /\ seqs[i] \in Seq(AnyStep)
        /\ \A j \in 1 .. Len(seqs[i]) : seqs[i][j].name = config[i].name
  <2> TAKE i \in 1 .. Len(config)
  <2>1. PICK d \in Deployment : d = config[i] /\ seqs[i] = DeploySteps(d)
    BY <1>4
  <2>2. Sound(DeploySteps(d)) /\ \A j \in 1 .. Len(DeploySteps(d)) : DeploySteps(d)[j].name = d.name
    BY DeploySound
  <2>3. DeploySteps(d) \in Seq(AnyStep)
    BY <2>2 DEF Sound
  <2> QED  BY <2>1, <2>2, <2>3
<1>6. seqs \in Seq(Seq(AnyStep)) /\ Len(seqs) = Len(config)
  <2>1. Seq(Seq(AnyStep)) = UNION {[1 .. n -> Seq(AnyStep)] : n \in Nat}
    BY SeqDef
  <2>2. seqs \in [1 .. Len(config) -> Seq(AnyStep)]
    BY <1>2, <1>3, <1>5
  <2>3. seqs \in Seq(Seq(AnyStep))
    BY <1>3, <2>1, <2>2
  <2>4. DOMAIN seqs = 1 .. Len(config) /\ DOMAIN seqs = 1 .. Len(seqs) /\ Len(seqs) \in Nat
    BY <2>2, <2>3, LenProperties
  <2> QED  BY <1>3, <2>3, <2>4
<1>7. PICK N : N = [i \in 1 .. Len(config) |-> config[i].name]
  OBVIOUS
<1>8. \A b, c \in 1 .. Len(seqs) : N[b] = N[c] => b = c
  BY <1>1, <1>3, <1>6, <1>7
<1>9. \A b \in 1 .. Len(seqs) : Sound(seqs[b])
  BY <1>5, <1>6
<1>10. \A b \in 1 .. Len(seqs) : \A i \in 1 .. Len(seqs[b]) : seqs[b][i].name = N[b]
  BY <1>5, <1>6, <1>7
<1>11. Sound(FlattenSeq(seqs))
  BY <1>6, <1>8, <1>9, <1>10, ManySound
<1> QED  BY <1>2, <1>11 DEF ForEach

\* A block of a save: the saved app is enabled first.
LEMMA EnableBlock ==
  ASSUME NEW n \in Names
  PROVE  /\ EnableSteps(n) \in Seq(AnyStep)
         /\ \A i \in 1 .. Len(EnableSteps(n)) :
              EnableSteps(n)[i].name = n /\ EnableSteps(n)[i].do \in Saving
         /\ Prepared(EnableSteps(n), Of("saved"), "enable", {})
<1>1. PICK s, t, q : s = Do("enable", n) /\ t = Do("saved", n) /\ q = << s, t >>
  OBVIOUS
<1>2. /\ s \in AnyStep /\ s.do = "enable" /\ s.name = n
      /\ t \in AnyStep /\ t.do = "saved" /\ t.name = n
  BY <1>1, DoIsStep DEF CallKinds
<1>3. q \in Seq(AnyStep) /\ Len(q) = 2 /\ q[1] = s /\ q[2] = t
  BY <1>1, <1>2
<1>4. \A i \in 1 .. Len(q) : i = 1 \/ i = 2
  BY <1>3
<1>5. \A i \in 1 .. Len(q) : q[i] \in Of("saved") => i = 2 /\ 1 \in 1 .. (i - 1)
  BY <1>2, <1>3, <1>4 DEF Of
<1>6. Prepared(q, Of("saved"), "enable", {})
  BY <1>2, <1>3, <1>5 DEF Prepared
<1>7. \A i \in 1 .. Len(q) : q[i].name = n /\ q[i].do \in Saving
  BY <1>2, <1>3, <1>4 DEF Saving
<1>8. q = EnableSteps(n)
  BY <1>1 DEF EnableSteps
<1> QED  BY <1>3, <1>6, <1>7, <1>8

LEMMA SaveSound ==
  ASSUME NEW ns \in SetToSeqs(Listed)
  PROVE  SoundSave(ForEach(ns, EnableSteps))
<1>1. Listed \subseteq Names
  BY DEF Listed
<1>2. PICK blocks : blocks = {EnableSteps(n) : n \in Listed}
  OBVIOUS
<1>3. blocks \in SUBSET Seq(AnyStep)
  BY <1>1, <1>2, EnableBlock
<1>4. PICK k \in Nat : ns \in [1 .. k -> Listed]
  <2>1. ns \in [1 .. Cardinality(Listed) -> Listed]
    BY DEF SetToSeqs
  <2>2. Cardinality(Listed) \in Nat
    BY <1>1, RegistryAssumption, FS_Subset, FS_CardinalityType
  <2> QED  BY <2>1, <2>2
<1>5. PICK seqs : seqs = [i \in DOMAIN ns |-> EnableSteps(ns[i])]
  OBVIOUS
<1>6. seqs \in Seq(blocks)
  <2>1. seqs \in [1 .. k -> blocks]
    BY <1>2, <1>4, <1>5
  <2>2. Seq(blocks) = UNION {[1 .. n -> blocks] : n \in Nat}
    BY SeqDef
  <2> QED  BY <2>1, <2>2
<1>7. PICK q : q = FlattenSeq(seqs)
  OBVIOUS
<1>8. q \in Seq(AnyStep) /\ MadeOf(q, blocks)
  BY <1>3, <1>6, <1>7, FlattenMadeOf
<1>9. \A blk \in blocks : Prepared(blk, Of("saved"), "enable", {})
  BY <1>1, <1>2, EnableBlock
<1>10. Prepared(q, Of("saved"), "enable", {})
  BY <1>3, <1>8, <1>9, PreparedMade
<1>11. \A i \in 1 .. Len(q) : q[i].do \in Saving /\ q[i].name \in Listed /\ q[i] \in AnyStep
  <2> TAKE i \in 1 .. Len(q)
  <2>1. PICK blk \in blocks, off \in Nat : i - off \in 1 .. Len(blk) /\ BlockAt(q, off, blk)
    BY <1>8 DEF MadeOf
  <2>2. PICK p : p = i - off
    OBVIOUS
  <2>3. p \in 1 .. Len(blk) /\ i = off + p
    BY <2>1, <2>2, <1>8, LenProperties
  <2>4. q[i] = blk[p]
    BY <2>1, <2>3 DEF BlockAt
  <2>5. PICK n \in Listed : blk = EnableSteps(n)
    BY <1>2
  <2>6. blk[p].name = n /\ blk[p].do \in Saving
    BY <1>1, <2>3, <2>5, EnableBlock
  <2>7. q[i] \in AnyStep
    BY <1>8, ElementOfSeq
  <2> QED  BY <2>4, <2>6, <2>7
<1>12. Ordered(q) /\ AllFit(q)
  BY <1>11 DEF Ordered, AllFit, Backwards, Saving
<1>13. \A i \in 1 .. Len(q) : q[i].do = "saved" => "enable" \in Before(q, i)
  BY <1>10, <1>11 DEF Prepared, Of, Before
<1>14. SoundSave(q)
  BY <1>8, <1>11, <1>12, <1>13 DEF SoundSave, Listed
<1> QED  BY <1>5, <1>7, <1>14 DEF ForEach

\* What a client begins.
LEMMA CommandSound ==
  ASSUME OwnCompanions, disk.service \in [Names -> Unit],
         \A a \in Apps : AppUnit(disk.service[a]),
         NEW command \in Commands, NEW steps \in StepsOf(command)
  PROVE  /\ command # "save" => Sound(steps)
         /\ command = "save" => SoundSave(steps)
         /\ command # "delete" => \A i \in 1 .. Len(steps) : steps[i].do \notin Deletes
<1>0. command \in {"start", "up", "stop", "restart", "delete", "save"}
  BY RegistryAssumption
<1>1. CASE command = "start"
  <2>1. PICK config \in Configs : steps = ForEach(config, DeploySteps)
    BY <1>1 DEF StepsOf
  <2>2. Good(steps, StartKinds)
    BY <2>1, DeployEach
  <2>3. \A i \in 1 .. Len(steps) : steps[i].do \notin Deletes
    BY <2>2 DEF Good, OfKinds, StartKinds, Deletes, Unlinks
  <2> QED  BY <1>1, <2>1, <2>3, StartSound
<1>2. CASE command = "up"
  <2>1. PICK ns \in Targets : steps = ForEach(ns, StartSteps) \o ForEach(ns, Started)
    BY <1>2 DEF StepsOf
  <2>2. PICK a \in Apps : ns = << a >>
    BY TargetOne
  <2>3. steps = StartSteps(a) \o Started(a)
    BY <2>1, <2>2, ForOne
  <2>4. ns \in Seq(Names)
    BY TargetType
  <2>5. /\ Good(ForEach(ns, StartSteps), {"start", "startPath", "await"})
        /\ Good(ForEach(ns, Started), {"finish"})
    BY <2>4, StartEach, EndEach
  <2>6. Good(steps, {"start", "startPath", "await", "finish"})
    BY <2>1, <2>5, GoodMore, GoodConcat
  <2>7. \A i \in 1 .. Len(steps) : steps[i].do \notin Deletes
    BY <2>6 DEF Good, OfKinds, Deletes, Unlinks
  <2> QED  BY <1>2, <2>3, <2>7, UpSound
<1>3. CASE command = "stop"
  <2>1. PICK ns \in Targets : steps = ForEach(ns, StopSteps) \o ForEach(ns, Ended)
    BY <1>3 DEF StepsOf
  <2>2. PICK a \in Apps : ns = << a >>
    BY TargetOne
  <2>3. steps = StopSteps(a) \o Ended(a)
    BY <2>1, <2>2, ForOne
  <2>4. ns \in Seq(Names)
    BY TargetType
  <2>5. /\ Good(ForEach(ns, StopSteps), {"stop", "stopPath", "await"})
        /\ Good(ForEach(ns, Ended), {"finish"})
    BY <2>4, StopEach, EndEach
  <2>6. Good(steps, {"stop", "stopPath", "await", "finish"})
    BY <2>1, <2>5, GoodMore, GoodConcat
  <2>7. \A i \in 1 .. Len(steps) : steps[i].do \notin Deletes
    BY <2>6 DEF Good, OfKinds, Deletes, Unlinks
  <2> QED  BY <1>3, <2>3, <2>7, StopSound
<1>4. CASE command = "restart"
  <2>1. PICK ns \in Targets : steps = ForEach(ns, RestartSteps) \o ForEach(ns, Restarted)
    BY <1>4 DEF StepsOf
  <2>2. PICK a \in Apps : ns = << a >>
    BY TargetOne
  <2>3. steps = RestartSteps(a) \o Restarted(a)
    BY <2>1, <2>2, ForOne
  <2>4. ns \in Seq(Names)
    BY TargetType
  <2>5. /\ Good(ForEach(ns, RestartSteps), {"restart", "await"})
        /\ Good(ForEach(ns, Restarted), {"finish"})
    BY <2>4, RestartEach, EndEach
  <2>6. Good(steps, {"restart", "await", "finish"})
    BY <2>1, <2>5, GoodMore, GoodConcat
  <2>7. \A i \in 1 .. Len(steps) : steps[i].do \notin Deletes
    BY <2>6 DEF Good, OfKinds, Deletes, Unlinks
  <2> QED  BY <1>4, <2>3, <2>7, AgainSound
<1>5. CASE command = "delete"
  <2>1. PICK ns \in Targets \ {<< >>} : steps = DeleteCommand(ns)
    BY <1>5 DEF StepsOf
  <2>2. PICK a \in Apps : ns = << a >>
    BY TargetOne
  <2>3. Head(ns) = a
    BY <2>2
  <2>4. steps = DeleteSteps(a) \o << Do("reload", a) >> \o Ended(a)
    BY <2>1, <2>2, <2>3, ForOne DEF DeleteCommand
  <2> QED  BY <1>5, <2>4, DeleteSound
<1>6. CASE command = "save"
  <2>1. PICK ns \in SetToSeqs(Listed) : steps = ForEach(ns, EnableSteps)
    BY <1>6 DEF StepsOf
  <2>2. SoundSave(steps)
    BY <2>1, SaveSound
  <2> QED  BY <1>6, <2>2 DEF SoundSave, Saving, Deletes, Unlinks
<1> QED  BY <1>0, <1>1, <1>2, <1>3, <1>4, <1>5, <1>6

-----------------------------------------------------------------------------
(* What the step of a client changes. *)

\* What is written is lost: the disk is full.
Lost == disk' = disk /\ torn' = torn

Opening == {"openService", "openHelper", "openPath"}
Closing == {"service", "helper", "path"}

FileEffect(c, kind, n) ==
  /\ disk' \in Disks /\ torn' \in Torn
  /\ kind \notin Changes => disk'.service = disk.service
  /\ kind = "openService" => disk'.service = [disk.service EXCEPT ![n] = Empty]
  /\ kind = "service" =>
       Lost \/ disk'.service = [disk.service EXCEPT ![n] = Head(todo[c]).unit]
  /\ kind = "openHelper" => disk'.service = [disk.service EXCEPT ![HelperOf[n]] = Empty]
  /\ kind = "helper" => Lost \/ disk'.service = [disk.service EXCEPT ![HelperOf[n]] = Companion]
  /\ kind = "unlinkService" => disk'.service = [disk.service EXCEPT ![n] = NoUnit]
  /\ kind = "unlinkHelper" /\ n \in Apps =>
       disk'.service = [disk.service EXCEPT ![HelperOf[n]] = NoUnit]
  /\ kind \notin {"openPath", "path", "unlinkPath"} => disk'.path = disk.path
  /\ kind = "path" => Lost \/ disk'.path = disk.path \cup {n}
  /\ kind \in {"openPath", "unlinkPath"} => disk'.path = disk.path \ {n}

TornEffect(kind, n) ==
  /\ kind \notin Opening \cup Closing => torn' = torn
  /\ kind = "openService" => torn' = [torn EXCEPT !.service = @ \cup {n}]
  /\ kind = "openHelper" => torn' = [torn EXCEPT !.helper = @ \cup {n}]
  /\ kind = "openPath" => torn' = [torn EXCEPT !.path = @ \cup {n}]
  /\ kind = "service" => Lost \/ torn' = [torn EXCEPT !.service = @ \ {n}]
  /\ kind = "helper" => Lost \/ torn' = [torn EXCEPT !.helper = @ \ {n}]
  /\ kind = "path" => Lost \/ torn' = [torn EXCEPT !.path = @ \ {n}]

JobEffect(kind, n) ==
  /\ mgr' \in Managers
  /\ mgr'.running = mgr.running
  /\ kind \notin {"start", "restart", "stop"} => mgr'.job = mgr.job
  /\ kind \notin {"reload", "start", "restart", "stop"} => mgr'.loaded = mgr.loaded
  /\ kind = "reload" => mgr'.loaded = disk.service
  /\ kind \in {"start", "restart", "stop"} =>
       \/ /\ mgr'.loaded = [mgr.loaded EXCEPT ![n] = Lookup(n)]
          /\ mgr'.job = [mgr.job EXCEPT ![n] = Merged(mgr.job[n], kind)]
       \/ /\ kind = "stop" /\ Lookup(n) = NoUnit /\ mgr.running[n] = Off
          /\ mgr'.loaded = mgr.loaded /\ mgr'.job = mgr.job
  /\ kind \in {"start", "restart"} => Lookup(n) \notin Unusable

WatchEffect(kind, n) ==
  /\ kind \notin {"startPath", "stopPath"} => mgr'.watching = mgr.watching
  /\ kind = "startPath" => mgr'.watching = mgr.watching \cup ({n} \cap disk.path)
  /\ kind = "stopPath" => \/ mgr'.watching = mgr.watching \ {n}
                          \/ n \notin disk.path /\ mgr'.watching = mgr.watching
  /\ kind \notin {"enable", "disable"} =>
       mgr'.bootService = mgr.bootService /\ mgr'.bootPath = mgr.bootPath
  /\ kind = "enable" =>
       /\ disk.service[n] # Empty
       /\ mgr'.bootService = IF disk.service[n].program \in Programs
                             THEN mgr.bootService \cup {n} ELSE mgr.bootService
       /\ mgr'.bootPath = mgr.bootPath \cup ({n} \cap disk.path)
  /\ kind = "disable" =>
       /\ mgr.bootService \ {n} \subseteq mgr'.bootService
       /\ mgr.bootPath \ {n} \subseteq mgr'.bootPath
       /\ mgr'.bootService \subseteq mgr.bootService

PromiseEffect(c, kind, n) ==
  /\ kind # "finish" => expected' = expected
  /\ kind = "finish" =>
       expected' = [a \in Apps |-> IF a = n THEN Head(todo[c]).outcome ELSE expected[a]]
  /\ kind # "saved" => saved' = saved
  /\ kind = "saved" => /\ saved'.apps = saved.apps \cup ({n} \cap Apps)
                       /\ saved'.watches = saved.watches \cup ({n} \cap disk.path)

Effect(c, kind, n) ==
  /\ FileEffect(c, kind, n) /\ TornEffect(kind, n) /\ JobEffect(kind, n)
  /\ WatchEffect(kind, n) /\ PromiseEffect(c, kind, n)

LEMMA WithJobEffect ==
  ASSUME mgr \in Managers, disk \in Disks, NEW n \in Names, NEW asked \in {"start", "stop", "restart"},
         mgr' = WithJob(n, asked), asked # "stop" => Lookup(n) \notin Unusable
  PROVE  /\ JobEffect(asked, n) /\ WatchEffect(asked, n)
<1>1. mgr' \in Managers
  BY WithJobType
<1>2. WithJob(n, asked) = [mgr EXCEPT !.loaded = [mgr.loaded EXCEPT ![n] = Lookup(n)],
                                      !.job = [mgr.job EXCEPT ![n] = Merged(mgr.job[n], asked)]]
  BY DEF WithJob, Managers
<1>3. /\ mgr'.loaded = [mgr.loaded EXCEPT ![n] = Lookup(n)]
      /\ mgr'.job = [mgr.job EXCEPT ![n] = Merged(mgr.job[n], asked)]
      /\ mgr'.running = mgr.running /\ mgr'.watching = mgr.watching
      /\ mgr'.bootService = mgr.bootService /\ mgr'.bootPath = mgr.bootPath
  BY <1>2 DEF Managers
<1> QED  BY <1>1, <1>3 DEF JobEffect, WatchEffect

LEMMA FilesEffect ==
  ASSUME RegType, NEW c \in Clients, NEW n \in Names, FileStep(c, n), ~FileFails(c, n)
  PROVE  \E kind \in Writes \cup Unlinks :
           Moved(c, kind, n, {}) /\ Effect(c, kind, n) /\ used'.failures = used.failures
<1>0. /\ disk \in Disks /\ mgr \in Managers /\ TodoType /\ disk' \in Disks
      /\ torn \in Torn /\ torn' \in Torn
  BY DiskStep, TornStep DEF RegType
<1>1. ASSUME NEW kind \in Writes \cup Unlinks, NEW result, Files(c, kind, n, result),
             FileEffect(c, kind, n), TornEffect(kind, n)
      PROVE  Moved(c, kind, n, {}) /\ Effect(c, kind, n) /\ used'.failures = used.failures
  <2>1. Moved(c, kind, n, {}) /\ used' = used
    BY <1>0, <1>1, DoingTail DEF Files, Step
  <2>2. mgr' = mgr /\ expected' = expected /\ saved' = saved
    BY <1>1 DEF Files
  <2>3. kind \notin CallKinds \cup {"finish"}
    BY DEF Writes, Unlinks, CallKinds
  <2>4. JobEffect(kind, n) /\ WatchEffect(kind, n) /\ PromiseEffect(c, kind, n)
    BY <1>0, <2>2, <2>3 DEF JobEffect, WatchEffect, PromiseEffect, CallKinds
  <2> QED  BY <1>1, <2>1, <2>4 DEF Effect
<1>2. CASE WriteEnv(c, n)
  <2>1. FileEffect(c, "env", n)
    BY <1>0, <1>2 DEF WriteEnv, Files, FileEffect, Changes, Disks
  <2>2. TornEffect("env", n)
    BY <1>0, <1>2 DEF WriteEnv, TornEffect, Opening, Closing, Torn
  <2> QED  BY <1>1, <1>2, <2>1, <2>2 DEF WriteEnv, Writes
<1>3. CASE OpenService(c, n)
  <2>1. FileEffect(c, "openService", n)
    BY <1>0, <1>3 DEF OpenService, Opens, Files, FileEffect, Changes, Disks
  <2>2. TornEffect("openService", n)
    BY <1>0, <1>3 DEF OpenService, Opens, TornEffect, Opening, Closing, Torn
  <2> QED  BY <1>1, <1>3, <2>1, <2>2 DEF OpenService, Opens, Writes
<1>4. CASE WriteService(c, n)
  <2>1. FileEffect(c, "service", n)
    BY <1>0, <1>4 DEF WriteService, Closes, Files, FileEffect, Changes, Disks
  <2>2. TornEffect("service", n)
    BY <1>0, <1>4 DEF WriteService, Closes, TornEffect, Opening, Closing, Torn
  <2> QED  BY <1>1, <1>4, <2>1, <2>2 DEF WriteService, Closes, Writes
<1>5. CASE OpenHelper(c, n)
  <2>1. FileEffect(c, "openHelper", n)
    BY <1>0, <1>5 DEF OpenHelper, Opens, Files, FileEffect, Changes, Disks
  <2>2. TornEffect("openHelper", n)
    BY <1>0, <1>5 DEF OpenHelper, Opens, TornEffect, Opening, Closing, Torn
  <2> QED  BY <1>1, <1>5, <2>1, <2>2 DEF OpenHelper, Opens, Writes
<1>6. CASE WriteHelper(c, n)
  <2>1. FileEffect(c, "helper", n)
    BY <1>0, <1>6 DEF WriteHelper, Closes, Files, FileEffect, Changes, Disks
  <2>2. TornEffect("helper", n)
    BY <1>0, <1>6 DEF WriteHelper, Closes, TornEffect, Opening, Closing, Torn
  <2> QED  BY <1>1, <1>6, <2>1, <2>2 DEF WriteHelper, Closes, Writes
<1>7. CASE OpenPath(c, n)
  <2>1. FileEffect(c, "openPath", n)
    BY <1>0, <1>7 DEF OpenPath, Opens, Files, FileEffect, Changes, Disks
  <2>2. TornEffect("openPath", n)
    BY <1>0, <1>7 DEF OpenPath, Opens, TornEffect, Opening, Closing, Torn
  <2> QED  BY <1>1, <1>7, <2>1, <2>2 DEF OpenPath, Opens, Writes
<1>8. CASE WritePath(c, n)
  <2>1. FileEffect(c, "path", n)
    BY <1>0, <1>8 DEF WritePath, Closes, Files, FileEffect, Changes, Disks
  <2>2. TornEffect("path", n)
    BY <1>0, <1>8 DEF WritePath, Closes, TornEffect, Opening, Closing, Torn
  <2> QED  BY <1>1, <1>8, <2>1, <2>2 DEF WritePath, Closes, Writes
<1>9. CASE UnlinkService(c, n)
  <2>1. FileEffect(c, "unlinkService", n)
    BY <1>0, <1>9 DEF UnlinkService, Removes, Files, FileEffect, Changes, Disks
  <2>2. TornEffect("unlinkService", n)
    BY <1>0, <1>9 DEF UnlinkService, Removes, TornEffect, Opening, Closing, Torn
  <2> QED  BY <1>1, <1>9, <2>1, <2>2 DEF UnlinkService, Removes, Unlinks
<1>10. CASE UnlinkPath(c, n)
  <2>1. FileEffect(c, "unlinkPath", n)
    BY <1>0, <1>10 DEF UnlinkPath, Removes, Files, FileEffect, Changes, Disks
  <2>2. TornEffect("unlinkPath", n)
    BY <1>0, <1>10 DEF UnlinkPath, Removes, TornEffect, Opening, Closing, Torn
  <2> QED  BY <1>1, <1>10, <2>1, <2>2 DEF UnlinkPath, Removes, Unlinks
<1>11. CASE UnlinkHelper(c, n)
  <2>1. FileEffect(c, "unlinkHelper", n)
    BY <1>0, <1>11 DEF UnlinkHelper, Removes, Files, FileEffect, Changes, Disks
  <2>2. TornEffect("unlinkHelper", n)
    BY <1>0, <1>11 DEF UnlinkHelper, Removes, TornEffect, Opening, Closing, Torn
  <2> QED  BY <1>1, <1>11, <2>1, <2>2 DEF UnlinkHelper, Removes, Unlinks
<1>12. CASE UnlinkEnv(c, n)
  <2>1. FileEffect(c, "unlinkEnv", n)
    BY <1>0, <1>12 DEF UnlinkEnv, Removes, Files, FileEffect, Changes, Disks
  <2>2. TornEffect("unlinkEnv", n)
    BY <1>0, <1>12 DEF UnlinkEnv, Removes, TornEffect, Opening, Closing, Torn
  <2> QED  BY <1>1, <1>12, <2>1, <2>2 DEF UnlinkEnv, Removes, Unlinks
<1>13. CASE WriteLost(c, n)
  <2>1. PICK kind \in {"service", "helper", "path"} : Moved(c, kind, n, {})
    BY <1>0, <1>13, LostMoves
  <2>2. /\ disk' = disk /\ torn' = torn /\ mgr' = mgr /\ expected' = expected /\ saved' = saved
        /\ used'.failures = used.failures
    BY <1>13 DEF WriteLost, RegType, Uses
  <2>3. FileEffect(c, kind, n) /\ TornEffect(kind, n)
    BY <1>0, <2>2 DEF FileEffect, TornEffect, Lost, Opening, Closing, Changes
  <2>4. JobEffect(kind, n) /\ WatchEffect(kind, n) /\ PromiseEffect(c, kind, n)
    BY <1>0, <2>2 DEF JobEffect, WatchEffect, PromiseEffect
  <2>5. kind \in Writes \cup Unlinks
    BY DEF Writes
  <2> QED  BY <2>1, <2>2, <2>3, <2>4, <2>5 DEF Effect
<1> QED  BY <1>2, <1>3, <1>4, <1>5, <1>6, <1>7, <1>8, <1>9, <1>10, <1>11, <1>12, <1>13 DEF FileStep

LEMMA CallsEffect ==
  ASSUME RegType, NEW c \in Clients, NEW n \in Names, CallStep(c, n),
         ~Refused(c, n), ~CallFails(c, n)
  PROVE  \E kind \in CallKinds \cup {"finish"} :
           Moved(c, kind, n, {}) /\ Effect(c, kind, n) /\ used'.failures = used.failures
<1>0. disk \in Disks /\ mgr \in Managers /\ TodoType /\ mgr' \in Managers /\ torn \in Torn
  BY MgrStep DEF RegType
<1>1. ASSUME NEW kind \in CallKinds, NEW result, Calls(c, kind, n, result), kind # "saved",
             JobEffect(kind, n), WatchEffect(kind, n)
      PROVE  Moved(c, kind, n, {}) /\ Effect(c, kind, n) /\ used'.failures = used.failures
  <2>1. Moved(c, kind, n, {}) /\ used' = used
    BY <1>0, <1>1, DoingTail DEF Calls, Step
  <2>2. disk' = disk /\ expected' = expected /\ saved' = saved /\ torn' = torn
    BY <1>1 DEF Calls
  <2>3. kind \notin Writes \cup Unlinks \cup {"finish"}
    BY DEF Writes, Unlinks, CallKinds
  <2>4. FileEffect(c, kind, n) /\ PromiseEffect(c, kind, n)
    BY <1>0, <1>1, <2>2, <2>3 DEF FileEffect, PromiseEffect, Writes, Unlinks, Changes
  <2>5. TornEffect(kind, n)
    BY <2>2, <2>3 DEF TornEffect, Opening, Closing, Writes
  <2> QED  BY <1>1, <2>1, <2>4, <2>5 DEF Effect
<1>2. {"reload", "start", "startPath", "stop", "stopPath", "await", "restart", "enable",
       "disable"} \subseteq CallKinds \ {"saved"}
  BY DEF CallKinds
<1>3. CASE Reload(c, n)
  <2>1. mgr' = [mgr EXCEPT !.loaded = disk.service]
    BY <1>3 DEF Reload, Calls
  <2>2. JobEffect("reload", n) /\ WatchEffect("reload", n)
    BY <1>0, <2>1 DEF JobEffect, WatchEffect, Managers
  <2> QED  BY <1>1, <1>2, <1>3, <2>2 DEF Reload
<1>4. CASE Start(c, n)
  <2>1. mgr' = WithJob(n, "start") /\ Lookup(n) \notin Unusable
    BY <1>4 DEF Start, Calls
  <2>2. JobEffect("start", n) /\ WatchEffect("start", n)
    BY <1>0, <2>1, WithJobEffect
  <2> QED  BY <1>1, <1>2, <1>4, <2>2 DEF Start
<1>5. CASE StartPath(c, n)
  <2>1. mgr' = IF n \in disk.path THEN [mgr EXCEPT !.watching = @ \cup {n}] ELSE mgr
    BY <1>5 DEF StartPath, Calls
  <2>2. JobEffect("startPath", n) /\ WatchEffect("startPath", n)
    BY <1>0, <2>1 DEF JobEffect, WatchEffect, Managers
  <2> QED  BY <1>1, <1>2, <1>5, <2>2 DEF StartPath
<1>6. CASE Stop(c, n)
  <2>1. mgr' = IF Lookup(n) = NoUnit /\ mgr.running[n] = Off THEN mgr ELSE WithJob(n, "stop")
    BY <1>6 DEF Stop, Calls
  <2>2. JobEffect("stop", n) /\ WatchEffect("stop", n)
    <3>1. CASE mgr' = WithJob(n, "stop")
      BY <1>0, <3>1, WithJobEffect
    <3>2. CASE mgr' = mgr /\ Lookup(n) = NoUnit /\ mgr.running[n] = Off
      BY <1>0, <3>2 DEF JobEffect, WatchEffect
    <3> QED  BY <2>1, <3>1, <3>2
  <2> QED  BY <1>1, <1>2, <1>6, <2>2 DEF Stop
<1>7. CASE StopPath(c, n)
  <2>1. \/ mgr' = [mgr EXCEPT !.watching = @ \ {n}]
        \/ n \notin disk.path /\ mgr' = mgr
    BY <1>7 DEF StopPath, Calls
  <2>2. JobEffect("stopPath", n) /\ WatchEffect("stopPath", n)
    BY <1>0, <2>1 DEF JobEffect, WatchEffect, Managers
  <2> QED  BY <1>1, <1>2, <1>7, <2>2 DEF StopPath
<1>8. CASE Await(c, n)
  <2>1. mgr' = mgr
    BY <1>8 DEF Await, Calls
  <2>2. JobEffect("await", n) /\ WatchEffect("await", n)
    BY <1>0, <2>1 DEF JobEffect, WatchEffect
  <2> QED  BY <1>1, <1>2, <1>8, <2>2 DEF Await
<1>9. CASE Restart(c, n)
  <2>1. mgr' = WithJob(n, "restart") /\ Lookup(n) \notin Unusable
    BY <1>9 DEF Restart, Calls
  <2>2. JobEffect("restart", n) /\ WatchEffect("restart", n)
    BY <1>0, <2>1, WithJobEffect
  <2> QED  BY <1>1, <1>2, <1>9, <2>2 DEF Restart
<1>10. CASE Enable(c, n)
  <2>1. PICK services, paths :
          /\ services = IF disk.service[n].program \in Programs
                        THEN mgr.bootService \cup {n} ELSE mgr.bootService
          /\ paths = IF n \in disk.path THEN mgr.bootPath \cup {n} ELSE mgr.bootPath
    OBVIOUS
  <2>2. mgr' = [mgr EXCEPT !.bootService = services, !.bootPath = paths]
    BY <1>0, <1>10, <2>1 DEF Enable, Calls, Managers
  <2>3. paths = mgr.bootPath \cup ({n} \cap disk.path)
    BY <2>1
  <2>4. /\ mgr'.loaded = mgr.loaded /\ mgr'.job = mgr.job /\ mgr'.running = mgr.running
        /\ mgr'.watching = mgr.watching /\ mgr'.bootService = services
        /\ mgr'.bootPath = paths
    BY <1>0, <2>2 DEF Managers
  <2>6. disk.service[n] # Empty
    BY <1>10 DEF Enable
  <2>5. JobEffect("enable", n) /\ WatchEffect("enable", n)
    BY <1>0, <2>1, <2>3, <2>4, <2>6 DEF JobEffect, WatchEffect
  <2> QED  BY <1>1, <1>2, <1>10, <2>5 DEF Enable
<1>11. CASE Disable(c, n)
  <2>1. \/ mgr' = [mgr EXCEPT !.bootService = @ \ {n}, !.bootPath = @ \ {n}]
        \/ mgr' = mgr
    BY <1>11 DEF Disable, Calls
  <2>2. JobEffect("disable", n) /\ WatchEffect("disable", n)
    <3>1. CASE mgr' = mgr
      BY <1>0, <3>1 DEF JobEffect, WatchEffect
    <3>2. CASE mgr' = [mgr EXCEPT !.bootService = @ \ {n}, !.bootPath = @ \ {n}]
      <4>1. /\ mgr'.loaded = mgr.loaded /\ mgr'.job = mgr.job /\ mgr'.running = mgr.running
            /\ mgr'.watching = mgr.watching /\ mgr'.bootService = mgr.bootService \ {n}
            /\ mgr'.bootPath = mgr.bootPath \ {n}
        BY <1>0, <3>2 DEF Managers
      <4> QED  BY <1>0, <4>1 DEF JobEffect, WatchEffect
    <3> QED  BY <2>1, <3>1, <3>2
  <2>3. \E result : Calls(c, "disable", n, result)
    BY <1>11 DEF Disable
  <2> QED  BY <1>1, <1>2, <2>2, <2>3
<1>12. CASE End(c, n)
  <2>1. Moved(c, "finish", n, {}) /\ used' = used
    BY <1>0, <1>12, DoingTail DEF End, Step
  <2>2. disk' = disk /\ mgr' = mgr /\ saved' = saved /\ torn' = torn
    BY <1>12 DEF End
  <2>3. Effect(c, "finish", n)
    BY <1>0, <1>12, <2>2 DEF End, Effect, FileEffect, TornEffect, JobEffect,
         WatchEffect, PromiseEffect, Opening, Closing, Changes
  <2> QED  BY <2>1, <2>3
<1>13. CASE Saved(c, n)
  <2>1. Moved(c, "saved", n, {}) /\ used' = used
    BY <1>0, <1>13, DoingTail DEF Saved, Step
  <2>2. disk' = disk /\ mgr' = mgr /\ expected' = expected /\ torn' = torn
    BY <1>13 DEF Saved
  <2>3. Effect(c, "saved", n)
    BY <1>0, <1>13, <2>2 DEF Saved, Effect, FileEffect, TornEffect, JobEffect,
         WatchEffect, PromiseEffect, Opening, Closing, Changes
  <2> QED  BY <2>1, <2>3 DEF CallKinds
<1> QED  BY <1>3, <1>4, <1>5, <1>6, <1>7, <1>8, <1>9, <1>10, <1>11, <1>12, <1>13 DEF CallStep

LEMMA ClientEffect ==
  ASSUME RegType, NEW c \in Clients, NEW n \in Names, FileStep(c, n) \/ CallStep(c, n)
  PROVE  \/ GivenUp(c, n)
         \/ \E kind \in Kinds :
              Moved(c, kind, n, {}) /\ Effect(c, kind, n) /\ used'.failures = used.failures
BY FilesEffect, CallsEffect DEF GivenUp, Kinds

-----------------------------------------------------------------------------
(* The steps left, before and after a step.                                  *)

LEMMA HasStep ==
  ASSUME TodoType, NEW x \in Clients, NEW s, NEW P, Has(x, s, P)
  PROVE  s \in AnyStep /\ s.name \in Names /\ s.do \in Kinds
<1>1. PICK i \in 1 .. Len(todo[x]) : todo[x][i] = s
  BY DEF Has
<1>2. todo[x] \in Seq(AnyStep)
  BY DEF TodoType
<1>3. s \in AnyStep
  BY <1>1, <1>2, ElementOfSeq
<1> QED  BY <1>3, StepType DEF Kinds

LEMMA HeadHas ==
  ASSUME TodoType, NEW c \in Clients, NEW kind, NEW n, NEW D, Moved(c, kind, n, D)
  PROVE  /\ Has(c, Head(todo[c]), {})
         /\ Head(todo[c]).do = kind /\ Head(todo[c]).name = n /\ Head(todo[c]) \in AnyStep
<1>1. /\ todo[c] # << >> /\ Head(todo[c]).do = kind /\ Head(todo[c]).name = n
  BY DEF Moved
<1>2. /\ 1 \in 1 .. Len(todo[c]) /\ Head(todo[c]) = todo[c][1] /\ Head(todo[c]) \in AnyStep
  BY <1>1, HeadIs
<1>3. Before(todo[c], 1) = {}
  BY DEF Before
<1> QED  BY <1>1, <1>2, <1>3 DEF Has

\* A step is taken.
Taken(c, kind, n) == Moved(c, kind, n, {})

LEMMA TakenHas ==
  ASSUME TodoType, Separate, Lists, NEW c \in Clients, NEW kind, NEW n, Taken(c, kind, n),
         NEW x \in Clients, NEW s, NEW P, Has(x, s, P)'
  PROVE  \E O : /\ Has(x, s, O) /\ P \subseteq O
                /\ s.name # n => O = P
                /\ s.name = n =>
                     /\ x = c /\ kind \in O /\ O \subseteq P \cup {kind}
                     /\ << kind, s.do >> \notin Backwards
                     /\ \A kd \in P : << kind, kd >> \notin Backwards
                     /\ s.do = "finish" => Fits(Head(todo[c]), s.outcome)
<1>0. PICK D : D = {}
  OBVIOUS
<1>1. Moved(c, kind, n, D) /\ \A d \in D : d.name = n
  BY <1>0 DEF Taken
<1>2. PICK O : /\ Has(x, s, O) /\ P \subseteq O
               /\ s.name # n => O = P
               /\ s.name = n => /\ x = c /\ s \notin D /\ kind \in O
                                /\ \A kd \in O : \/ kd \in P \cup {kind}
                                                 \/ \E d \in D : d.do = kd
  BY <1>1, MovedHas
<1>3. s.name = n => x = c /\ kind \in O /\ O \subseteq P \cup {kind}
  BY <1>0, <1>2
<1>4. s.name = n =>
        /\ << kind, s.do >> \notin Backwards
        /\ \A kd \in P : << kind, kd >> \notin Backwards
        /\ s.do = "finish" => Fits(Head(todo[c]), s.outcome)
  <2> SUFFICES ASSUME s.name = n
               PROVE  /\ << kind, s.do >> \notin Backwards
                      /\ \A kd \in P : << kind, kd >> \notin Backwards
                      /\ s.do = "finish" => Fits(Head(todo[c]), s.outcome)
    OBVIOUS
  <2>1. Has(c, s, P)' /\ Ordered(todo[c]) /\ AllFit(todo[c])
    BY <1>3 DEF Lists
  <2> QED  BY <1>1, <2>1, MovedRules
<1> QED  BY <1>2, <1>3, <1>4

\* A step is given up.
LEMMA GivenUpHas ==
  ASSUME TodoType, Separate, NEW c \in Clients, NEW n \in Names, GivenUp(c, n),
         NEW x \in Clients, NEW s, NEW P, Has(x, s, P)'
  PROVE  \E O : /\ Has(x, s, O) /\ P \subseteq O
                /\ s.name # n => O = P
                /\ s.name = n => s.do \notin {"finish", "saved"}
                /\ s.name = n /\ "openService" \in O => "openService" \in P
                /\ s.name = n /\ Refused(c, n) =>
                     \A kd \in O : kd \in P \cup {"start", "restart", "enable", "finish", "saved"}
<1>1. PICK kind, D :
        /\ Moved(c, kind, n, D) /\ \A d \in D : d.name = n
        /\ Unpromised(c, n)'
        /\ Refused(c, n) => /\ kind \in {"start", "restart", "enable"}
                            /\ \A d \in D : d.do \in {"finish", "saved"}
        /\ \/ kind # "openService" /\ \A d \in D : d.do # "openService"
           \/ \A i \in 1 .. Len(todo'[c]) : todo'[c][i].name # n
  BY GivenUpMoves
<1>2. PICK O : /\ Has(x, s, O) /\ P \subseteq O
               /\ s.name # n => O = P
               /\ s.name = n => /\ x = c /\ s \notin D /\ kind \in O
                                /\ \A kd \in O : \/ kd \in P \cup {kind}
                                                 \/ \E d \in D : d.do = kd
  BY <1>1, MovedHas
<1>3. s.name = n => /\ s.do \notin {"finish", "saved"}
                    /\ kind # "openService" /\ \A d \in D : d.do # "openService"
  <2> SUFFICES ASSUME s.name = n
               PROVE  /\ s.do \notin {"finish", "saved"}
                      /\ kind # "openService" /\ \A d \in D : d.do # "openService"
    OBVIOUS
  <2>1. PICK i \in 1 .. Len(todo'[c]) : todo'[c][i] = s
    BY <1>2 DEF Has
  <2> QED  BY <1>1, <2>1 DEF Unpromised
<1>4. s.name = n /\ Refused(c, n) =>
        \A kd \in O : kd \in P \cup {"start", "restart", "enable", "finish", "saved"}
  BY <1>1, <1>2
<1>5. s.name = n /\ "openService" \in O => "openService" \in P
  BY <1>2, <1>3
<1> QED  BY <1>2, <1>3, <1>4, <1>5

LEMMA GivenUpLists ==
  ASSUME TodoType, Lists, NEW c \in Clients, NEW n \in Names, GivenUp(c, n)
  PROVE  Lists'
<1>1. PICK kind, D : Moved(c, kind, n, D)
  BY GivenUpMoves
<1> QED  BY <1>1, MovedLists

\* A client is killed, or the machine restarts.
LEMMA FewerHas ==
  ASSUME \A x \in Clients : todo'[x] = << >> \/ todo'[x] = todo[x]
  PROVE  /\ Lists => Lists'
         /\ \A x \in Clients : \A s, P : Has(x, s, P)' => Has(x, s, P)
<1>1. Lists => Lists'
  BY NothingOrdered DEF Lists
<1>2. ASSUME NEW x \in Clients, NEW s, NEW P, Has(x, s, P)'
      PROVE  Has(x, s, P)
  <2>1. Len(<< >>) = 0
    BY EmptySeq
  <2>2. todo'[x] = todo[x]
    BY <1>2, <2>1 DEF Has
  <2> QED  BY <1>2, <2>2 DEF Has
<1> QED  BY <1>1, <1>2

-----------------------------------------------------------------------------
(* What the lists say of the apps. *)

\* An app's file is empty only while it is written, or when that was cut short.
EmptyIsTorn(a) == /\ disk.service[a] = Empty => a \in torn.service
                  /\ disk.service[HelperOf[a]] = Empty => a \in torn.helper

\* An app's units, and what it runs, are of a program or nothing; a file that is
\* about to be written has been opened.
AppInv == /\ \A a \in Apps : /\ AppUnit(disk.service[a]) /\ AppUnit(mgr.loaded[a])
                             /\ mgr.running[a] \in MayRun /\ EmptyIsTorn(a)
          /\ \A x \in Clients : \A s, P : Has(x, s, P) /\ s.do = "service" =>
               /\ s.unit.program \in Programs
               /\ "openService" \in P \/ disk.service[s.name] = Empty

\* What is left touches apps of which nothing is promised yet, and deletes none
\* that is saved.
ListInv == /\ Lists
           /\ \A x \in Clients : \A s, P : Has(x, s, P) =>
                /\ s.do \notin Saving => s.name \in Apps /\ expected[s.name] = Anything
                /\ s.do \in Deletes => s.name \notin saved.apps /\ s.name \notin saved.watches

\* A client begins a command.
LEMMA BeginNew ==
  ASSUME OwnCompanions, RegType, AppInv,
         NEW c \in Clients, NEW command \in Commands, Begin(c, command)
  PROVE  \E q : /\ todo' = [todo EXCEPT ![c] = q]
                /\ Sound(q) \/ SoundSave(q)
                /\ UNCHANGED << disk, mgr, torn >>
                /\ \A a \in Apps : expected'[a] = Anything \/ expected'[a] = expected[a]
                /\ saved'.apps \subseteq saved.apps /\ saved'.watches \subseteq saved.watches
                /\ \A i \in 1 .. Len(q) :
                     /\ q[i].do \notin Saving => expected'[q[i].name] = Anything
                     /\ q[i].do \in Deletes =>
                          q[i].name \notin saved'.apps /\ q[i].name \notin saved'.watches
<1>1. PICK q \in StepsOf(command) :
        /\ todo' = [todo EXCEPT ![c] = q]
        /\ expected' = [a \in Apps |-> IF command # "save" /\ a \in Mentions(q)
                                       THEN Anything ELSE expected[a]]
        /\ saved' = IF command # "delete" THEN saved
                    ELSE [apps |-> saved.apps \ Mentions(q),
                          watches |-> saved.watches \ Mentions(q)]
  BY DEF Begin
<1>2. disk.service \in [Names -> Unit] /\ \A a \in Apps : AppUnit(disk.service[a])
  BY DEF RegType, Disks, AppInv
<1>3. /\ command # "save" => Sound(q)
      /\ command = "save" => SoundSave(q)
      /\ command # "delete" => \A i \in 1 .. Len(q) : q[i].do \notin Deletes
  BY <1>2, CommandSound
<1>4. q \in Seq(AnyStep)
  BY <1>3 DEF Sound, SoundSave
<1>5. \A i \in 1 .. Len(q) : q[i].name \in Mentions(q)
  BY <1>4, MentionsIs
<1>6. UNCHANGED << disk, mgr, torn >>
  BY DEF Begin
<1>7. ASSUME NEW i \in 1 .. Len(q)
      PROVE  /\ q[i].do \notin Saving => expected'[q[i].name] = Anything
             /\ q[i].do \in Deletes =>
                  q[i].name \notin saved'.apps /\ q[i].name \notin saved'.watches
  <2>1. q[i].do \notin Saving => command # "save" /\ q[i].name \in Apps
    BY <1>3 DEF SoundSave, Sound
  <2>2. q[i].do \in Deletes => command = "delete"
    BY <1>3
  <2> QED  BY <1>1, <1>5, <2>1, <2>2
<1>8. /\ \A a \in Apps : expected'[a] = Anything \/ expected'[a] = expected[a]
      /\ saved'.apps \subseteq saved.apps /\ saved'.watches \subseteq saved.watches
  BY <1>1
<1> QED  BY <1>1, <1>3, <1>6, <1>7, <1>8

Given(c, q) == todo' = [todo EXCEPT ![c] = q]

LEMMA BeginHas ==
  ASSUME TodoType, NEW c \in Clients, NEW q, Given(c, q),
         NEW x \in Clients, NEW s, NEW P, Has(x, s, P)'
  PROVE  \/ Has(x, s, P)
         \/ \E i \in 1 .. Len(q) : q[i] = s /\ Before(q, i) = P
<1>1. CASE x = c
  <2>1. todo'[c] = q
    BY DEF TodoType, Given
  <2> QED  BY <1>1, <2>1 DEF Has
<1>2. CASE x # c
  <2>1. todo'[x] = todo[x]
    BY <1>2 DEF TodoType, Given
  <2> QED  BY <1>2, <2>1 DEF Has
<1> QED  BY <1>1, <1>2

LEMMA BeginLists ==
  ASSUME TodoType, Lists, NEW c \in Clients, NEW q, todo' = [todo EXCEPT ![c] = q],
         Ordered(q), AllFit(q)
  PROVE  Lists'
<1>1. todo'[c] = q /\ \A x \in Clients \ {c} : todo'[x] = todo[x]
  BY DEF TodoType
<1> QED  BY <1>1 DEF Lists

-----------------------------------------------------------------------------
(* What the manager does by itself.                                          *)

LEMMA CompleteEffect ==
  ASSUME RegType, NEW n \in Names, Complete(n)
  PROVE  /\ mgr.job[n] # "none"
         /\ mgr'.job = [mgr.job EXCEPT ![n] = "none"]
         /\ mgr'.running = [mgr.running EXCEPT ![n] =
              CASE mgr.job[n] = "stop"                            -> Off
                [] mgr.job[n] = "start" /\ mgr.running[n] # Off   -> mgr.running[n]
                [] OTHER                                          -> Launched(n)]
         /\ mgr'.loaded = mgr.loaded /\ mgr'.watching = mgr.watching
         /\ mgr'.bootService = mgr.bootService /\ mgr'.bootPath = mgr.bootPath
         /\ UNCHANGED << disk, todo, used, expected, saved, torn >>
BY DEF Complete, RegType, Managers

LEMMA CompanionEffect ==
  ASSUME RegType, NEW a \in Apps, CompanionRuns(a)
  PROVE  /\ mgr.running[HelperOf[a]] = Restarter
         /\ mgr'.running = [mgr.running EXCEPT ![HelperOf[a]] = Off]
         /\ \/ Lookup(a) \in Unusable /\ mgr'.loaded = mgr.loaded /\ mgr'.job = mgr.job
            \/ /\ Lookup(a) \notin Unusable
               /\ mgr'.loaded = [mgr.loaded EXCEPT ![a] = Lookup(a)]
               /\ mgr'.job = [mgr.job EXCEPT ![a] = "restart"]
         /\ mgr'.watching = mgr.watching
         /\ mgr'.bootService = mgr.bootService /\ mgr'.bootPath = mgr.bootPath
         /\ UNCHANGED << disk, todo, used, expected, saved, torn >>
<1>1. PICK asked : /\ asked = IF Lookup(a) \in Unusable THEN mgr ELSE WithJob(a, "restart")
                   /\ mgr' = [asked EXCEPT !.running[HelperOf[a]] = Off]
  BY DEF CompanionRuns
<1>2. WithJob(a, "restart") = [mgr EXCEPT !.loaded = [mgr.loaded EXCEPT ![a] = Lookup(a)],
                                          !.job = [mgr.job EXCEPT ![a] = "restart"]]
  BY DEF WithJob, RegType, Managers, Merged
<1>3. mgr \in Managers /\ a \in Names /\ HelperOf[a] \in Names
  BY RegistryAssumption DEF RegType
<1>4. UNCHANGED << disk, todo, used, expected, saved, torn >> /\ mgr.running[HelperOf[a]] = Restarter
  BY DEF CompanionRuns
<1>5. CASE Lookup(a) \in Unusable
  BY <1>1, <1>3, <1>4, <1>5 DEF Managers
<1>6. CASE Lookup(a) \notin Unusable
  <2>1. asked = [mgr EXCEPT !.loaded = [mgr.loaded EXCEPT ![a] = Lookup(a)],
                            !.job = [mgr.job EXCEPT ![a] = "restart"]]
    BY <1>1, <1>2, <1>6
  <2>2. /\ asked.loaded = [mgr.loaded EXCEPT ![a] = Lookup(a)]
        /\ asked.job = [mgr.job EXCEPT ![a] = "restart"]
        /\ asked.running = mgr.running /\ asked.watching = mgr.watching
        /\ asked.bootService = mgr.bootService /\ asked.bootPath = mgr.bootPath
    BY <1>3, <2>1 DEF Managers
  <2>3. mgr' = [asked EXCEPT !.running = [mgr.running EXCEPT ![HelperOf[a]] = Off]]
    BY <1>1, <2>2
  <2>4. /\ mgr'.loaded = asked.loaded /\ mgr'.job = asked.job
        /\ mgr'.running = [mgr.running EXCEPT ![HelperOf[a]] = Off]
        /\ mgr'.watching = asked.watching /\ mgr'.bootService = asked.bootService
        /\ mgr'.bootPath = asked.bootPath
    BY <1>3, <2>1, <2>3 DEF Managers
  <2> QED  BY <1>4, <1>6, <2>2, <2>4
<1> QED  BY <1>5, <1>6

LEMMA TriggerEffect ==
  ASSUME RegType, NEW a \in Apps, Trigger(a)
  PROVE  /\ FilesChange /\ a \in mgr.watching
         /\ mgr'.running = mgr.running
         /\ \/ /\ Lookup(HelperOf[a]) \in Unusable /\ mgr'.watching = mgr.watching \ {a}
               /\ mgr'.loaded = mgr.loaded /\ mgr'.job = mgr.job
            \/ /\ Lookup(HelperOf[a]) \notin Unusable /\ mgr'.watching = mgr.watching
               /\ mgr'.loaded = [mgr.loaded EXCEPT ![HelperOf[a]] = Lookup(HelperOf[a])]
               /\ mgr'.job = [mgr.job EXCEPT ![HelperOf[a]] = Merged(mgr.job[HelperOf[a]], "start")]
         /\ mgr'.bootService = mgr.bootService /\ mgr'.bootPath = mgr.bootPath
         /\ UNCHANGED << disk, todo, used, expected, saved, torn >>
<1>1. PICK h : h = HelperOf[a]
  OBVIOUS
<1>2. /\ FilesChange /\ a \in mgr.watching
      /\ mgr' = IF Lookup(h) \in Unusable THEN [mgr EXCEPT !.watching = @ \ {a}] ELSE WithJob(h, "start")
      /\ UNCHANGED << disk, todo, used, expected, saved, torn >>
  BY <1>1 DEF Trigger
<1>3. mgr \in Managers /\ disk \in Disks /\ h \in Names
  BY <1>1, RegistryAssumption DEF RegType
<1>4. CASE Lookup(h) \in Unusable
  BY <1>1, <1>2, <1>3, <1>4 DEF Managers
<1>5. CASE Lookup(h) \notin Unusable
  <2>1. mgr' = WithJob(h, "start")
    BY <1>2, <1>5
  <2>2. JobEffect("start", h) /\ WatchEffect("start", h)
    BY <1>3, <1>5, <2>1, WithJobEffect
  <2> QED  BY <1>1, <1>2, <1>5, <2>2 DEF JobEffect, WatchEffect
<1> QED  BY <1>4, <1>5

LEMMA RebootEffect ==
  ASSUME RegType, Reboot
  PROVE  /\ mgr'.loaded = disk.service
         /\ mgr'.running = [n \in Names |-> Off]
         /\ mgr'.job = [n \in Names |-> IF n \in mgr.bootService /\ disk.service[n] \notin Unusable
                                        THEN "start" ELSE "none"]
         /\ mgr'.watching = mgr.bootPath \cap disk.path
         /\ mgr'.bootService = mgr.bootService /\ mgr'.bootPath = mgr.bootPath
         /\ disk' = disk /\ saved' = saved /\ torn' = torn
         /\ \A x \in Clients : todo'[x] = << >>
         /\ \A a \in Apps :
              expected'[a] = IF a \notin saved.apps \ torn.service THEN Anything
                             ELSE Outcome({disk.service[a].program},
                                          IF a \in saved.watches THEN {TRUE} ELSE BOOLEAN)
BY DEF Reboot, RegType, Managers

-----------------------------------------------------------------------------
(* The apps and the lists, from state to state. *)

LEMMA AppsAway ==
  ASSUME OwnCompanions
  PROVE  /\ \A a \in Apps : a \in Names /\ HelperOf[a] \in Names /\ HelperOf[a] \notin Apps
         /\ \A a, b \in Apps : HelperOf[a] = HelperOf[b] => a = b
         /\ Off \notin Programs /\ Restarter \notin Programs /\ Off # Restarter
BY RegistryAssumption DEF OwnCompanions

LEMMA AppUnitRuns ==
  ASSUME NEW unit, AppUnit(unit), unit \notin Unusable
  PROVE  unit.program \in Programs
BY DEF AppUnit

LEMMA BaseInit == Init => AppInv /\ ListInv
<1> SUFFICES ASSUME Init PROVE AppInv /\ ListInv
  OBVIOUS
<1>1. \A x \in Clients : todo[x] = << >>
  BY DEF Init
<1>2. Len(<< >>) = 0
  BY EmptySeq
<1>3. \A x \in Clients : \A s, P : ~Has(x, s, P)
  BY <1>1, <1>2 DEF Has
<1>4. Lists
  BY <1>1, NothingOrdered DEF Lists
<1>5. \A a \in Apps : /\ AppUnit(disk.service[a]) /\ AppUnit(mgr.loaded[a])
                      /\ mgr.running[a] \in MayRun /\ EmptyIsTorn(a)
  <2>1. \A n \in Names : disk.service[n] # Empty
    BY RegistryAssumption DEF Init, Empty, NoUnit
  <2> QED  BY <2>1, RegistryAssumption DEF Init, AppUnit, MayRun, EmptyIsTorn, Unusable
<1> QED  BY <1>3, <1>4, <1>5 DEF AppInv, ListInv

\* The manager's own steps change no list.
LEMMA BaseQuiet ==
  ASSUME AppInv, ListInv, UNCHANGED << disk, todo, expected, saved, torn >>,
         \A a \in Apps : AppUnit(mgr'.loaded[a]) /\ mgr'.running[a] \in MayRun
  PROVE  AppInv' /\ ListInv'
<1>1. \A x \in Clients : \A s, P : Has(x, s, P)' => Has(x, s, P)
  BY DEF Has
<1>2. Lists'
  BY DEF ListInv, Lists
<1>3. AppInv'
  BY <1>1 DEF AppInv, EmptyIsTorn
<1> QED  BY <1>1, <1>2, <1>3 DEF ListInv

LEMMA BaseManager ==
  ASSUME OwnCompanions, RegType, AppInv, ListInv,
         \/ \E n \in Names : Complete(n)
         \/ \E a \in Apps : CompanionRuns(a) \/ Trigger(a)
  PROVE  AppInv' /\ ListInv'
<1>0. mgr \in Managers /\ disk \in Disks
  BY DEF RegType
<1>1. \A a \in Apps : AppUnit(Lookup(a)) /\ Launched(a) \in MayRun
  <2> TAKE a \in Apps
  <2>1. AppUnit(Lookup(a))
    BY DEF AppInv, Lookup
  <2>2. Lookup(a) \notin Unusable => Lookup(a).program \in Programs
    BY <2>1, AppUnitRuns
  <2> QED  BY <2>1, <2>2 DEF Launched, MayRun
<1>2. ASSUME NEW n \in Names, Complete(n)
      PROVE  AppInv' /\ ListInv'
  <2>1. \A a \in Apps : AppUnit(mgr'.loaded[a])
    BY <1>2, CompleteEffect DEF AppInv
  <2>2. \A a \in Apps : mgr'.running[a] \in MayRun
    <3> TAKE a \in Apps
    <3>1. a \in Names /\ mgr.running[a] \in MayRun /\ Launched(a) \in MayRun /\ Off \in MayRun
      BY <1>1, AppsAway DEF AppInv, MayRun
    <3>2. PICK v : /\ v \in {Off, mgr.running[n], Launched(n)}
                   /\ mgr'.running = [mgr.running EXCEPT ![n] = v]
      BY <1>2, CompleteEffect
    <3>3. n = a => v \in MayRun
      BY <3>1, <3>2
    <3>4. mgr'.running[a] = IF n = a THEN v ELSE mgr.running[a]
      BY <1>0, <3>1, <3>2 DEF Managers
    <3> QED  BY <3>1, <3>3, <3>4
  <2> QED  BY <1>2, <2>1, <2>2, CompleteEffect, BaseQuiet
<1>3. ASSUME NEW b \in Apps, CompanionRuns(b)
      PROVE  AppInv' /\ ListInv'
  <2>0. b \in Names /\ HelperOf[b] \in Names
    BY AppsAway
  <2>1. \A a \in Apps : AppUnit(mgr'.loaded[a])
    <3> TAKE a \in Apps
    <3>1. a \in Names /\ AppUnit(mgr.loaded[a]) /\ AppUnit(Lookup(b))
      BY <1>1, AppsAway DEF AppInv
    <3>2. \/ mgr'.loaded = mgr.loaded
          \/ mgr'.loaded = [mgr.loaded EXCEPT ![b] = Lookup(b)]
      BY <1>3, CompanionEffect
    <3>3. mgr'.loaded[a] = mgr.loaded[a] \/ mgr'.loaded[a] = Lookup(b)
      BY <1>0, <3>1, <3>2 DEF Managers
    <3> QED  BY <3>1, <3>3
  <2>2. \A a \in Apps : mgr'.running[a] \in MayRun
    <3> TAKE a \in Apps
    <3>1. a \in Names /\ mgr.running[a] \in MayRun /\ HelperOf[b] # a
      BY AppsAway DEF AppInv
    <3>2. mgr'.running = [mgr.running EXCEPT ![HelperOf[b]] = Off]
      BY <1>3, CompanionEffect
    <3> QED  BY <1>0, <2>0, <3>1, <3>2 DEF Managers
  <2> QED  BY <1>3, <2>1, <2>2, CompanionEffect, BaseQuiet
<1>4. ASSUME NEW b \in Apps, Trigger(b)
      PROVE  AppInv' /\ ListInv'
  <2>1. \A a \in Apps : AppUnit(mgr'.loaded[a])
    <3> TAKE a \in Apps
    <3>1. a \in Names /\ AppUnit(mgr.loaded[a]) /\ HelperOf[b] # a
      BY AppsAway DEF AppInv
    <3>2. \/ mgr'.loaded = mgr.loaded
          \/ mgr'.loaded = [mgr.loaded EXCEPT ![HelperOf[b]] = Lookup(HelperOf[b])]
      BY <1>4, TriggerEffect
    <3>3. mgr'.loaded[a] = mgr.loaded[a]
      BY <1>0, <3>1, <3>2 DEF Managers
    <3> QED  BY <3>1, <3>3
  <2>2. \A a \in Apps : mgr'.running[a] \in MayRun
    BY <1>4, TriggerEffect DEF AppInv
  <2> QED  BY <1>4, <2>1, <2>2, TriggerEffect, BaseQuiet
<1> QED  BY <1>2, <1>3, <1>4

LEMMA BaseBegin ==
  ASSUME OwnCompanions, RegType, AppInv, ListInv,
         NEW c \in Clients, NEW command \in Commands, Begin(c, command)
  PROVE  AppInv' /\ ListInv'
<1>1. PICK q :
        /\ todo' = [todo EXCEPT ![c] = q]
        /\ Sound(q) \/ SoundSave(q)
        /\ UNCHANGED << disk, mgr, torn >>
        /\ \A a \in Apps : expected'[a] = Anything \/ expected'[a] = expected[a]
        /\ saved'.apps \subseteq saved.apps /\ saved'.watches \subseteq saved.watches
        /\ \A i \in 1 .. Len(q) :
             /\ q[i].do \notin Saving => expected'[q[i].name] = Anything
             /\ q[i].do \in Deletes =>
                  q[i].name \notin saved'.apps /\ q[i].name \notin saved'.watches
  BY BeginNew
<1>2. TodoType /\ Lists
  BY DEF RegType, ListInv
<1>3. Ordered(q) /\ AllFit(q)
  BY <1>1 DEF Sound, SoundSave
<1>4. Lists'
  BY <1>1, <1>2, <1>3, BeginLists
<1>5. \A i \in 1 .. Len(q) : /\ q[i].do \notin Saving => q[i].name \in Apps
                             /\ q[i].do = "service" => /\ q[i].unit.program \in Programs
                                                       /\ "openService" \in Before(q, i)
  BY <1>1 DEF Sound, SoundSave, Saving
<1>6. \A x \in Clients : \A s, P : Has(x, s, P)' =>
        Has(x, s, P) \/ \E i \in 1 .. Len(q) : q[i] = s /\ Before(q, i) = P
  <2> SUFFICES ASSUME NEW x \in Clients, NEW s, NEW P, Has(x, s, P)'
               PROVE  Has(x, s, P) \/ \E i \in 1 .. Len(q) : q[i] = s /\ Before(q, i) = P
    OBVIOUS
  <2>1. Given(c, q)
    BY <1>1 DEF Given
  <2> QED  BY ONLY <1>2, <2>1, c \in Clients, x \in Clients, Has(x, s, P)', BeginHas
<1>7. AppInv'
  BY <1>1, <1>5, <1>6 DEF AppInv, EmptyIsTorn
<1>8. ASSUME NEW x \in Clients, NEW s, NEW P, Has(x, s, P)'
      PROVE  /\ s.do \notin Saving => s.name \in Apps /\ expected'[s.name] = Anything
             /\ s.do \in Deletes => s.name \notin saved'.apps /\ s.name \notin saved'.watches
  <2>1. CASE Has(x, s, P)
    BY <1>1, <2>1 DEF ListInv
  <2>2. CASE \E i \in 1 .. Len(q) : q[i] = s /\ Before(q, i) = P
    BY <1>1, <1>5, <2>2
  <2> QED  BY <1>6, <1>8, <2>1, <2>2
<1> QED  BY <1>4, <1>7, <1>8 DEF ListInv

LEMMA BaseFewer ==
  ASSUME OwnCompanions, RegType, AppInv, ListInv, Reboot \/ \E c \in Clients : Killed(c)
  PROVE  AppInv' /\ ListInv'
<1>0. TodoType
  BY DEF RegType
<1>1. \A x \in Clients : todo'[x] = << >> \/ todo'[x] = todo[x]
  BY <1>0 DEF Killed, Reboot, TodoType
<1>2. /\ Lists' /\ \A x \in Clients : \A s, P : Has(x, s, P)' => Has(x, s, P)
  BY <1>1, FewerHas DEF ListInv
<1>3. CASE \E c \in Clients : Killed(c)
  <2>1. UNCHANGED << disk, mgr, expected, saved, torn >>
    BY <1>3 DEF Killed
  <2> QED  BY <1>2, <2>1 DEF AppInv, ListInv, EmptyIsTorn
<1>4. CASE Reboot
  <2>1. \A x \in Clients : \A s, P : ~Has(x, s, P)'
    <3>1. \A x \in Clients : todo'[x] = << >>
      BY <1>4, RebootEffect
    <3>2. Len(<< >>) = 0
      BY EmptySeq
    <3> QED  BY <3>1, <3>2 DEF Has
  <2>2. \A a \in Apps : /\ AppUnit(disk'.service[a]) /\ AppUnit(mgr'.loaded[a])
                        /\ mgr'.running[a] \in MayRun /\ EmptyIsTorn(a)'
    BY <1>4, RebootEffect, AppsAway DEF AppInv, MayRun, EmptyIsTorn
  <2> QED  BY <1>2, <2>1, <2>2 DEF AppInv, ListInv
<1> QED  BY <1>3, <1>4

LEMMA BaseTaken ==
  ASSUME OwnCompanions, RegType, Apart, AppInv, ListInv, NEW c \in Clients, NEW n \in Names,
         NEW kind \in Kinds, Taken(c, kind, n), Effect(c, kind, n)
  PROVE  AppInv' /\ ListInv'
<1>0. /\ TodoType /\ Separate /\ Lists /\ mgr \in Managers /\ disk \in Disks
      /\ torn \in Torn /\ FileEffect(c, kind, n) /\ TornEffect(kind, n)
  BY DEF RegType, Apart, ListInv, Effect
<1>1. PICK head : head = Head(todo[c])
  OBVIOUS
<1>2. Has(c, head, {}) /\ head.do = kind /\ head.name = n
  BY <1>0, <1>1, HeadHas DEF Taken
<1>3. kind \notin Saving => n \in Apps
  BY <1>2 DEF ListInv
<1>4. Lists'
  BY <1>0, MovedLists DEF Taken
<1>5. \A a \in Apps : AppUnit(disk'.service[a])
  <2> SUFFICES ASSUME NEW a \in Apps PROVE AppUnit(disk'.service[a])
    OBVIOUS
  <2>0. AppUnit(disk.service[a]) /\ a \in Names
    BY AppsAway DEF AppInv
  <2>1. CASE kind \notin Changes \/ Lost
    BY <1>0, <2>0, <2>1 DEF FileEffect, Lost
  <2>2. CASE kind = "service" /\ ~Lost
    <3>1. head.unit.program \in Programs
      BY <1>2, <2>2 DEF AppInv
    <3> QED  BY <1>0, <1>1, <2>0, <2>2, <3>1 DEF FileEffect, AppUnit, Disks
  <2>3. CASE kind \in {"openService", "unlinkService"}
    BY <1>0, <2>0, <2>3 DEF FileEffect, AppUnit, Disks, Unusable
  <2>4. CASE kind \in {"openHelper", "helper", "unlinkHelper"} /\ ~Lost
    <3>1. n \in Apps /\ HelperOf[n] # a /\ HelperOf[n] \in Names
      BY <1>3, <2>4, AppsAway DEF Saving
    <3> QED  BY <1>0, <2>0, <2>4, <3>1 DEF FileEffect, Disks
  <2> QED  BY <2>1, <2>2, <2>3, <2>4 DEF Changes
<1>6. \A a \in Apps : AppUnit(mgr'.loaded[a])
  <2> SUFFICES ASSUME NEW a \in Apps PROVE AppUnit(mgr'.loaded[a])
    OBVIOUS
  <2>0. AppUnit(disk.service[a]) /\ AppUnit(mgr.loaded[a]) /\ a \in Names
    BY AppsAway DEF AppInv
  <2>1. AppUnit(Lookup(a))
    BY <2>0 DEF Lookup
  <2> QED  BY <1>0, <2>0, <2>1 DEF Effect, JobEffect, Managers
<1>7. \A a \in Apps : mgr'.running[a] \in MayRun
  BY DEF Effect, JobEffect, AppInv
\* Only a step on an app changes its file, and none of the others.
<1>9. \A a \in Apps : a # n \/ kind \notin {"openService", "service", "unlinkService"} =>
        disk'.service[a] = disk.service[a]
  <2> SUFFICES ASSUME NEW a \in Apps,
                      a # n \/ kind \notin {"openService", "service", "unlinkService"}
               PROVE  disk'.service[a] = disk.service[a]
    OBVIOUS
  <2>0. a \in Names
    BY AppsAway
  <2>1. CASE kind \notin Changes \/ Lost
    BY <1>0, <2>1 DEF FileEffect, Lost
  <2>2. CASE a # n /\ kind \in {"openService", "service", "unlinkService"} /\ ~Lost
    BY <1>0, <2>0, <2>2 DEF FileEffect, Disks
  <2>3. CASE kind \in {"openHelper", "helper", "unlinkHelper"} /\ ~Lost
    <3>1. n \in Apps /\ HelperOf[n] # a /\ HelperOf[n] \in Names
      BY <1>3, <2>3, AppsAway DEF Saving
    <3> QED  BY <1>0, <2>0, <2>3, <3>1 DEF FileEffect, Disks
  <2> QED  BY <2>1, <2>2, <2>3 DEF Changes
<1>8. ASSUME NEW x \in Clients, NEW s, NEW P, Has(x, s, P)'
      PROVE  /\ s.do = "service" =>
                  /\ s.unit.program \in Programs
                  /\ "openService" \in P \/ disk'.service[s.name] = Empty
             /\ s.do \notin Saving => s.name \in Apps /\ expected'[s.name] = Anything
             /\ s.do \in Deletes => s.name \notin saved'.apps /\ s.name \notin saved'.watches
  <2>1. PICK O : /\ Has(x, s, O)
                 /\ s.name # n => O = P
                 /\ s.name = n => /\ << kind, s.do >> \notin Backwards
                                  /\ O \subseteq P \cup {kind}
    BY <1>0, <1>8, TakenHas
  <2>2. s.do \in Kinds
    BY <1>0, <2>1, HasStep
  <2>3. s.do = "service" => s.unit.program \in Programs
    BY <2>1 DEF AppInv
  <2>4. s.do \notin Saving => s.name \in Apps /\ expected[s.name] = Anything
    BY <2>1 DEF ListInv
  <2>5. kind = "finish" => s.name # n
    BY <2>1, <2>2, FinishLast
  <2>6. s.do \notin Saving => expected'[s.name] = Anything
    BY <2>4, <2>5 DEF Effect, PromiseEffect
  <2>7. s.do \in Deletes => s.name \notin saved.apps /\ s.name \notin saved.watches
    BY <2>1 DEF ListInv
  <2>8. kind = "saved" /\ s.do \in Deletes => s.name # n
    <3>1. \A k \in Deletes : << "saved", k >> \in Backwards
      BY DEF Deletes, Backwards, Unlinks, Kinds, CallKinds, Saving
    <3> QED  BY <2>1, <3>1
  <2>9. s.do \in Deletes => s.name \notin saved'.apps /\ s.name \notin saved'.watches
    BY <2>7, <2>8 DEF Effect, PromiseEffect
  <2>10. ASSUME s.do = "service"
         PROVE  "openService" \in P \/ disk'.service[s.name] = Empty
    <3>1. "openService" \in O \/ disk.service[s.name] = Empty
      BY <2>1, <2>10 DEF AppInv
    <3>2. s.name \in Apps
      BY <2>4, <2>10 DEF Saving
    <3>3. CASE s.name # n
      BY <2>1, <3>1, <3>2, <3>3, <1>9
    <3>4. CASE s.name = n
      <4>1. kind \notin {"service", "unlinkService"}
        BY <2>1, <2>10, <3>4 DEF Backwards
      <4>2. CASE kind = "openService"
        BY <1>0, <3>2, <3>4, <4>2, AppsAway DEF FileEffect, Disks
      <4>3. CASE kind # "openService"
        <5>1. disk'.service[n] = disk.service[n]
          BY <3>2, <3>4, <4>1, <4>3, <1>9
        <5> QED  BY <2>1, <3>1, <3>4, <4>3, <5>1
      <4> QED  BY <4>2, <4>3
    <3> QED  BY <3>3, <3>4
  <2> QED  BY <2>3, <2>4, <2>6, <2>9, <2>10
<1>10. \A a \in Apps : EmptyIsTorn(a)'
  <2> SUFFICES ASSUME NEW a \in Apps PROVE EmptyIsTorn(a)'
    OBVIOUS
  <2>0. EmptyIsTorn(a) /\ a \in Names /\ HelperOf[a] \in Names /\ HelperOf[a] # a
    BY AppsAway DEF AppInv
  <2>1. CASE Lost
    BY <2>0, <2>1 DEF Lost, EmptyIsTorn
  <2>2. CASE kind \in {"openService", "service", "unlinkService"} /\ ~Lost
    <3>1. n \in Apps /\ HelperOf[a] # n
      BY <1>3, <2>2, AppsAway DEF Saving
    <3>2. disk'.service[HelperOf[a]] = disk.service[HelperOf[a]] /\ torn'.helper = torn.helper
      BY <1>0, <2>0, <2>2, <3>1 DEF FileEffect, TornEffect, Opening, Closing, Disks, Torn
    <3>3. disk'.service[a] = Empty => a \in torn'.service
      <4>1. CASE a # n
        <5>1. disk'.service[a] = disk.service[a] /\ (a \in torn.service => a \in torn'.service)
          BY <1>0, <2>0, <2>2, <4>1 DEF FileEffect, TornEffect, Opening, Closing, Disks, Torn
        <5> QED  BY <2>0, <5>1 DEF EmptyIsTorn
      <4>2. CASE a = n /\ kind = "service"
        <5>1. head.unit.program \in Programs
          BY <1>2, <4>2 DEF AppInv
        <5>2. disk'.service[a] = head.unit
          BY <1>0, <1>1, <2>0, <2>2, <4>2 DEF FileEffect, Disks
        <5>3. Nothing \notin Programs
          BY RegistryAssumption
        <5> QED  BY <5>1, <5>2, <5>3 DEF Empty
      <4>3. CASE a = n /\ kind = "openService"
        BY <1>0, <4>3 DEF TornEffect, Torn
      <4>4. CASE a = n /\ kind = "unlinkService"
        <5>1. disk'.service[a] = NoUnit
          BY <1>0, <2>0, <4>4 DEF FileEffect, Disks
        <5>2. NoUnit # Empty
          BY RegistryAssumption DEF NoUnit, Empty
        <5> QED  BY <5>1, <5>2
      <4> QED  BY <2>2, <4>1, <4>2, <4>3, <4>4
    <3> QED  BY <2>0, <3>2, <3>3 DEF EmptyIsTorn
  <2>3. CASE kind \in {"openHelper", "helper", "unlinkHelper"} /\ ~Lost
    <3>1. n \in Apps /\ HelperOf[n] # a /\ HelperOf[n] \in Names /\ n \in Names
          /\ (HelperOf[a] = HelperOf[n] => a = n)
      BY <1>3, <2>3, AppsAway DEF Saving
    <3>2. disk'.service[a] = disk.service[a] /\ torn'.service = torn.service
      BY <1>0, <2>0, <2>3, <3>1 DEF FileEffect, TornEffect, Opening, Closing, Disks, Torn
    <3>3. disk'.service[HelperOf[a]] = Empty => a \in torn'.helper
      <4>1. CASE a # n
        <5>1. /\ disk'.service[HelperOf[a]] = disk.service[HelperOf[a]]
              /\ a \in torn.helper => a \in torn'.helper
          BY <1>0, <2>0, <2>3, <3>1, <4>1 DEF FileEffect, TornEffect, Opening, Closing, Disks, Torn
        <5> QED  BY <2>0, <5>1 DEF EmptyIsTorn
      <4>2. CASE a = n /\ kind = "openHelper"
        BY <1>0, <4>2 DEF TornEffect, Torn
      <4>3. CASE a = n /\ kind \in {"helper", "unlinkHelper"}
        <5>1. disk'.service[HelperOf[a]] \in {Companion, NoUnit}
          BY <1>0, <2>0, <2>3, <3>1, <4>3 DEF FileEffect, Disks
        <5>2. NoUnit # Empty /\ Companion # Empty
          BY RegistryAssumption DEF NoUnit, Companion, Empty
        <5> QED  BY <5>1, <5>2
      <4> QED  BY <2>3, <4>1, <4>2, <4>3
    <3> QED  BY <2>0, <3>2, <3>3 DEF EmptyIsTorn
  <2>4. CASE kind \notin Changes
    <3>1. disk'.service = disk.service /\ torn'.service = torn.service /\ torn'.helper = torn.helper
      BY <1>0, <2>4 DEF FileEffect, TornEffect, Opening, Closing, Changes, Torn, Lost
    <3> QED  BY <2>0, <3>1 DEF EmptyIsTorn
  <2> QED  BY <2>1, <2>2, <2>3, <2>4 DEF Changes
<1>11. AppInv'
  <2>1. \A x \in Clients : \A s, P : Has(x, s, P)' /\ s.do = "service" =>
          /\ s.unit.program \in Programs
          /\ "openService" \in P \/ disk'.service[s.name] = Empty
    BY <1>8
  <2> QED  BY <1>5, <1>6, <1>7, <1>10, <2>1 DEF AppInv
<1>12. ListInv'
  <2>1. \A x \in Clients : \A s, P : Has(x, s, P)' =>
          /\ s.do \notin Saving => s.name \in Apps /\ expected'[s.name] = Anything
          /\ s.do \in Deletes => s.name \notin saved'.apps /\ s.name \notin saved'.watches
    BY <1>8
  <2> QED  BY <1>4, <2>1 DEF ListInv
<1> QED  BY <1>11, <1>12

LEMMA BaseGivenUp ==
  ASSUME OwnCompanions, RegType, Apart, AppInv, ListInv, NEW c \in Clients, NEW n \in Names,
         GivenUp(c, n)
  PROVE  AppInv' /\ ListInv'
<1>0. TodoType /\ Separate /\ Lists
  BY DEF RegType, Apart, ListInv
<1>1. UNCHANGED << disk, mgr, expected, saved, torn >>
  BY <1>0, GivenUpMoves
<1>2. Lists'
  BY <1>0, GivenUpLists
<1>3. \A x \in Clients : \A s, P : Has(x, s, P)' =>
        \E O : Has(x, s, O) /\ ("openService" \in O => "openService" \in P)
  BY <1>0, GivenUpHas
<1>4. AppInv'
  BY <1>1, <1>3 DEF AppInv, EmptyIsTorn
<1>5. ListInv'
  BY <1>1, <1>2, <1>3 DEF ListInv
<1> QED  BY <1>4, <1>5

LEMMA BaseNext ==
  ASSUME OwnCompanions, RegType, Apart, AppInv, ListInv, [Next]_vars
  PROVE  AppInv' /\ ListInv'
<1>1. CASE \E c \in Clients, n \in Names : FileStep(c, n) \/ CallStep(c, n)
  <2>1. PICK c \in Clients, n \in Names : FileStep(c, n) \/ CallStep(c, n)
    BY <1>1
  <2>2. \/ GivenUp(c, n)
        \/ \E kind \in Kinds : Taken(c, kind, n) /\ Effect(c, kind, n)
    BY <2>1, ClientEffect DEF Taken
  <2> QED  BY <2>2, BaseTaken, BaseGivenUp
<1>2. CASE \E c \in Clients, command \in Commands : Begin(c, command)
  BY <1>2, BaseBegin
<1>3. CASE Reboot \/ \E c \in Clients : Killed(c)
  BY <1>3, BaseFewer
<1>4. CASE \/ \E n \in Names : Complete(n)
           \/ \E a \in Apps : CompanionRuns(a) \/ Trigger(a)
  BY <1>4, BaseManager
<1>5. CASE UNCHANGED vars
  BY <1>5 DEF vars, AppInv, ListInv, Lists, Has, EmptyIsTorn
<1> QED  BY <1>1, <1>2, <1>3, <1>4, <1>5 DEF Next

-----------------------------------------------------------------------------
(* The watches, when no call fails. *)

\* What a step that is left still asks of the watch of its app.
WatchPlan(s, P) ==
  /\ s.do = "finish" => s.name \in Apps /\ WatchKept(s.name, s.outcome.watched, P)
  /\ s.do = "unlinkPath" =>
       "stopPath" \in P \/ s.name \notin mgr.watching \/ s.name \in torn.path
  /\ s.do = "path" => "openPath" \in P \/ s.name \in disk.path \cup torn.path
  /\ s.do = "saved" /\ s.name \in disk.path => "enable" \in P \/ s.name \in mgr.bootPath

\* What is still to come of a watch: a promised one is on or its start is ahead, one
\* that has to end is off or its stop is ahead, a .path goes after its watch, and a
\* saved watch is linked; a .path is gone without that only where its writing was cut
\* short.
WatchInv ==
  /\ mgr.watching \subseteq disk.path \cup torn.path
  /\ saved.watches \subseteq mgr.bootPath
  /\ saved.watches \subseteq disk.path \cup torn.path
  /\ \A x \in Clients : \A s, P : Has(x, s, P) => WatchPlan(s, P)
  /\ \A a \in Apps : WatchKept(a, expected[a].watched, {})

WatchSteps == {"stopPath", "startPath", "reload", "path", "helper"}

\* A step that leaves the watch of m alone.
LEMMA WatchStays ==
  ASSUME NEW m, NEW W, NEW O, NEW P, WatchKept(m, W, O), P \subseteq O,
         O \cap WatchSteps \subseteq P,
         m \in mgr'.watching <=> m \in mgr.watching,
         m \in disk.path => m \in disk'.path,
         m \in torn.path => m \in torn'.path,
         m \in torn.helper => m \in torn'.helper,
         mgr'.loaded[HelperOf[m]] = Empty =>
           mgr.loaded[HelperOf[m]] = Empty \/ m \in torn'.helper
  PROVE  WatchKept(m, W, P)'
<1>0. \A kd \in WatchSteps : kd \in O <=> kd \in P
  OBVIOUS
<1>1. WatchSteps = {"stopPath", "startPath", "reload", "path", "helper"}
  BY DEF WatchSteps
<1>2. ASSUME WatchOn(m, O)
      PROVE  WatchOn(m, P)'
  BY <1>0, <1>1, <1>2 DEF WatchOn
<1> QED  BY <1>0, <1>1, <1>2 DEF WatchKept

LEMMA AnyWatch ==
  ASSUME NEW m, NEW P
  PROVE  WatchKept(m, Anything.watched, P) /\ WatchKept(m, BOOLEAN, P)
BY DEF WatchKept, Anything, Outcome

LEMMA WatchInit == Init => WatchInv
<1> SUFFICES ASSUME Init PROVE WatchInv
  OBVIOUS
<1>1. \A x \in Clients : \A s, P : ~Has(x, s, P)
  <2>1. \A x \in Clients : todo[x] = << >>
    BY DEF Init
  <2>2. Len(<< >>) = 0
    BY EmptySeq
  <2> QED  BY <2>1, <2>2 DEF Has
<1>2. \A a \in Apps : WatchKept(a, expected[a].watched, {})
  BY DEF Init, WatchKept, Stopped, Outcome
<1>3. mgr.watching = {} /\ saved.watches = {}
  BY DEF Init
<1> QED  BY <1>1, <1>2, <1>3 DEF WatchInv

\* What is left, and the watches and their companions, are as they were.
LEMMA WatchQuiet ==
  ASSUME WatchInv, UNCHANGED << disk, expected, saved, torn >>,
         mgr'.watching = mgr.watching, mgr'.bootPath = mgr.bootPath,
         \A a \in Apps : mgr'.loaded[HelperOf[a]] = Empty => mgr.loaded[HelperOf[a]] = Empty,
         \A x \in Clients : \A s, P : Has(x, s, P)' => Has(x, s, P)
  PROVE  WatchInv'
<1>1. ASSUME NEW a \in Apps, NEW W, NEW P, WatchKept(a, W, P)
      PROVE  WatchKept(a, W, P)'
  BY <1>1, WatchStays
<1>2. \A a \in Apps : WatchKept(a, expected[a].watched, {})'
  <2> TAKE a \in Apps
  <2>1. PICK W, D : W = expected[a].watched /\ D = {}
    OBVIOUS
  <2>2. WatchKept(a, W, D)'
    BY <1>1, <2>1 DEF WatchInv
  <2> QED  BY <2>1, <2>2
<1>3. ASSUME NEW x \in Clients, NEW s, NEW P, Has(x, s, P)'
      PROVE  WatchPlan(s, P)'
  <2>1. WatchPlan(s, P)
    BY <1>3 DEF WatchInv
  <2>2. PICK m, W : m = s.name /\ W = s.outcome.watched
    OBVIOUS
  <2>3. s.do = "finish" => m \in Apps /\ WatchKept(m, W, P)'
    BY <1>1, <2>1, <2>2 DEF WatchPlan
  <2> QED  BY <2>1, <2>2, <2>3 DEF WatchPlan
<1>4. \A x \in Clients : \A s, P : Has(x, s, P)' => WatchPlan(s, P)'
  BY <1>3
<1> QED  BY <1>2, <1>4 DEF WatchInv

\* A change of a watched file finds the companion, or the companion was cut short.
LEMMA TriggerWatch ==
  ASSUME OwnCompanions, RegType, PathInv, WatchInv, NEW a \in Apps, Trigger(a),
         Lookup(HelperOf[a]) \in Unusable
  PROVE  WatchInv'
<1>0. /\ UNCHANGED << disk, todo, expected, saved, torn >> /\ mgr'.bootPath = mgr.bootPath
      /\ mgr'.watching = mgr.watching \ {a} /\ mgr'.loaded = mgr.loaded /\ a \in mgr.watching
  BY TriggerEffect
<1>1. a \in torn.path \cup torn.helper \/ mgr.loaded[HelperOf[a]] = Empty
  <2> SUFFICES ASSUME a \notin torn.path \cup torn.helper, mgr.loaded[HelperOf[a]] # Empty
               PROVE  FALSE
    OBVIOUS
  <2>1. a \in disk.path
    BY <1>0 DEF WatchInv
  <2>2. disk.service[HelperOf[a]] = Companion
    BY <2>1 DEF PathInv, Accompanied
  <2>3. Companion # NoUnit /\ Companion # Empty
    BY RegistryAssumption DEF Companion, NoUnit, Empty
  <2>4. Lookup(HelperOf[a]) # NoUnit /\ Lookup(HelperOf[a]) # Empty
    BY <2>2, <2>3 DEF Lookup
  <2> QED  BY <2>4 DEF Unusable
<1>2. ASSUME NEW m \in Apps, NEW W, NEW P, WatchKept(m, W, P)
      PROVE  WatchKept(m, W, P)'
  <2>1. CASE m # a
    <3>1. m \in mgr'.watching <=> m \in mgr.watching
      BY <1>0, <2>1
    <3> QED  BY <1>0, <1>2, <3>1, WatchStays
  <2>2. CASE m = a
    <3>1. ASSUME WatchOn(a, P)
          PROVE  WatchOn(a, P)'
      BY <1>0, <1>1, <3>1 DEF WatchOn
    <3> QED  BY <1>0, <1>2, <2>2, <3>1 DEF WatchKept
  <2> QED  BY <2>1, <2>2
<1>3. \A m \in Apps : WatchKept(m, expected[m].watched, {})'
  <2> TAKE m \in Apps
  <2>1. PICK W, D : W = expected[m].watched /\ D = {}
    OBVIOUS
  <2>2. WatchKept(m, W, D)'
    BY <1>2, <2>1 DEF WatchInv
  <2> QED  BY <1>0, <2>1, <2>2
<1>4. ASSUME NEW x \in Clients, NEW s, NEW P, Has(x, s, P)'
      PROVE  WatchPlan(s, P)'
  <2>1. Has(x, s, P)
    BY <1>0, <1>4 DEF Has
  <2>2. WatchPlan(s, P)
    BY <2>1 DEF WatchInv
  <2>3. PICK m, W : m = s.name /\ W = s.outcome.watched
    OBVIOUS
  <2>4. s.do = "finish" => m \in Apps /\ WatchKept(m, W, P)'
    BY <1>2, <2>2, <2>3 DEF WatchPlan
  <2> QED  BY <1>0, <2>2, <2>3, <2>4 DEF WatchPlan
<1>5. \A x \in Clients : \A s, P : Has(x, s, P)' => WatchPlan(s, P)'
  BY <1>4
<1> QED  BY <1>0, <1>3, <1>5 DEF WatchInv

LEMMA WatchManager ==
  ASSUME OwnCompanions, RegType, PathInv, WatchInv,
         \/ \E n \in Names : Complete(n)
         \/ \E a \in Apps : CompanionRuns(a) \/ Trigger(a)
  PROVE  WatchInv'
<1>1. CASE \E n \in Names : Complete(n)
  <2>1. UNCHANGED << disk, todo, expected, saved, torn >> /\ mgr'.watching = mgr.watching
        /\ mgr'.bootPath = mgr.bootPath /\ mgr'.loaded = mgr.loaded
    BY <1>1, CompleteEffect
  <2>2. \A x \in Clients : \A s, P : Has(x, s, P)' => Has(x, s, P)
    BY <2>1 DEF Has
  <2> QED  BY <2>1, <2>2, WatchQuiet
<1>2. CASE \E a \in Apps : CompanionRuns(a)
  <2>0. PICK a \in Apps : CompanionRuns(a)
    BY <1>2
  <2>1. /\ UNCHANGED << disk, todo, expected, saved, torn >> /\ mgr'.watching = mgr.watching
        /\ mgr'.bootPath = mgr.bootPath
        /\ mgr'.loaded = mgr.loaded \/ mgr'.loaded = [mgr.loaded EXCEPT ![a] = Lookup(a)]
    BY <2>0, CompanionEffect
  <2>2. \A x \in Clients : \A s, P : Has(x, s, P)' => Has(x, s, P)
    BY <2>1 DEF Has
  <2>3. \A b \in Apps : mgr'.loaded[HelperOf[b]] = mgr.loaded[HelperOf[b]]
    BY <2>1, AppsAway DEF RegType, Managers
  <2> QED  BY <2>1, <2>2, <2>3, WatchQuiet
<1>3. CASE \E a \in Apps : Trigger(a)
  <2>1. PICK a \in Apps : Trigger(a)
    BY <1>3
  <2>2. CASE Lookup(HelperOf[a]) \in Unusable
    BY <2>1, <2>2, TriggerWatch
  <2>3. CASE Lookup(HelperOf[a]) \notin Unusable
    <3>1. /\ UNCHANGED << disk, todo, expected, saved, torn >> /\ mgr'.bootPath = mgr.bootPath
          /\ mgr'.watching = mgr.watching
          /\ mgr'.loaded = [mgr.loaded EXCEPT ![HelperOf[a]] = Lookup(HelperOf[a])]
      BY <2>1, <2>3, TriggerEffect
    <3>2. \A x \in Clients : \A s, P : Has(x, s, P)' => Has(x, s, P)
      BY <3>1 DEF Has
    <3>3. \A b \in Apps : mgr'.loaded[HelperOf[b]] = Empty => mgr.loaded[HelperOf[b]] = Empty
      BY <2>3, <3>1, AppsAway DEF RegType, Managers, Unusable
    <3> QED  BY <3>1, <3>2, <3>3, WatchQuiet
  <2> QED  BY <2>2, <2>3
<1> QED  BY <1>1, <1>2, <1>3

LEMMA WatchFewer ==
  ASSUME OwnCompanions, RegType, AppInv, WatchInv, Reboot \/ \E c \in Clients : Killed(c)
  PROVE  WatchInv'
<1>1. CASE \E c \in Clients : Killed(c)
  <2>1. UNCHANGED << disk, mgr, expected, saved, torn >>
    BY <1>1 DEF Killed
  <2>2. \A x \in Clients : todo'[x] = << >> \/ todo'[x] = todo[x]
    BY <1>1 DEF Killed, RegType, TodoType
  <2>3. \A x \in Clients : \A s, P : Has(x, s, P)' => Has(x, s, P)
    BY <2>2, FewerHas
  <2> QED  BY <2>1, <2>3, WatchQuiet
\* A saved watch is linked: it is on again if it has its file, and its companion is
\* what its file says.
<1>2. CASE Reboot
  <2>1. \A x \in Clients : \A s, P : ~Has(x, s, P)'
    <3>1. \A x \in Clients : todo'[x] = << >>
      BY <1>2, RebootEffect
    <3>2. Len(<< >>) = 0
      BY EmptySeq
    <3> QED  BY <3>1, <3>2 DEF Has
  <2>2. /\ mgr'.watching = mgr.bootPath \cap disk.path /\ mgr'.bootPath = mgr.bootPath
        /\ disk' = disk /\ saved' = saved /\ torn' = torn /\ mgr'.loaded = disk.service
    BY <1>2, RebootEffect
  <2>3. \A a \in Apps : WatchKept(a, expected[a].watched, {})'
    <3> TAKE a \in Apps
    <3>0. PICK R, W : R = {disk.service[a].program}
                      /\ W = IF a \in saved.watches THEN {TRUE} ELSE BOOLEAN
      OBVIOUS
    <3>4. expected'[a] = IF a \notin saved.apps \ torn.service THEN Anything ELSE Outcome(R, W)
      BY <1>2, <3>0, RebootEffect
    <3>5. Anything.watched = BOOLEAN /\ Outcome(R, W).watched = W
      BY DEF Anything, Outcome
    <3>3. expected'[a].watched = BOOLEAN \/ expected'[a].watched = W
      BY <3>4, <3>5
    <3>1. CASE a \in saved.watches
      <4>1. a \in mgr'.watching \/ a \in torn'.path
        BY <2>2, <3>1 DEF WatchInv
      <4>2. TRUE \in expected'[a].watched
        BY <3>0, <3>1, <3>3
      <4>3. mgr'.loaded[HelperOf[a]] = Empty => a \in torn'.helper
        BY <2>2 DEF AppInv, EmptyIsTorn
      <4>4. WatchOn(a, {})'
        BY <4>1, <4>3 DEF WatchOn
      <4> QED  BY <4>2, <4>4 DEF WatchKept
    <3>2. CASE a \notin saved.watches
      <4>1. expected'[a].watched = BOOLEAN
        BY <3>0, <3>2, <3>3
      <4> QED  BY <4>1 DEF WatchKept
    <3> QED  BY <3>1, <3>2
  <2> QED  BY <2>1, <2>2, <2>3 DEF WatchInv
<1> QED  BY <1>1, <1>2

LEMMA WatchBegin ==
  ASSUME OwnCompanions, RegType, AppInv, WatchInv,
         NEW c \in Clients, NEW command \in Commands, Begin(c, command)
  PROVE  WatchInv'
<1>1. PICK q :
        /\ todo' = [todo EXCEPT ![c] = q]
        /\ Sound(q) \/ SoundSave(q)
        /\ UNCHANGED << disk, mgr, torn >>
        /\ \A a \in Apps : expected'[a] = Anything \/ expected'[a] = expected[a]
        /\ saved'.watches \subseteq saved.watches
  BY BeginNew
<1>2. ASSUME NEW x \in Clients, NEW s, NEW P, Has(x, s, P)'
      PROVE  WatchPlan(s, P)
  <2>1. Given(c, q) /\ TodoType
    BY <1>1 DEF Given, RegType
  <2>2. Has(x, s, P) \/ \E i \in 1 .. Len(q) : q[i] = s /\ Before(q, i) = P
    BY <1>2, <2>1, BeginHas
  <2>3. CASE Has(x, s, P)
    BY <2>3 DEF WatchInv
  <2>4. CASE \E i \in 1 .. Len(q) : q[i] = s /\ Before(q, i) = P
    <3>1. PICK i \in 1 .. Len(q) : q[i] = s /\ Before(q, i) = P
      BY <2>4
    <3>2. CASE Sound(q)
      BY <3>1, <3>2 DEF WatchPlan, Sound, Vowed, Saving
    <3>3. CASE SoundSave(q)
      BY <3>1, <3>3 DEF WatchPlan, SoundSave, Saving
    <3> QED  BY <1>1, <3>2, <3>3
  <2> QED  BY <2>2, <2>3, <2>4
<1>3. \A a \in Apps : WatchKept(a, expected'[a].watched, {})
  <2> TAKE a \in Apps
  <2>1. CASE expected'[a] = Anything
    BY <2>1, AnyWatch
  <2>2. CASE expected'[a] = expected[a]
    BY <2>2 DEF WatchInv
  <2> QED  BY <1>1, <2>1, <2>2
<1>4. mgr' = mgr /\ disk' = disk /\ torn' = torn /\ saved'.watches \subseteq saved.watches
  BY <1>1
<1>7. \A m, W, P : WatchKept(m, W, P) => WatchKept(m, W, P)'
  <2>1. \A m, P : WatchOn(m, P) => WatchOn(m, P)'
    BY <1>4 DEF WatchOn
  <2> QED  BY <1>4, <2>1 DEF WatchKept
<1>5. \A a \in Apps : WatchKept(a, expected[a].watched, {})'
  <2> TAKE a \in Apps
  <2>1. PICK W, D : W = expected'[a].watched /\ D = {}
    OBVIOUS
  <2>2. WatchKept(a, W, D)'
    BY <1>3, <1>7, <2>1
  <2> QED  BY <2>1, <2>2
<1>8. ASSUME NEW x \in Clients, NEW s, NEW P, Has(x, s, P)'
      PROVE  WatchPlan(s, P)'
  <2>1. WatchPlan(s, P)
    BY <1>2, <1>8
  <2>2. PICK m, W : m = s.name /\ W = s.outcome.watched
    OBVIOUS
  <2>3. s.do = "finish" => m \in Apps /\ WatchKept(m, W, P)'
    BY <1>7, <2>1, <2>2 DEF WatchPlan
  <2> QED  BY <1>4, <2>1, <2>2, <2>3 DEF WatchPlan
<1>6. \A x \in Clients : \A s, P : Has(x, s, P)' => WatchPlan(s, P)'
  BY <1>8
<1> QED  BY <1>4, <1>5, <1>6 DEF WatchInv

\* What a promise about the watch of n becomes when a step on n is taken.
LEMMA WatchMoves ==
  ASSUME OwnCompanions, RegType, AppInv, WatchInv, NEW c \in Clients, NEW kind \in Kinds,
         NEW n \in Apps, Effect(c, kind, n),
         NEW W, NEW O, NEW P, WatchKept(n, W, O), P \subseteq O, O \subseteq P \cup {kind},
         kind \in O, \A kd \in P : << kind, kd >> \notin Backwards,
         kind \in {"path", "startPath"} => TRUE \in W,
         kind \in {"unlinkPath", "stopPath"} => FALSE \in W,
         kind = "path" => n \in disk.path \cup torn.path
  PROVE  WatchKept(n, W, P)'
<1>0. /\ FileEffect(c, kind, n) /\ TornEffect(kind, n) /\ JobEffect(kind, n)
      /\ WatchEffect(kind, n) /\ EmptyIsTorn(n) /\ torn \in Torn /\ mgr \in Managers
      /\ mgr.watching \subseteq disk.path \cup torn.path
      /\ n \in Names /\ HelperOf[n] \in Names /\ HelperOf[n] # n
  BY AppsAway DEF Effect, AppInv, RegType, WatchInv
<1>1. mgr'.loaded[HelperOf[n]] = IF kind = "reload" THEN disk.service[HelperOf[n]]
                                 ELSE mgr.loaded[HelperOf[n]]
  BY <1>0 DEF JobEffect, Managers
<1>2. CASE kind = "reload"
  <2>1. /\ disk'.path = disk.path /\ torn' = torn /\ mgr'.watching = mgr.watching
        /\ mgr'.loaded[HelperOf[n]] = disk.service[HelperOf[n]]
    BY <1>0, <1>1, <1>2 DEF FileEffect, TornEffect, WatchEffect, Opening, Closing
  <2>2. "path" \notin O /\ "helper" \notin O
    <3>1. << "reload", "path" >> \in Backwards /\ << "reload", "helper" >> \in Backwards
      BY DEF Backwards, Writes
    <3>2. "path" \notin P /\ "helper" \notin P
      BY <1>2, <3>1
    <3> QED  BY <1>2, <3>2
  <2>3. "startPath" \in O => "startPath" \in P
    BY <1>2
  <2>4. disk.service[HelperOf[n]] = Empty => n \in torn.helper
    BY <1>0 DEF EmptyIsTorn
  <2>5. ASSUME WatchOn(n, O)
        PROVE  WatchOn(n, P)'
    <3>1. "path" \notin P /\ "helper" \notin P
      BY <2>2
    <3>2. "startPath" \in P /\ n \in disk.path \cup torn.path
      BY <1>2, <2>2, <2>3, <2>5 DEF WatchOn
    <3> QED  BY <2>1, <2>4, <3>1, <3>2 DEF WatchOn
  <2>6. "stopPath" \in O => "stopPath" \in P
    BY <1>2
  <2> QED  BY <2>1, <2>5, <2>6 DEF WatchKept
<1>3. CASE kind = "startPath"
  <2>1. /\ disk'.path = disk.path /\ torn' = torn
        /\ mgr'.watching = mgr.watching \cup ({n} \cap disk.path)
        /\ mgr'.loaded[HelperOf[n]] = mgr.loaded[HelperOf[n]]
    BY <1>0, <1>1, <1>3 DEF FileEffect, TornEffect, WatchEffect, Opening, Closing
  <2>2. "path" \notin O /\ "reload" \notin O
    BY <1>3 DEF Backwards
  <2>3. "helper" \in O <=> "helper" \in P
    BY <1>3
  <2>4. "path" \notin P /\ "reload" \notin P
    BY <2>2
  <2>5. WatchOn(n, O) => WatchOn(n, P)'
    BY <2>1, <2>2, <2>3, <2>4 DEF WatchOn
  <2> QED  BY <1>3, <2>5 DEF WatchKept
<1>4. CASE kind = "stopPath"
  <2>1. /\ torn' = torn
        /\ \/ n \notin mgr'.watching
           \/ n \notin disk.path /\ mgr'.watching = mgr.watching
    BY <1>0, <1>4 DEF TornEffect, WatchEffect, Opening, Closing
  <2>2. n \notin mgr'.watching \/ n \in torn'.path
    BY <1>0, <2>1
  <2> QED  BY <1>4, <2>2 DEF WatchKept
<1>5. CASE kind = "path"
  <2>1. /\ n \in disk'.path \cup torn'.path /\ mgr'.watching = mgr.watching
        /\ mgr'.loaded[HelperOf[n]] = mgr.loaded[HelperOf[n]]
    BY <1>0, <1>1, <1>5 DEF FileEffect, WatchEffect, Lost
  <2>2. "startPath" \in O => "startPath" \in P
    BY <1>5
  <2>3. "reload" \in O <=> "reload" \in P
    BY <1>5
  <2>4. WatchOn(n, O) => WatchOn(n, P)'
    BY <1>5, <2>1, <2>2, <2>3 DEF WatchOn
  <2> QED  BY <1>5, <2>4 DEF WatchKept
<1>6. CASE kind = "helper"
  <2>1. /\ disk'.path = disk.path /\ mgr'.watching = mgr.watching /\ torn'.path = torn.path
        /\ mgr'.loaded[HelperOf[n]] = mgr.loaded[HelperOf[n]]
    BY <1>0, <1>1, <1>6 DEF FileEffect, TornEffect, WatchEffect, Lost, Torn
  <2>2. \A kd \in {"startPath", "path", "reload", "stopPath"} : kd \in O <=> kd \in P
    BY <1>6
  <2>3. WatchOn(n, O) => WatchOn(n, P)'
    BY <1>6, <2>1, <2>2 DEF WatchOn
  <2> QED  BY <2>1, <2>2, <2>3 DEF WatchKept
<1>7. CASE kind \in {"openPath", "openHelper", "unlinkPath"}
  <2>1. /\ mgr'.watching = mgr.watching
        /\ mgr'.loaded[HelperOf[n]] = mgr.loaded[HelperOf[n]]
        /\ kind = "openPath" => n \in torn'.path
        /\ kind = "openHelper" =>
             n \in torn'.helper /\ disk'.path = disk.path /\ torn'.path = torn.path
        /\ kind = "unlinkPath" => torn'.path = torn.path
    BY <1>0, <1>1, <1>7 DEF FileEffect, TornEffect, WatchEffect, Torn, Opening, Closing
  <2>2. \A kd \in WatchSteps : kd \in O <=> kd \in P
    BY <1>7 DEF WatchSteps
  <2>3. \A kd \in {"stopPath", "startPath", "reload", "path", "helper"} : kd \in O <=> kd \in P
    BY <2>2 DEF WatchSteps
  <2>4. kind # "unlinkPath" /\ WatchOn(n, O) => WatchOn(n, P)'
    BY <1>7, <2>1, <2>3 DEF WatchOn
  <2> QED  BY <1>7, <2>1, <2>3, <2>4 DEF WatchKept
<1>8. CASE kind \notin {"reload", "startPath", "stopPath", "path", "helper", "openPath",
                        "openHelper", "unlinkPath"}
  <2>1. disk'.path = disk.path /\ mgr'.watching = mgr.watching
    BY <1>0, <1>8 DEF FileEffect, WatchEffect
  <2>2. torn'.path = torn.path /\ torn'.helper = torn.helper
    BY <1>0, <1>8 DEF TornEffect, Opening, Closing, Lost, Torn
  <2>3. mgr'.loaded[HelperOf[n]] = mgr.loaded[HelperOf[n]]
    BY <1>1, <1>8
  <2>4. O \cap WatchSteps \subseteq P
    BY <1>8 DEF WatchSteps
  <2> QED  BY <2>1, <2>2, <2>3, <2>4, WatchStays
<1> QED  BY <1>2, <1>3, <1>4, <1>5, <1>6, <1>7, <1>8

\* The step of a client leaves the watches of other names alone.
LEMMA OtherWatches ==
  ASSUME NEW c \in Clients, NEW kind \in Kinds, NEW n \in Names, Effect(c, kind, n),
         torn \in Torn, NEW m, m # n
  PROVE  /\ m \in mgr'.watching <=> m \in mgr.watching
         /\ m \in disk'.path <=> m \in disk.path
         /\ m \in mgr.bootPath => m \in mgr'.bootPath
         /\ m \in torn'.path <=> m \in torn.path
         /\ m \in torn'.helper <=> m \in torn.helper
<1>1. m \in mgr'.watching <=> m \in mgr.watching
  BY DEF Effect, WatchEffect
<1>2. m \in disk'.path <=> m \in disk.path
  BY DEF Effect, FileEffect, Lost
<1>3. m \in mgr.bootPath => m \in mgr'.bootPath
  BY DEF Effect, WatchEffect
<1>4. (m \in torn'.path <=> m \in torn.path) /\ (m \in torn'.helper <=> m \in torn.helper)
  BY DEF Effect, TornEffect, Opening, Closing, Lost, Torn
<1> QED  BY <1>1, <1>2, <1>3, <1>4

\* So is what is promised of them; a reload may find a companion that is being
\* written, or was cut short.
LEMMA OtherKept ==
  ASSUME OwnCompanions, RegType, AppInv, NEW c \in Clients, NEW kind \in Kinds, NEW n \in Names,
         Effect(c, kind, n), kind \notin Saving => n \in Apps,
         NEW m \in Apps, m # n, NEW W, NEW P, WatchKept(m, W, P)
  PROVE  WatchKept(m, W, P)'
<1>0. /\ JobEffect(kind, n) /\ EmptyIsTorn(m) /\ mgr \in Managers /\ torn \in Torn
      /\ HelperOf[m] \in Names /\ HelperOf[m] \notin Apps
  BY AppsAway DEF Effect, AppInv, RegType
<1>1. mgr'.loaded[HelperOf[m]] \in {mgr.loaded[HelperOf[m]], disk.service[HelperOf[m]]}
  <2>1. kind \in {"start", "restart", "stop"} => n # HelperOf[m]
    BY <1>0 DEF Saving
  <2> QED  BY <1>0, <2>1 DEF JobEffect, Managers
<1>2. /\ m \in mgr'.watching <=> m \in mgr.watching
      /\ m \in disk'.path <=> m \in disk.path
      /\ m \in torn'.path <=> m \in torn.path
      /\ m \in torn'.helper <=> m \in torn.helper
  BY <1>0, OtherWatches
<1>3. mgr'.loaded[HelperOf[m]] = Empty => mgr.loaded[HelperOf[m]] = Empty \/ m \in torn'.helper
  BY <1>0, <1>1, <1>2 DEF EmptyIsTorn
<1> QED  BY <1>2, <1>3, WatchStays

LEMMA WatchTaken ==
  ASSUME OwnCompanions, RegType, Apart, AppInv, ListInv, WatchInv,
         NEW c \in Clients, NEW n \in Names, NEW kind \in Kinds,
         Taken(c, kind, n), Effect(c, kind, n)
  PROVE  WatchInv'
<1>0. /\ TodoType /\ Separate /\ Lists /\ mgr.watching \subseteq disk.path \cup torn.path
      /\ WatchEffect(kind, n) /\ FileEffect(c, kind, n) /\ PromiseEffect(c, kind, n)
      /\ TornEffect(kind, n) /\ torn \in Torn
  BY DEF RegType, Apart, ListInv, WatchInv, Effect
<1>1. PICK head : head = Head(todo[c])
  OBVIOUS
<1>2. Has(c, head, {}) /\ head.do = kind /\ head.name = n
  BY <1>0, <1>1, HeadHas DEF Taken
<1>3. /\ kind = "finish" => n \in Apps /\ WatchKept(n, head.outcome.watched, {})
      /\ kind = "unlinkPath" => n \notin mgr.watching \/ n \in torn.path
      /\ kind = "path" => n \in disk.path \cup torn.path
      /\ kind = "saved" /\ n \in disk.path => n \in mgr.bootPath
      /\ kind \notin Saving => n \in Apps /\ expected[n] = Anything
      /\ kind \in Deletes => n \notin saved.watches
  BY <1>2 DEF WatchInv, WatchPlan, ListInv
\* A .path is gone only when it is unlinked or its writing is cut short.
<1>9. ASSUME NEW m, m \in disk.path \cup torn.path,
             kind # "unlinkPath" \/ m # n \/ m \in torn.path
      PROVE  m \in disk'.path \cup torn'.path
  <2>1. CASE m # n
    BY <1>0, <1>9, <2>1, OtherWatches
  <2>2. CASE m = n
    <3>1. CASE kind \in {"openPath", "path"}
      BY <1>0, <1>9, <2>2, <3>1 DEF FileEffect, TornEffect, Lost, Torn
    <3>2. CASE kind \notin {"openPath", "path"}
      <4>1. torn'.path = torn.path
        BY <1>0, <3>2 DEF TornEffect, Opening, Closing, Lost, Torn
      <4>2. kind # "unlinkPath" => disk'.path = disk.path
        BY <1>0, <3>2 DEF FileEffect
      <4> QED  BY <1>9, <2>2, <4>1, <4>2
    <3> QED  BY <3>1, <3>2
  <2> QED  BY <2>1, <2>2
<1>4. mgr'.watching \subseteq disk'.path \cup torn'.path
  <2> SUFFICES ASSUME NEW m \in mgr'.watching PROVE m \in disk'.path \cup torn'.path
    OBVIOUS
  <2>1. m \in disk.path \cup torn.path
    BY <1>0 DEF WatchEffect
  <2>2. kind = "unlinkPath" /\ m = n => m \in torn.path
    <3>1. kind = "unlinkPath" => mgr'.watching = mgr.watching
      BY <1>0 DEF WatchEffect
    <3> QED  BY <1>3, <3>1
  <2> QED  BY <1>9, <2>1, <2>2
<1>5. saved'.watches \subseteq mgr'.bootPath /\ saved'.watches \subseteq disk'.path \cup torn'.path
  <2> SUFFICES ASSUME NEW m \in saved'.watches
               PROVE  m \in mgr'.bootPath /\ m \in disk'.path \cup torn'.path
    OBVIOUS
  <2>1. m \in saved.watches \/ (kind = "saved" /\ m = n /\ n \in disk.path)
    BY <1>0 DEF PromiseEffect
  <2>2. m \in mgr.bootPath /\ m \in disk.path \cup torn.path
    BY <1>3, <2>1 DEF WatchInv
  <2>3. m = n => kind # "disable" /\ kind # "unlinkPath"
    BY <1>3, <2>1 DEF Deletes, Unlinks
  <2>4. m \in mgr'.bootPath
    BY <1>0, <2>2, <2>3 DEF WatchEffect
  <2>5. m \in disk'.path \cup torn'.path
    BY <1>9, <2>2, <2>3
  <2> QED  BY <2>4, <2>5
<1>6. ASSUME NEW x \in Clients, NEW s, NEW P, Has(x, s, P)'
      PROVE  WatchPlan(s, P)'
  <2>1. PICK O : /\ Has(x, s, O) /\ P \subseteq O
                 /\ s.name # n => O = P
                 /\ s.name = n => /\ x = c /\ kind \in O /\ O \subseteq P \cup {kind}
                                  /\ << kind, s.do >> \notin Backwards
                                  /\ \A kd \in P : << kind, kd >> \notin Backwards
                                  /\ s.do = "finish" => Fits(Head(todo[c]), s.outcome)
    BY <1>0, <1>6, TakenHas
  <2>2. WatchPlan(s, O)
    BY <2>1 DEF WatchInv
  <2>3. PICK m, W : m = s.name /\ W = s.outcome.watched
    OBVIOUS
  <2>4. CASE m # n
    <3>1. /\ m \in mgr'.watching <=> m \in mgr.watching
          /\ m \in disk'.path <=> m \in disk.path
          /\ m \in mgr.bootPath => m \in mgr'.bootPath
          /\ m \in torn'.path <=> m \in torn.path
      BY <1>0, <2>4, OtherWatches
    <3>2. O = P
      BY <2>1, <2>3, <2>4
    <3>3. s.do = "finish" => m \in Apps /\ WatchKept(m, W, P)'
      <4> SUFFICES ASSUME s.do = "finish" PROVE m \in Apps /\ WatchKept(m, W, P)'
        OBVIOUS
      <4>1. m \in Apps /\ WatchKept(m, W, P)
        BY <2>2, <2>3, <3>2 DEF WatchPlan
      <4> QED  BY <1>3, <2>4, <4>1, OtherKept
    <3> QED  BY <2>2, <2>3, <3>1, <3>2, <3>3 DEF WatchPlan
  <2>5. CASE m = n
    <3>1. s.do = "finish" => m \in Apps /\ WatchKept(m, W, P)'
      <4> SUFFICES ASSUME s.do = "finish" PROVE n \in Apps /\ WatchKept(n, W, P)'
        BY <2>5
      <4>1. n \in Apps /\ WatchKept(n, W, O)
        BY <2>2, <2>3, <2>5 DEF WatchPlan
      <4>2. /\ kind \in {"path", "startPath"} => TRUE \in W
            /\ kind \in {"unlinkPath", "stopPath"} => FALSE \in W
        BY <1>1, <1>2, <2>1, <2>3, <2>5 DEF Fits
      <4>3. /\ P \subseteq O /\ O \subseteq P \cup {kind} /\ kind \in O
            /\ \A kd \in P : << kind, kd >> \notin Backwards
        BY <2>1, <2>3, <2>5
      <4> QED  BY <1>3, <4>1, <4>2, <4>3, WatchMoves
    <3>2. ASSUME s.do = "unlinkPath"
          PROVE  "stopPath" \in P \/ n \notin mgr'.watching \/ n \in torn'.path
      <4>0. "stopPath" \in O \/ n \notin mgr.watching \/ n \in torn.path
        BY <2>2, <2>3, <2>5, <3>2 DEF WatchPlan
      <4>1. kind # "startPath" /\ kind # "path"
        BY <2>1, <2>3, <2>5, <3>2 DEF Backwards
      <4>2. CASE kind = "stopPath"
        <5>1. torn'.path = torn.path
          BY <1>0, <4>2 DEF TornEffect, Opening, Closing
        <5> QED  BY <1>0, <4>2, <5>1 DEF WatchEffect
      <4>3. CASE kind = "openPath"
        BY <1>0, <4>3 DEF TornEffect, Torn
      <4>4. CASE kind \notin {"stopPath", "openPath"}
        <5>1. mgr'.watching = mgr.watching
          BY <1>0, <4>1, <4>4 DEF WatchEffect
        <5>2. torn'.path = torn.path
          BY <1>0, <4>1, <4>4 DEF TornEffect, Opening, Closing, Lost, Torn
        <5> QED  BY <2>1, <2>3, <2>5, <4>0, <4>4, <5>1, <5>2
      <4> QED  BY <4>2, <4>3, <4>4
    <3>3. ASSUME s.do = "path"
          PROVE  "openPath" \in P \/ n \in disk'.path \cup torn'.path
      <4>0. "openPath" \in O \/ n \in disk.path \cup torn.path
        BY <2>2, <2>3, <2>5, <3>3 DEF WatchPlan
      <4>1. kind # "unlinkPath"
        <5>1. Has(c, s, O) /\ Has(c, head, {}) /\ OneWay(todo[c])
          BY <1>2, <2>1, <2>3, <2>5 DEF Apart
        <5>2. "path" \in Writes /\ "unlinkPath" \in Unlinks
          BY DEF Writes, Unlinks
        <5> QED  BY <1>2, <3>3, <5>1, <5>2 DEF Has, OneWay
      <4>2. CASE kind = "openPath"
        BY <1>0, <4>2 DEF TornEffect, Torn
      <4>3. CASE kind # "openPath"
        BY <1>9, <2>1, <2>3, <2>5, <4>0, <4>1, <4>3
      <4> QED  BY <4>2, <4>3
    <3>4. ASSUME s.do = "saved", n \in disk'.path
          PROVE  "enable" \in P \/ n \in mgr'.bootPath
      <4>0. n \in disk.path => "enable" \in O \/ n \in mgr.bootPath
        BY <2>2, <2>3, <2>5, <3>4 DEF WatchPlan
      <4>1. kind \in {"enable", "saved"}
        BY <2>1, <2>3, <2>5, <3>4 DEF Backwards, Saving
      <4>2. disk'.path = disk.path
        BY <1>0, <4>1 DEF FileEffect
      <4>3. CASE kind = "enable"
        BY <1>0, <3>4, <4>2, <4>3 DEF WatchEffect
      <4>4. CASE kind = "saved"
        <5>1. mgr'.bootPath = mgr.bootPath
          BY <1>0, <4>4 DEF WatchEffect
        <5> QED  BY <2>1, <2>3, <2>5, <3>4, <4>0, <4>2, <4>4, <5>1
      <4> QED  BY <4>1, <4>3, <4>4
    <3> QED  BY <2>3, <2>5, <3>1, <3>2, <3>3, <3>4 DEF WatchPlan
  <2> QED  BY <2>4, <2>5
<1>7. \A a \in Apps : WatchKept(a, expected[a].watched, {})'
  <2> TAKE a \in Apps
  <2>0. PICK D, W : D = {} /\ W = expected[a].watched
    OBVIOUS
  <2>1. WatchKept(a, W, D)
    BY <2>0 DEF WatchInv
  <2>2. CASE a # n
    <3>1. expected'[a] = expected[a]
      BY <1>0, <2>2 DEF PromiseEffect
    <3>2. WatchKept(a, W, D)'
      BY <1>3, <2>1, <2>2, OtherKept
    <3> QED  BY <2>0, <3>1, <3>2
  <2>6. ASSUME kind \in {"finish", "enable", "saved"}
        PROVE  /\ mgr'.watching = mgr.watching /\ disk'.path = disk.path /\ torn' = torn
               /\ mgr'.loaded = mgr.loaded
    BY <1>0, <2>6 DEF WatchEffect, FileEffect, TornEffect, Opening, Closing, Effect, JobEffect
  <2>3. CASE a = n /\ kind \in Saving
    <3>1. expected'[a] = expected[a] /\ kind \in {"finish", "enable", "saved"}
      BY <1>0, <2>3 DEF PromiseEffect, Saving
    <3>2. WatchKept(a, W, D)'
      BY <2>1, <2>6, <3>1, WatchStays
    <3> QED  BY <2>0, <3>1, <3>2
  <2>4. CASE a = n /\ kind = "finish"
    <3>1. expected'[a] = head.outcome
      BY <1>0, <1>1, <2>4 DEF PromiseEffect
    <3>2. PICK V : V = head.outcome.watched
      OBVIOUS
    <3>3. WatchKept(a, V, D)
      BY <1>3, <2>0, <2>4, <3>2
    <3>4. WatchKept(a, V, D)'
      BY <2>4, <2>6, <3>3, WatchStays
    <3> QED  BY <2>0, <3>1, <3>2, <3>4
  <2>5. CASE a = n /\ kind \notin Saving /\ kind # "finish"
    <3>1. expected'[a] = Anything
      BY <1>0, <1>3, <2>5 DEF PromiseEffect
    <3> QED  BY <3>1 DEF WatchKept, Anything, Outcome
  <2> QED  BY <2>2, <2>3, <2>4, <2>5
<1>8. \A x \in Clients : \A s, P : Has(x, s, P)' => WatchPlan(s, P)'
  BY <1>6
<1> QED  BY <1>4, <1>5, <1>7, <1>8 DEF WatchInv

\* A unit the manager does not know, or one whose file is empty: no stop of a watch
\* is lost.
LEMMA WatchRefused ==
  ASSUME RegType, Apart, WatchInv, NEW c \in Clients, NEW n \in Names, Refused(c, n)
  PROVE  WatchInv'
<1>0. TodoType /\ Separate /\ GivenUp(c, n)
  BY DEF RegType, Apart, GivenUp
<1>1. UNCHANGED << disk, mgr, expected, saved, torn >>
  BY <1>0, GivenUpMoves
<1>2. ASSUME NEW x \in Clients, NEW s, NEW P, Has(x, s, P)'
      PROVE  WatchPlan(s, P)
  <2>1. PICK O : /\ Has(x, s, O) /\ P \subseteq O
                 /\ s.name # n => O = P
                 /\ s.name = n => s.do \notin {"finish", "saved"}
                 /\ s.name = n /\ Refused(c, n) =>
                      \A kd \in O : kd \in P \cup {"start", "restart", "enable", "finish", "saved"}
    BY <1>0, <1>2, GivenUpHas
  <2>2. WatchPlan(s, O)
    BY <2>1 DEF WatchInv
  <2>3. CASE s.name # n
    BY <2>1, <2>2, <2>3
  <2>4. CASE s.name = n
    <3>1. ("stopPath" \in O => "stopPath" \in P) /\ ("openPath" \in O => "openPath" \in P)
      BY <2>1, <2>4
    <3> QED  BY <2>1, <2>2, <2>4, <3>1 DEF WatchPlan
  <2> QED  BY <2>3, <2>4
<1>3. \A m, W, P : WatchKept(m, W, P) => WatchKept(m, W, P)'
  <2>1. \A m, P : WatchOn(m, P) => WatchOn(m, P)'
    BY <1>1 DEF WatchOn
  <2> QED  BY <1>1, <2>1 DEF WatchKept
<1>4. ASSUME NEW x \in Clients, NEW s, NEW P, Has(x, s, P)'
      PROVE  WatchPlan(s, P)'
  <2>1. WatchPlan(s, P)
    BY <1>2, <1>4
  <2>2. PICK m, W : m = s.name /\ W = s.outcome.watched
    OBVIOUS
  <2>3. s.do = "finish" => m \in Apps /\ WatchKept(m, W, P)'
    BY <1>3, <2>1, <2>2 DEF WatchPlan
  <2> QED  BY <1>1, <2>1, <2>2, <2>3 DEF WatchPlan
<1>5. \A a \in Apps : WatchKept(a, expected[a].watched, {})'
  <2> TAKE a \in Apps
  <2>1. PICK W, D : W = expected[a].watched /\ D = {}
    OBVIOUS
  <2>2. WatchKept(a, W, D)'
    BY <1>3, <2>1 DEF WatchInv
  <2> QED  BY <1>1, <2>1, <2>2
<1>6. \A x \in Clients : \A s, P : Has(x, s, P)' => WatchPlan(s, P)'
  BY <1>4
<1> QED  BY <1>1, <1>5, <1>6 DEF WatchInv

\* No step or call failed so far.
Unfailed == used.failures = 0

LEMMA UnfailedBefore ==
  ASSUME RegType, [Next]_vars, Unfailed'
  PROVE  /\ Unfailed
         /\ \A c \in Clients, n \in Names : ~CallFails(c, n) /\ ~FileFails(c, n)
<1>0. used \in Uses
  BY DEF RegType
<1>1. used.failures \in Nat /\ used.failures + 1 # 0
  BY <1>0 DEF Uses
<1>2. \A c \in Clients, n \in Names : ~CallFails(c, n) /\ ~FileFails(c, n)
  BY <1>0, <1>1 DEF CallFails, FileFails, Unfailed, Uses
<1>3. CASE \E c \in Clients, n \in Names : FileStep(c, n) \/ CallStep(c, n)
  <2>1. used'.failures = used.failures
    BY <1>2, <1>3, ClientEffect DEF GivenUp, Refused
  <2> QED  BY <1>2, <2>1 DEF Unfailed
<1>4. CASE ~\E c \in Clients, n \in Names : FileStep(c, n) \/ CallStep(c, n)
  <2>1. used'.failures = used.failures
    BY <1>0, <1>4 DEF Next, vars, Begin, Killed, Complete, CompanionRuns, Trigger, Reboot, Uses
  <2> QED  BY <1>2, <2>1 DEF Unfailed
<1> QED  BY <1>3, <1>4

LEMMA WatchNext ==
  ASSUME OwnCompanions, RegType, Apart, PathInv, AppInv, ListInv, Unfailed => WatchInv,
         [Next]_vars
  PROVE  Unfailed' => WatchInv'
<1> SUFFICES ASSUME Unfailed' PROVE WatchInv'
  OBVIOUS
<1>0. WatchInv /\ \A c \in Clients, n \in Names : ~CallFails(c, n) /\ ~FileFails(c, n)
  BY UnfailedBefore
<1>1. CASE \E c \in Clients, n \in Names : FileStep(c, n) \/ CallStep(c, n)
  <2>1. PICK c \in Clients, n \in Names : FileStep(c, n) \/ CallStep(c, n)
    BY <1>1
  <2>2. \/ GivenUp(c, n)
        \/ \E kind \in Kinds : Taken(c, kind, n) /\ Effect(c, kind, n)
    BY <2>1, ClientEffect DEF Taken
  <2> QED  BY <1>0, <2>2, WatchTaken, WatchRefused DEF GivenUp
<1>2. CASE \E c \in Clients, command \in Commands : Begin(c, command)
  BY <1>0, <1>2, WatchBegin
<1>3. CASE Reboot \/ \E c \in Clients : Killed(c)
  BY <1>0, <1>3, WatchFewer
<1>4. CASE \/ \E n \in Names : Complete(n)
           \/ \E a \in Apps : CompanionRuns(a) \/ Trigger(a)
  BY <1>0, <1>4, WatchManager
<1>5. CASE UNCHANGED vars
  <2>1. UNCHANGED << disk, mgr, todo, expected, saved, torn >>
    BY <1>5 DEF vars
  <2>2. \A x \in Clients : \A s, P : Has(x, s, P)' => Has(x, s, P)
    BY <2>1 DEF Has
  <2> QED  BY <1>0, <2>1, <2>2, WatchQuiet
<1> QED  BY <1>1, <1>2, <1>3, <1>4, <1>5 DEF Next

LEMMA Watched == WatchInv => WatchObeyed
<1> SUFFICES ASSUME WatchInv, Quiet, NEW a \in Apps \ (torn.path \cup torn.helper)
             PROVE  (a \in mgr.watching) \in expected[a].watched
  BY DEF WatchObeyed
<1>1. WatchKept(a, expected[a].watched, {})
  BY DEF WatchInv
<1>2. CASE a \in mgr.watching
  <2>1. TRUE \in expected[a].watched
    BY <1>1, <1>2 DEF WatchKept
  <2>2. (a \in mgr.watching) = TRUE
    BY <1>2
  <2> QED  BY <2>1, <2>2, Zenon
<1>3. CASE a \notin mgr.watching
  <2>1. FALSE \in expected[a].watched
    BY <1>1, <1>3 DEF WatchKept, WatchOn
  <2>2. (a \in mgr.watching) = FALSE
    BY <1>3
  <2> QED  BY <2>1, <2>2, Zenon
<1> QED  BY <1>2, <1>3

\* As long as no call failed, what a command promises of a watch holds once all is
\* quiet: an app deployed watched is watched, a stopped or deleted one is not, and a
\* saved one is watched again after a reboot, wherever fdash was killed and whatever a
\* full disk lost (start_single_app, cmd_stop, delete_one and cmd_save); an app whose
\* .path or companion was emptied to be written, and was not written since, is left out.
THEOREM WatchesAsPromised == OwnCompanions /\ Spec => [](Unfailed => WatchObeyed)
<1>1. SUFFICES ASSUME OwnCompanions PROVE Spec => [](Unfailed => WatchObeyed)
  OBVIOUS
<1>2. Init => PathInv
  BY PathInit
<1>3. RegType /\ Apart /\ PathInv /\ [Next]_vars => PathInv'
  BY <1>1, PathNext
<1>4. Init => AppInv /\ ListInv
  BY BaseInit
<1>5. RegType /\ Apart /\ AppInv /\ ListInv /\ [Next]_vars => AppInv' /\ ListInv'
  BY <1>1, BaseNext
<1>6. Init => (Unfailed => WatchInv)
  BY WatchInit
<1>7. RegType /\ Apart /\ PathInv /\ AppInv /\ ListInv /\ (Unfailed => WatchInv) /\ [Next]_vars
        => (Unfailed' => WatchInv')
  BY <1>1, WatchNext
<1>8. (Unfailed => WatchInv) => (Unfailed => WatchObeyed)
  BY Watched
<1> QED  BY <1>2, <1>3, <1>4, <1>5, <1>6, <1>7, <1>8, AlwaysTyped, AlwaysApart, PTL DEF Spec

-----------------------------------------------------------------------------
(* What the apps run. *)

\* The file, the jobs and the processes of n are as they were, and the manager has
\* at most read the file again.
Untouched(n) == /\ disk'.service[n] = disk.service[n]
                /\ mgr'.loaded[n] \in {mgr.loaded[n], disk.service[n]}
                /\ mgr'.job[n] = mgr.job[n] /\ mgr'.running[n] = mgr.running[n]

\* The steps a promise about what runs depends on.
Deciding == {"openService", "service", "reload", "start", "restart", "stop"}

LEMMA UntouchedFacts ==
  ASSUME NEW n, Untouched(n)
  PROVE  /\ Current(n) => Current(n)'
         /\ Lookup(n) = NoUnit => Lookup(n)' = NoUnit
         /\ \A R : Active(n, R) => Active(n, R)'
BY DEF Untouched, Current, Lookup, Active

LEMMA DownStays ==
  ASSUME NEW n, Untouched(n), Down(n)
  PROVE  Down(n)'
<1>1. Lookup(n) = NoUnit => Lookup(n)' = NoUnit
  BY UntouchedFacts
<1>2. mgr'.job[n] = mgr.job[n] /\ mgr'.running[n] = mgr.running[n]
  BY DEF Untouched
<1> QED  BY <1>1, <1>2 DEF Down

LEMMA PromiseStays ==
  ASSUME NEW n, NEW R, NEW O, NEW P, Promise(n, R, O), P \subseteq O, O \cap Deciding \subseteq P,
         Untouched(n), Cold(n) /\ "start" \in P => Cold(n)'
  PROVE  Promise(n, R, P)'
<1>1. \A kd \in Deciding : kd \in O <=> kd \in P
  OBVIOUS
<1>2. "openService" \in Deciding /\ "service" \in Deciding /\ "reload" \in Deciding
      /\ "start" \in Deciding /\ "restart" \in Deciding
  BY DEF Deciding
<1>3. /\ \/ "service" \in P \/ disk'.service[n].program \in R
         \/ "start" \in P /\ disk'.service[n] = Empty
      /\ "openService" \in P => "service" \in P
  BY <1>1, <1>2 DEF Promise, Untouched
<1>4. "reload" \in P \/ Current(n)'
  BY <1>1, <1>2, UntouchedFacts DEF Promise
<1>5. "start" \in P \/ "restart" \in P \/ Active(n, R)'
  BY <1>1, <1>2, UntouchedFacts DEF Promise
<1>6. "start" \in P /\ R # Programs => Cold(n)'
  BY <1>1, <1>2 DEF Promise
<1>7. ("service" \in P => "reload" \in P) /\ ("reload" \in P => "start" \in P)
  BY <1>1, <1>2 DEF Promise
<1> QED  BY <1>3, <1>4, <1>5, <1>6, <1>7 DEF Promise

LEMMA KeptStays ==
  ASSUME NEW n, NEW R, NEW O, NEW P, Kept(n, R, O), P \subseteq O, O \cap Deciding \subseteq P,
         Untouched(n), Cold(n) /\ "start" \in P => Cold(n)'
  PROVE  Kept(n, R, P)'
<1>1. CASE R = MayRun
  BY <1>1 DEF Kept
<1>2. CASE R \subseteq Programs /\ Promise(n, R, O)
  BY <1>2, PromiseStays DEF Kept
<1>3. CASE R = {Off} /\ (FilesChange \/ "stop" \in O \/ Down(n))
  <2>1. "stop" \in O => "stop" \in P
    BY DEF Deciding
  <2>2. Down(n) => Down(n)'
    BY DownStays
  <2> QED  BY <1>3, <2>1, <2>2 DEF Kept
<1> QED  BY <1>1, <1>2, <1>3 DEF Kept

\* A promise about MayRun is none.
LEMMA AnyRuns ==
  ASSUME NEW n, NEW P
  PROVE  Kept(n, MayRun, P) /\ Anything.running = MayRun
BY DEF Kept, Anything, Outcome, MayRun

LEMMA Distinct ==
  ASSUME NEW R
  PROVE  /\ R = {Off} => ~(R \subseteq Programs)
         /\ R = MayRun => ~(R \subseteq Programs)
BY RegistryAssumption DEF MayRun

\* The step of a client on n, of a kind that decides what n runs.
LEMMA ServiceKept ==
  ASSUME NEW c \in Clients, NEW n \in Apps, RegType, NEW kind \in {"openService", "service"},
         Effect(c, kind, n), NEW R, NEW O, NEW P, Kept(n, R, O),
         P \subseteq O, O \subseteq P \cup {kind}, kind \in O,
         \A kd \in P : << kind, kd >> \notin Backwards,
         kind = "service" => Head(todo[c]).unit.program \in R /\ disk.service[n] = Empty,
         R = MayRun \/ R \subseteq Programs
  PROVE  Kept(n, R, P)'
<1>1. CASE R = MayRun
  BY <1>1 DEF Kept
<1>2. CASE R \subseteq Programs
  <2>1. Promise(n, R, O)
    BY <1>2, Distinct DEF Kept
  <2>2. "reload" \in P /\ "start" \in P /\ (R # Programs => Cold(n))
    BY <2>1 DEF Promise
  <2>3. /\ "service" \in P \/ disk'.service[n].program \in R \/ disk'.service[n] = Empty
        /\ "openService" \in P => "service" \in P
    <3>1. CASE kind = "openService"
      BY <2>1, <3>1 DEF Promise
    <3>2. CASE kind = "service"
      <4>1. "openService" \notin P
        BY <3>2 DEF Backwards
      <4>2. Lost \/ disk'.service = [disk.service EXCEPT ![n] = Head(todo[c]).unit]
        BY <3>2 DEF Effect, FileEffect
      <4>3. n \in Names /\ disk.service \in [Names -> Unit]
        BY RegistryAssumption DEF RegType, Disks
      <4> QED  BY <3>2, <4>1, <4>2, <4>3 DEF Lost
    <3> QED  BY <3>1, <3>2
  <2>4. Cold(n) => Cold(n)'
    BY DEF Effect, JobEffect, WatchEffect, Cold
  <2>5. Promise(n, R, P)'
    BY <2>2, <2>3, <2>4 DEF Promise
  <2> QED  BY <1>2, <2>5 DEF Kept
<1> QED  BY <1>1, <1>2

LEMMA UnlinkKept ==
  ASSUME NEW c \in Clients, NEW n \in Apps, RegType, Effect(c, "unlinkService", n),
         NEW R, NEW O, NEW P, Kept(n, R, O), O \subseteq P \cup {"unlinkService"},
         R = {Off}
  PROVE  Kept(n, R, P)'
<1>0. n \in Names /\ disk.service \in [Names -> Unit]
  BY RegistryAssumption DEF RegType, Disks
<1>1. CASE R = MayRun
  BY <1>1 DEF Kept
<1>2. CASE FilesChange \/ "stop" \in O
  BY <1>2 DEF Kept
<1>3. CASE Down(n)
  <2>1. disk'.service[n] = NoUnit
    BY <1>0 DEF Effect, FileEffect
  <2>2. mgr'.loaded = mgr.loaded /\ mgr'.job = mgr.job /\ mgr'.running = mgr.running
    BY DEF Effect, JobEffect
  <2>3. Lookup(n) = NoUnit => Lookup(n)' = NoUnit
    BY <2>1, <2>2 DEF Lookup
  <2>4. Down(n)'
    BY <1>3, <2>2, <2>3 DEF Down
  <2> QED  BY <2>4 DEF Kept
<1> QED  BY <1>1, <1>2, <1>3, Distinct DEF Kept

LEMMA ReloadKept ==
  ASSUME NEW c \in Clients, NEW n \in Apps, RegType, Effect(c, "reload", n),
         NEW R, NEW O, NEW P, Kept(n, R, O), P \subseteq O, O \subseteq P \cup {"reload"},
         \A kd \in P : << "reload", kd >> \notin Backwards
  PROVE  Kept(n, R, P)'
<1>0. /\ disk'.service = disk.service /\ mgr'.loaded = disk.service
      /\ mgr'.job = mgr.job /\ mgr'.running = mgr.running /\ mgr'.watching = mgr.watching
  BY DEF Effect, FileEffect, JobEffect, WatchEffect, Changes
<1>1. "service" \notin P /\ "openService" \notin P
  <2>1. << "reload", "service" >> \in Backwards /\ << "reload", "openService" >> \in Backwards
    BY DEF Backwards, Writes
  <2> QED  BY <2>1
<1>2. Untouched(n)
  BY <1>0 DEF Untouched
<1>3. CASE R = MayRun
  BY <1>3 DEF Kept
<1>4. CASE R \subseteq Programs /\ Promise(n, R, O)
  <2>1. "service" \notin O
    BY <1>1
  <2>2. Current(n)'
    BY <1>0 DEF Current
  <2>3. Cold(n) => Cold(n)'
    BY <1>0 DEF Cold
  <2>4. Active(n, R) => Active(n, R)'
    BY <1>2, UntouchedFacts
  <2>5. Promise(n, R, P)'
    BY <1>0, <1>1, <1>4, <2>1, <2>2, <2>3, <2>4 DEF Promise
  <2> QED  BY <1>4, <2>5 DEF Kept
<1>5. CASE R = {Off} /\ (FilesChange \/ "stop" \in O \/ Down(n))
  BY <1>2, <1>5, DownStays DEF Kept
<1> QED  BY <1>3, <1>4, <1>5 DEF Kept

LEMMA StartKept ==
  ASSUME NEW c \in Clients, NEW n \in Apps, RegType, AppInv, NEW kind \in {"start", "restart"},
         Effect(c, kind, n),
         NEW R, NEW O, NEW P, Kept(n, R, O), P \subseteq O, O \subseteq P \cup {kind}, kind \in O,
         \A kd \in P : << kind, kd >> \notin Backwards,
         R = MayRun \/ R \subseteq Programs
  PROVE  Kept(n, R, P)'
<1>0. /\ n \in Names /\ mgr.loaded \in [Names -> Unit] /\ mgr.running[n] \in MayRun
      /\ mgr.job \in [Names -> {"none", "start", "stop", "restart"}]
  BY RegistryAssumption DEF RegType, Managers, AppInv
<1>1. /\ "openService" \notin P /\ "service" \notin P /\ "reload" \notin P
      /\ "start" \notin P
  BY DEF Backwards
<1>2. CASE R = MayRun
  BY <1>2 DEF Kept
<1>3. CASE R \subseteq Programs
  <2>1. Promise(n, R, O)
    BY <1>3, Distinct DEF Kept
  <2>2. "service" \notin O /\ "reload" \notin O
    BY <1>1
  <2>3. /\ disk'.service = disk.service /\ mgr'.running = mgr.running
        /\ mgr'.loaded = [mgr.loaded EXCEPT ![n] = Lookup(n)]
        /\ mgr'.job = [mgr.job EXCEPT ![n] = Merged(mgr.job[n], kind)]
    BY DEF Effect, FileEffect, JobEffect, Changes
  <2>4. disk'.service[n].program \in R
    <3>1. Current(n) /\ Lookup(n) \notin Unusable
      BY <2>1, <2>2 DEF Promise, Effect, JobEffect
    <3>2. disk.service[n] # Empty
      BY <3>1 DEF Current, Lookup, Unusable
    <3> QED  BY <2>1, <2>2, <2>3, <3>2 DEF Promise
  <2>5. Current(n)'
    <3>1. Current(n)
      BY <2>1, <2>2 DEF Promise
    <3> QED  BY <1>0, <2>3, <3>1 DEF Current, Lookup
  <2>6. Active(n, R)'
    <3>1. mgr'.job[n] = Merged(mgr.job[n], kind)
      BY <1>0, <2>3
    <3>2. CASE kind = "restart"
      BY <3>1, <3>2 DEF Merged, Active
    <3>3. CASE kind = "start"
      <4>1. mgr.running[n] \in R \cup {Off}
        <5>1. R # Programs => mgr.running[n] = Off
          BY <2>1, <3>3 DEF Promise, Cold
        <5> QED  BY <1>0, <5>1 DEF MayRun
      <4>2. mgr'.job[n] = "restart" \/ mgr'.job[n] = "start"
        BY <3>1, <3>3 DEF Merged
      <4> QED  BY <2>3, <4>1, <4>2 DEF Active
    <3> QED  BY <3>2, <3>3
  <2>7. Promise(n, R, P)'
    BY <1>1, <2>4, <2>5, <2>6 DEF Promise
  <2> QED  BY <1>3, <2>7 DEF Kept
<1> QED  BY <1>2, <1>3

LEMMA StopKept ==
  ASSUME NEW c \in Clients, NEW n \in Apps, RegType, Effect(c, "stop", n), NEW P
  PROVE  Kept(n, {Off}, P)'
<1>0. n \in Names /\ mgr.job \in [Names -> {"none", "start", "stop", "restart"}]
  BY RegistryAssumption DEF RegType, Managers
<1>1. /\ disk'.service = disk.service /\ mgr'.running = mgr.running
      /\ \/ mgr'.job = [mgr.job EXCEPT ![n] = Merged(mgr.job[n], "stop")]
         \/ /\ Lookup(n) = NoUnit /\ mgr.running[n] = Off /\ mgr'.loaded = mgr.loaded
  BY DEF Effect, FileEffect, JobEffect, Changes
<1>2. CASE mgr'.job = [mgr.job EXCEPT ![n] = Merged(mgr.job[n], "stop")]
  <2>1. mgr'.job[n] = "stop"
    BY <1>0, <1>2 DEF Merged
  <2> QED  BY <2>1 DEF Kept, Down
<1>3. CASE Lookup(n) = NoUnit /\ mgr.running[n] = Off /\ mgr'.loaded = mgr.loaded
  <2>1. Lookup(n)' = NoUnit /\ mgr'.running[n] = Off
    BY <1>1, <1>3 DEF Lookup
  <2> QED  BY <2>1 DEF Kept, Down
<1> QED  BY <1>1, <1>2, <1>3

\* A step on n: what it leaves of a promise about n.
LEMMA KeptMoves ==
  ASSUME RegType, AppInv, NEW c \in Clients, NEW kind \in Kinds, NEW n \in Apps,
         Effect(c, kind, n), OwnCompanions,
         NEW outcome, NEW R, R = outcome.running,
         NEW O, NEW P, Kept(n, R, O), P \subseteq O, O \subseteq P \cup {kind}, kind \in O,
         \A kd \in P : << kind, kd >> \notin Backwards,
         Head(todo[c]).do = kind, Fits(Head(todo[c]), outcome),
         kind = "service" => disk.service[n] = Empty
  PROVE  Kept(n, R, P)'
<1>1. CASE kind \in {"openService", "service"}
  <2>1. /\ R = MayRun \/ R \subseteq Programs
        /\ kind = "service" => Head(todo[c]).unit.program \in R
    BY <1>1 DEF Fits
  <2> QED  BY <1>1, <2>1, ServiceKept
<1>2. CASE kind = "unlinkService"
  <2>1. R = {Off}
    BY <1>2 DEF Fits
  <2> QED  BY <1>2, <2>1, UnlinkKept
<1>3. CASE kind = "reload"
  BY <1>3, ReloadKept
<1>4. CASE kind \in {"start", "restart"}
  <2>1. R = MayRun \/ R \subseteq Programs
    BY <1>4 DEF Fits
  <2> QED  BY <1>4, <2>1, StartKept
<1>5. CASE kind = "stop"
  <2>1. R = {Off}
    BY <1>5 DEF Fits
  <2> QED  BY <1>5, <2>1, StopKept
<1>6. CASE kind \notin {"openService", "service", "unlinkService", "reload", "start", "restart", "stop"}
  <2>0. FileEffect(c, kind, n) /\ JobEffect(kind, n) /\ WatchEffect(kind, n)
    BY DEF Effect
  <2>1. disk'.service[n] = disk.service[n]
    <3>1. CASE kind \notin Changes
      BY <2>0, <3>1 DEF FileEffect
    <3>2. CASE kind \in {"openHelper", "helper", "unlinkHelper"}
      <4>1. HelperOf[n] # n
        BY AppsAway
      <4>2. n \in Names /\ disk.service \in [Names -> Unit]
        BY RegistryAssumption DEF RegType, Disks
      <4> QED  BY <2>0, <3>2, <4>1, <4>2 DEF FileEffect, Lost
    <3> QED  BY <1>6, <3>1, <3>2 DEF Changes
  <2>2. mgr'.loaded = mgr.loaded /\ mgr'.job = mgr.job /\ mgr'.running = mgr.running
    BY <1>6, <2>0 DEF JobEffect
  <2>3. Untouched(n)
    BY <2>1, <2>2 DEF Untouched
  <2>4. Cold(n) /\ "start" \in P => Cold(n)'
    <3>1. CASE kind = "startPath"
      BY <3>1 DEF Backwards
    <3>2. CASE kind # "startPath"
      <4>1. mgr'.watching \subseteq mgr.watching
        BY <2>0, <3>2 DEF WatchEffect
      <4> QED  BY <2>2, <4>1 DEF Cold
    <3> QED  BY <3>1, <3>2
  <2>5. O \cap Deciding \subseteq P
    BY <1>6 DEF Deciding
  <2> QED  BY <2>3, <2>4, <2>5, KeptStays
<1> QED  BY <1>1, <1>2, <1>3, <1>4, <1>5, <1>6

\* A step on n leaves the other apps alone.
LEMMA OtherApps ==
  ASSUME RegType, OwnCompanions, NEW c \in Clients, NEW kind \in Kinds, NEW n \in Names,
         Effect(c, kind, n), kind \notin Saving => n \in Apps,
         NEW a \in Apps, a # n
  PROVE  Untouched(a) /\ (Cold(a) => Cold(a)')
<1>0. /\ FileEffect(c, kind, n) /\ JobEffect(kind, n) /\ WatchEffect(kind, n)
      /\ a \in Names /\ HelperOf[a] \in Names
      /\ mgr \in Managers /\ disk \in Disks
  BY AppsAway DEF Effect, RegType
<1>1. disk'.service[a] = disk.service[a]
  <2>1. CASE kind \notin Changes
    BY <1>0, <2>1 DEF FileEffect
  <2>2. CASE kind \in {"openService", "service", "unlinkService"}
    BY <1>0, <2>2 DEF FileEffect, Disks, Lost
  <2>3. CASE kind \in {"openHelper", "helper", "unlinkHelper"}
    <3>1. n \in Apps /\ HelperOf[n] # a
      BY <2>3, AppsAway DEF Saving
    <3> QED  BY <1>0, <2>3, <3>1 DEF FileEffect, Disks, Lost
  <2> QED  BY <2>1, <2>2, <2>3 DEF Changes
<1>2. mgr'.loaded[a] \in {mgr.loaded[a], disk.service[a]}
  BY <1>0 DEF JobEffect, Managers
<1>3. mgr'.running = mgr.running
  BY <1>0 DEF JobEffect
<1>4. \A m \in Names : m # n => mgr'.job[m] = mgr.job[m]
  BY <1>0 DEF JobEffect, Managers
<1>5. mgr'.job[HelperOf[a]] = mgr.job[HelperOf[a]]
  <2>1. CASE kind \in Saving
    BY <1>0, <2>1 DEF JobEffect, Saving
  <2>2. CASE kind \notin Saving
    <3>1. HelperOf[a] # n
      BY <2>2, AppsAway
    <3> QED  BY <1>0, <1>4, <3>1
  <2> QED  BY <2>1, <2>2
<1>6. a \in mgr'.watching => a \in mgr.watching
  BY <1>0 DEF WatchEffect
<1>7. Untouched(a)
  BY <1>0, <1>1, <1>2, <1>3, <1>4 DEF Untouched
<1>8. Cold(a) => Cold(a)'
  BY <1>0, <1>3, <1>4, <1>5, <1>6 DEF Cold
<1> QED  BY <1>7, <1>8

\* A job of n ends.
LEMMA CompleteKept ==
  ASSUME RegType, OwnCompanions, EnvPresent, NEW m \in Names, Complete(m),
         NEW n \in Apps, NEW R, NEW P, Kept(n, R, P)
  PROVE  Kept(n, R, P)'
<1>0. /\ n \in Names /\ HelperOf[n] \in Names /\ HelperOf[n] # n
      /\ mgr \in Managers /\ disk' = disk
      /\ mgr.job[m] # "none" /\ mgr'.job = [mgr.job EXCEPT ![m] = "none"]
      /\ mgr'.loaded = mgr.loaded /\ mgr'.watching = mgr.watching
  BY AppsAway, CompleteEffect DEF RegType
<1>1. PICK v : /\ mgr'.running = [mgr.running EXCEPT ![m] = v]
               /\ v = CASE mgr.job[m] = "stop"                            -> Off
                        [] mgr.job[m] = "start" /\ mgr.running[m] # Off   -> mgr.running[m]
                        [] OTHER                                          -> Launched(m)
  BY CompleteEffect
<1>2. CASE m # n
  <2>1. Untouched(n)
    BY <1>0, <1>1, <1>2 DEF Untouched, Managers
  <2>2. Cold(n) => Cold(n)'
    <3>1. Cold(n) => m # HelperOf[n]
      BY <1>0 DEF Cold
    <3> QED  BY <1>0, <1>1, <1>2, <3>1 DEF Cold, Managers
  <2> QED  BY <2>1, <2>2, KeptStays
<1>3. CASE m = n
  <2>0. mgr'.job[n] = "none" /\ mgr'.running[n] = v /\ ~Cold(n)
    BY <1>0, <1>1, <1>3 DEF Cold, Managers
  <2>1. CASE R = MayRun
    BY <2>1 DEF Kept
  <2>2. CASE R \subseteq Programs /\ Promise(n, R, P)
    <3>1. CASE "start" \in P \/ "restart" \in P
      BY <1>0, <2>0, <2>2, <3>1 DEF Kept, Promise, Current
    <3>2. CASE "start" \notin P /\ "restart" \notin P
      <4>1. disk.service[n].program \in R /\ Current(n) /\ Active(n, R)
        BY <2>2, <3>2 DEF Promise
      <4>2. Launched(n) \in R
        <5>1. Lookup(n) = disk.service[n]
          BY <4>1 DEF Current, Lookup
        <5>2. disk.service[n].env => n \in disk.env
          BY <1>0 DEF EnvPresent
        <5>3. disk.service[n] \notin Unusable
          BY <2>2, <4>1, RegistryAssumption DEF Unusable, NoUnit, Empty
        <5> QED  BY <4>1, <5>1, <5>2, <5>3 DEF Launched
      <4>3. v \in R
        BY <1>0, <1>1, <1>3, <4>1, <4>2 DEF Active
      <4> QED  BY <1>0, <2>0, <2>2, <3>2, <4>1, <4>3 DEF Kept, Promise, Current, Active
    <3> QED  BY <3>1, <3>2
  <2>3. CASE R = {Off} /\ (FilesChange \/ "stop" \in P \/ Down(n))
    <3>1. Down(n) => v = Off
      <4>1. Lookup(n) = NoUnit => Launched(n) = Off
        BY DEF Launched, Unusable
      <4> QED  BY <1>0, <1>1, <1>3, <4>1 DEF Down
    <3>2. Down(n) => Down(n)'
      BY <2>0, <3>1 DEF Down
    <3> QED  BY <2>3, <3>2 DEF Kept
  <2> QED  BY <2>1, <2>2, <2>3 DEF Kept
<1> QED  BY <1>2, <1>3

\* A companion restarts its app: only while watched files change.
LEMMA CompanionKept ==
  ASSUME RegType, OwnCompanions, FilesChange, NEW b \in Apps, CompanionRuns(b),
         NEW n \in Apps, NEW R, NEW P, Kept(n, R, P)
  PROVE  Kept(n, R, P)'
<1>0. /\ n \in Names /\ b \in Names /\ HelperOf[n] \in Names /\ HelperOf[b] \in Names
      /\ HelperOf[n] \notin Apps /\ HelperOf[b] \notin Apps
      /\ HelperOf[n] = HelperOf[b] => n = b
      /\ mgr \in Managers /\ disk' = disk /\ Off # Restarter
      /\ mgr.running[HelperOf[b]] = Restarter
      /\ mgr'.running = [mgr.running EXCEPT ![HelperOf[b]] = Off]
      /\ mgr'.watching = mgr.watching
  BY AppsAway, CompanionEffect DEF RegType
<1>1. \/ mgr'.loaded = mgr.loaded /\ mgr'.job = mgr.job
      \/ /\ mgr'.loaded = [mgr.loaded EXCEPT ![b] = Lookup(b)]
         /\ mgr'.job = [mgr.job EXCEPT ![b] = "restart"]
  BY CompanionEffect
<1>2. mgr'.running[n] = mgr.running[n]
  BY <1>0 DEF Managers
<1>3. CASE n # b
  <2>1. mgr'.loaded[n] = mgr.loaded[n] /\ mgr'.job[n] = mgr.job[n]
    BY <1>0, <1>1, <1>3 DEF Managers
  <2>2. Untouched(n)
    BY <1>0, <1>2, <2>1 DEF Untouched
  <2>3. mgr'.job[HelperOf[n]] = mgr.job[HelperOf[n]]
    BY <1>0, <1>1 DEF Managers
  <2>4. mgr'.running[HelperOf[n]] = mgr.running[HelperOf[n]]
    BY <1>0, <1>3 DEF Managers
  <2>5. Cold(n) => Cold(n)'
    BY <1>0, <1>2, <2>1, <2>3, <2>4 DEF Cold
  <2> QED  BY <2>2, <2>5, KeptStays
<1>4. CASE n = b
  <2>1. ~Cold(n)
    BY <1>0, <1>4 DEF Cold
  <2>2. CASE R = MayRun
    BY <2>2 DEF Kept
  <2>3. CASE R = {Off}
    BY <2>3 DEF Kept
  <2>4. CASE R \subseteq Programs /\ Promise(n, R, P)
    <3>1. Current(n) => Current(n)'
      BY <1>0, <1>1, <1>4 DEF Current, Lookup, Managers
    <3>2. Active(n, R) => Active(n, R)'
      <4>1. mgr'.job[n] = mgr.job[n] \/ mgr'.job[n] = "restart"
        BY <1>0, <1>1, <1>4 DEF Managers
      <4> QED  BY <1>2, <4>1 DEF Active
    <3>3. "start" \in P => R = Programs
      BY <2>1, <2>4 DEF Promise
    <3> QED  BY <1>0, <2>4, <3>1, <3>2, <3>3 DEF Kept, Promise
  <2> QED  BY <2>2, <2>3, <2>4 DEF Kept
<1> QED  BY <1>3, <1>4

LEMMA TriggerKept ==
  ASSUME RegType, OwnCompanions, NEW b \in Apps, Trigger(b),
         NEW n \in Apps, NEW R, NEW P, Kept(n, R, P)
  PROVE  Kept(n, R, P)'
<1>0. /\ n \in Names /\ HelperOf[n] \in Names /\ HelperOf[b] \in Names
      /\ HelperOf[b] # n /\ (HelperOf[n] = HelperOf[b] => n = b)
      /\ mgr \in Managers /\ disk' = disk
      /\ b \in mgr.watching /\ mgr'.running = mgr.running
  BY AppsAway, TriggerEffect DEF RegType
<1>1. \/ /\ mgr'.watching = mgr.watching \ {b}
         /\ mgr'.loaded = mgr.loaded /\ mgr'.job = mgr.job
      \/ /\ mgr'.watching = mgr.watching
         /\ mgr'.loaded = [mgr.loaded EXCEPT ![HelperOf[b]] = Lookup(HelperOf[b])]
         /\ mgr'.job = [mgr.job EXCEPT ![HelperOf[b]] = Merged(mgr.job[HelperOf[b]], "start")]
  BY TriggerEffect
<1>2. mgr'.loaded[n] = mgr.loaded[n] /\ mgr'.job[n] = mgr.job[n]
  BY <1>0, <1>1 DEF Managers
<1>3. Untouched(n)
  BY <1>0, <1>2 DEF Untouched
<1>4. Cold(n) => Cold(n)'
  <2> SUFFICES ASSUME Cold(n) PROVE Cold(n)'
    OBVIOUS
  <2>1. n # b
    BY <1>0 DEF Cold
  <2>2. mgr'.job[HelperOf[n]] = mgr.job[HelperOf[n]]
    BY <1>0, <1>1, <2>1 DEF Managers
  <2>3. n \notin mgr'.watching
    BY <1>1 DEF Cold
  <2> QED  BY <1>0, <1>2, <2>2, <2>3 DEF Cold
<1> QED  BY <1>3, <1>4, KeptStays

-----------------------------------------------------------------------------
(* The invariant. *)

\* Unless watched files change, nothing starts a companion, and none is linked.
CompanionsRest ==
  \A a \in Apps : /\ mgr.running[HelperOf[a]] = Off /\ mgr.job[HelperOf[a]] = "none"
                  /\ HelperOf[a] \notin mgr.bootService
                  /\ disk.service[HelperOf[a]] \in {NoUnit, Companion, Empty}

\* What is ahead keeps what it promises, and what was promised is kept; an app that
\* is being saved has its unit, and a saved one is linked.
RunInv ==
  /\ \A x \in Clients : \A s, P : Has(x, s, P) =>
       /\ s.do = "finish" => s.name \in Apps /\ Kept(s.name, s.outcome.running, P)
       /\ s.do = "enable" /\ s.name \in Apps => disk.service[s.name] # NoUnit
       /\ s.do = "saved" /\ s.name \in Apps => "enable" \in P \/ s.name \in mgr.bootService
  /\ \A a \in Apps : Kept(a, expected[a].running, {})
  /\ saved.apps \subseteq mgr.bootService
  /\ ~FilesChange => CompanionsRest

LEMMA RunInit == Init => RunInv
<1> SUFFICES ASSUME Init PROVE RunInv
  OBVIOUS
<1>1. \A x \in Clients : \A s, P : ~Has(x, s, P)
  <2>1. \A x \in Clients : todo[x] = << >>
    BY DEF Init
  <2>2. Len(<< >>) = 0
    BY EmptySeq
  <2> QED  BY <2>1, <2>2 DEF Has
<1>2. \A a \in Apps : Kept(a, expected[a].running, {})
  <2> TAKE a \in Apps
  <2>1. mgr.running[a] = Off /\ mgr.job[a] = "none"
    BY RegistryAssumption DEF Init
  <2>2. expected[a].running = {Off}
    BY DEF Init, Stopped, Outcome
  <2> QED  BY <2>1, <2>2 DEF Kept, Down
<1>3. CompanionsRest
  BY RegistryAssumption DEF Init, CompanionsRest
<1>4. saved.apps = {}
  BY DEF Init
<1> QED  BY <1>1, <1>2, <1>3, <1>4 DEF RunInv

\* Fewer steps are left, and nothing else is different.
LEMMA RunQuiet ==
  ASSUME RunInv, UNCHANGED << disk, mgr, expected, saved >>,
         \A x \in Clients : \A s, P : Has(x, s, P)' => Has(x, s, P)
  PROVE  RunInv'
<1>1. \A n, R, P : Kept(n, R, P) => Kept(n, R, P)'
  BY DEF Kept, Promise, Current, Active, Cold, Down, Lookup
<1>2. CompanionsRest => CompanionsRest'
  BY DEF CompanionsRest
<1>3. \A a \in Apps : Kept(a, expected[a].running, {})'
  <2> TAKE a \in Apps
  <2>1. PICK R, D : R = expected[a].running /\ D = {}
    OBVIOUS
  <2>2. Kept(a, R, D)'
    BY <1>1, <2>1 DEF RunInv
  <2> QED  BY <2>1, <2>2
<1>4. ASSUME NEW x \in Clients, NEW s, NEW P, Has(x, s, P)'
      PROVE  /\ s.do = "finish" => s.name \in Apps /\ Kept(s.name, s.outcome.running, P)'
             /\ s.do = "enable" /\ s.name \in Apps => disk.service[s.name] # NoUnit
             /\ s.do = "saved" /\ s.name \in Apps => "enable" \in P \/ s.name \in mgr.bootService
  BY <1>1, <1>4 DEF RunInv
<1>5. \A x \in Clients : \A s, P : Has(x, s, P)' =>
        /\ s.do = "finish" => s.name \in Apps /\ Kept(s.name, s.outcome.running, P)'
        /\ s.do = "enable" /\ s.name \in Apps => disk.service[s.name] # NoUnit
        /\ s.do = "saved" /\ s.name \in Apps => "enable" \in P \/ s.name \in mgr.bootService
  BY <1>4
<1> QED  BY <1>2, <1>3, <1>5 DEF RunInv

LEMMA RunManager ==
  ASSUME OwnCompanions, RegType, EnvPresent, RunInv,
         \/ \E n \in Names : Complete(n)
         \/ \E a \in Apps : CompanionRuns(a) \/ Trigger(a)
  PROVE  RunInv'
<1>1. ASSUME NEW n \in Apps, NEW R, NEW P, Kept(n, R, P)
      PROVE  Kept(n, R, P)'
  <2>1. CASE \E m \in Names : Complete(m)
    BY <1>1, <2>1, CompleteKept
  <2>2. CASE \E b \in Apps : CompanionRuns(b)
    <3>1. PICK b \in Apps : CompanionRuns(b)
      BY <2>2
    <3>2. FilesChange
      <4>1. mgr.running[HelperOf[b]] # Off
        BY <3>1, CompanionEffect, AppsAway
      <4> QED  BY <4>1 DEF RunInv, CompanionsRest
    <3> QED  BY <1>1, <3>1, <3>2, CompanionKept
  <2>3. CASE \E b \in Apps : Trigger(b)
    BY <1>1, <2>3, TriggerKept
  <2> QED  BY <2>1, <2>2, <2>3
<1>2. /\ UNCHANGED << disk, todo, used, expected, saved >>
      /\ mgr'.bootService = mgr.bootService
  BY CompleteEffect, CompanionEffect, TriggerEffect
<1>3. \A x \in Clients : \A s, P : Has(x, s, P)' => Has(x, s, P)
  BY <1>2 DEF Has
<1>4. ASSUME NEW x \in Clients, NEW s, NEW P, Has(x, s, P)'
      PROVE  /\ s.do = "finish" => s.name \in Apps /\ Kept(s.name, s.outcome.running, P)'
             /\ s.do = "enable" /\ s.name \in Apps => disk'.service[s.name] # NoUnit
             /\ s.do = "saved" /\ s.name \in Apps => "enable" \in P \/ s.name \in mgr'.bootService
  <2>1. Has(x, s, P)
    BY <1>3, <1>4
  <2>2. PICK m, R : m = s.name /\ R = s.outcome.running
    OBVIOUS
  <2>3. s.do = "finish" => m \in Apps /\ Kept(m, R, P)
    BY <2>1, <2>2 DEF RunInv
  <2>4. s.do = "finish" => m \in Apps /\ Kept(m, R, P)'
    BY <1>1, <2>3
  <2> QED  BY <1>2, <2>1, <2>2, <2>4 DEF RunInv
<1>5. \A a \in Apps : Kept(a, expected[a].running, {})'
  <2> TAKE a \in Apps
  <2>1. PICK R, D : R = expected[a].running /\ D = {}
    OBVIOUS
  <2>2. Kept(a, R, D)
    BY <2>1 DEF RunInv
  <2>3. Kept(a, R, D)'
    BY <1>1, <2>2
  <2> QED  BY <1>2, <2>1, <2>3
<1>6. ~FilesChange => CompanionsRest'
  <2> SUFFICES ASSUME ~FilesChange PROVE CompanionsRest'
    OBVIOUS
  <2>0. CompanionsRest /\ mgr \in Managers
    BY DEF RunInv, RegType
  <2>1. PICK n \in Names : Complete(n)
    <3>1. ASSUME NEW b \in Apps, CompanionRuns(b)
          PROVE  FALSE
      <4>1. mgr.running[HelperOf[b]] = Restarter
        BY <3>1, CompanionEffect
      <4> QED  BY <2>0, <4>1, AppsAway DEF CompanionsRest
    <3>2. ASSUME NEW b \in Apps, Trigger(b)
          PROVE  FALSE
      BY <3>2, TriggerEffect
    <3> QED  BY <3>1, <3>2
  <2>2. \A a \in Apps : HelperOf[a] # n
    <3>1. mgr.job[n] # "none"
      BY <2>1 DEF Complete
    <3> QED  BY <2>0, <3>1 DEF CompanionsRest
  <2>3. PICK v : mgr'.running = [mgr.running EXCEPT ![n] = v]
    <3>1. mgr'.running = [mgr.running EXCEPT ![n] =
              CASE mgr.job[n] = "stop"                            -> Off
                [] mgr.job[n] = "start" /\ mgr.running[n] # Off   -> mgr.running[n]
                [] OTHER                                          -> Launched(n)]
      BY <2>1, CompleteEffect
    <3> QED  BY ONLY <3>1
  <2>4. mgr'.job = [mgr.job EXCEPT ![n] = "none"]
    BY <2>1, CompleteEffect
  <2>5. \A a \in Apps : /\ mgr'.running[HelperOf[a]] = mgr.running[HelperOf[a]]
                        /\ mgr'.job[HelperOf[a]] = mgr.job[HelperOf[a]]
    BY <2>0, <2>2, <2>3, <2>4, AppsAway DEF Managers
  <2> QED  BY <1>2, <2>0, <2>5 DEF CompanionsRest
<1>7. \A x \in Clients : \A s, P : Has(x, s, P)' =>
        /\ s.do = "finish" => s.name \in Apps /\ Kept(s.name, s.outcome.running, P)'
        /\ s.do = "enable" /\ s.name \in Apps => disk'.service[s.name] # NoUnit
        /\ s.do = "saved" /\ s.name \in Apps => "enable" \in P \/ s.name \in mgr'.bootService
  BY <1>4
<1> QED  BY <1>2, <1>5, <1>6, <1>7 DEF RunInv

LEMMA RunFewer ==
  ASSUME OwnCompanions, RegType, AppInv, RunInv, Reboot \/ \E c \in Clients : Killed(c)
  PROVE  RunInv'
<1>1. CASE \E c \in Clients : Killed(c)
  <2>1. UNCHANGED << disk, mgr, expected, saved >>
    BY <1>1 DEF Killed
  <2>2. \A x \in Clients : todo'[x] = << >> \/ todo'[x] = todo[x]
    BY <1>1 DEF Killed, RegType, TodoType
  <2>3. \A x \in Clients : \A s, P : Has(x, s, P)' => Has(x, s, P)
    BY <2>2, FewerHas
  <2> QED  BY <2>1, <2>3, RunQuiet
\* A saved app is linked: it is started again if its unit says what.
<1>2. CASE Reboot
  <2>0. mgr \in Managers /\ disk \in Disks
    BY DEF RegType
  <2>1. \A x \in Clients : \A s, P : ~Has(x, s, P)'
    <3>1. \A x \in Clients : todo'[x] = << >>
      BY <1>2, RebootEffect
    <3>2. Len(<< >>) = 0
      BY EmptySeq
    <3> QED  BY <3>1, <3>2 DEF Has
  <2>2. /\ mgr'.loaded = disk.service
        /\ mgr'.running = [n \in Names |-> Off]
        /\ mgr'.job = [n \in Names |-> IF n \in mgr.bootService /\ disk.service[n] \notin Unusable
                                       THEN "start" ELSE "none"]
        /\ mgr'.bootService = mgr.bootService
        /\ disk' = disk /\ saved' = saved
    BY <1>2, RebootEffect
  <2>3. \A a \in Apps : Kept(a, expected[a].running, {})'
    <3> TAKE a \in Apps
    <3>1. CASE a \notin saved.apps \ torn.service
      <4>1. expected'[a] = Anything
        BY <1>2, <3>1, RebootEffect
      <4>2. expected'[a].running = MayRun
        BY <4>1, AnyRuns
      <4> QED  BY <4>2 DEF Kept
    <3>2. CASE a \in saved.apps \ torn.service
      <4>0. PICK R, W : R = {disk.service[a].program}
                        /\ W = IF a \in saved.watches THEN {TRUE} ELSE BOOLEAN
        OBVIOUS
      <4>1. R = {disk.service[a].program} /\ expected'[a] = Outcome(R, W)
        BY <1>2, <3>2, <4>0, RebootEffect
      <4>2. expected'[a].running = R
        BY <4>1 DEF Outcome
      <4>3. a \in Names /\ a \in mgr.bootService /\ AppUnit(disk.service[a])
            /\ disk.service[a] # Empty
        BY <3>2, AppsAway DEF RunInv, AppInv, EmptyIsTorn
      <4>4. mgr'.running[a] = Off
        BY <2>2, <4>3
      <4>5. CASE disk.service[a] = NoUnit
        <5>1. R = {Off} /\ mgr'.job[a] = "none"
          BY <2>2, <4>1, <4>3, <4>5 DEF NoUnit, Unusable
        <5> QED  BY <4>2, <4>4, <5>1 DEF Kept, Down
      <4>6. CASE disk.service[a] # NoUnit
        <5>1. R \subseteq Programs /\ disk'.service[a].program \in R
          BY <2>2, <4>1, <4>3, <4>6 DEF AppUnit, Unusable
        <5>2. mgr'.job[a] = "start"
          BY <2>2, <4>3, <4>6 DEF Unusable
        <5>3. Active(a, R)'
          BY <4>4, <5>2 DEF Active
        <5>4. Current(a)'
          BY <2>2 DEF Current
        <5>5. Promise(a, R, {})'
          BY <5>1, <5>3, <5>4 DEF Promise
        <5> QED  BY <4>2, <5>1, <5>5 DEF Kept
      <4> QED  BY <4>5, <4>6
    <3> QED  BY <3>1, <3>2
  <2>4. ~FilesChange => CompanionsRest'
    BY <2>2, AppsAway DEF RunInv, CompanionsRest
  <2> QED  BY <2>1, <2>2, <2>3, <2>4 DEF RunInv
<1> QED  BY <1>1, <1>2

LEMMA RunBegin ==
  ASSUME OwnCompanions, RegType, AppInv, RunInv,
         NEW c \in Clients, NEW command \in Commands, Begin(c, command)
  PROVE  RunInv'
<1>1. PICK q :
        /\ todo' = [todo EXCEPT ![c] = q]
        /\ Sound(q) \/ SoundSave(q)
        /\ UNCHANGED << disk, mgr >>
        /\ \A a \in Apps : expected'[a] = Anything \/ expected'[a] = expected[a]
        /\ saved'.apps \subseteq saved.apps
  BY BeginNew
<1>2. ASSUME NEW x \in Clients, NEW s, NEW P, Has(x, s, P)'
      PROVE  /\ s.do = "finish" => s.name \in Apps /\ Kept(s.name, s.outcome.running, P)
             /\ s.do = "enable" /\ s.name \in Apps => disk.service[s.name] # NoUnit
             /\ s.do = "saved" /\ s.name \in Apps => "enable" \in P \/ s.name \in mgr.bootService
  <2>1. Given(c, q) /\ TodoType
    BY <1>1 DEF Given, RegType
  <2>2. Has(x, s, P) \/ \E i \in 1 .. Len(q) : q[i] = s /\ Before(q, i) = P
    BY <1>2, <2>1, BeginHas
  <2>3. CASE Has(x, s, P)
    BY <2>3 DEF RunInv
  <2>4. CASE \E i \in 1 .. Len(q) : q[i] = s /\ Before(q, i) = P
    <3>1. PICK i \in 1 .. Len(q) : q[i] = s /\ Before(q, i) = P
      BY <2>4
    <3>2. CASE Sound(q)
      BY <3>1, <3>2 DEF Sound, Vowed, Saving
    <3>3. CASE SoundSave(q)
      BY <3>1, <3>3 DEF SoundSave, Saving
    <3> QED  BY <1>1, <3>2, <3>3
  <2> QED  BY <2>2, <2>3, <2>4
<1>3. \A a \in Apps : Kept(a, expected'[a].running, {})
  <2> TAKE a \in Apps
  <2>1. CASE expected'[a] = Anything
    BY <2>1, AnyRuns
  <2>2. CASE expected'[a] = expected[a]
    BY <2>2 DEF RunInv
  <2> QED  BY <1>1, <2>1, <2>2
<1>4. mgr' = mgr /\ disk' = disk /\ saved'.apps \subseteq saved.apps
  BY <1>1
<1>5. \A n, R, P : Kept(n, R, P) => Kept(n, R, P)'
  BY <1>4 DEF Kept, Promise, Current, Active, Cold, Down, Lookup
<1>6. \A a \in Apps : Kept(a, expected[a].running, {})'
  <2> TAKE a \in Apps
  <2>1. PICK R, D : R = expected'[a].running /\ D = {}
    OBVIOUS
  <2>2. Kept(a, R, D)'
    BY <1>3, <1>5, <2>1
  <2> QED  BY <2>1, <2>2
<1>7. \A x \in Clients : \A s, P : Has(x, s, P)' =>
        /\ s.do = "finish" => s.name \in Apps /\ Kept(s.name, s.outcome.running, P)'
        /\ s.do = "enable" /\ s.name \in Apps => disk'.service[s.name] # NoUnit
        /\ s.do = "saved" /\ s.name \in Apps => "enable" \in P \/ s.name \in mgr'.bootService
  BY <1>2, <1>4, <1>5
<1>8. CompanionsRest => CompanionsRest'
  BY <1>4 DEF CompanionsRest
<1> QED  BY <1>4, <1>6, <1>7, <1>8 DEF RunInv

\* The companions, across the step of a client.
LEMMA RestTaken ==
  ASSUME OwnCompanions, RegType, NEW c \in Clients, NEW kind \in Kinds, NEW n \in Names,
         Effect(c, kind, n), kind \notin Saving => n \in Apps, CompanionsRest
  PROVE  CompanionsRest'
<1> SUFFICES ASSUME NEW a \in Apps
             PROVE  /\ mgr'.running[HelperOf[a]] = Off /\ mgr'.job[HelperOf[a]] = "none"
                    /\ HelperOf[a] \notin mgr'.bootService
                    /\ disk'.service[HelperOf[a]] \in {NoUnit, Companion, Empty}
  BY DEF CompanionsRest
<1>0. PICK h : h = HelperOf[a]
  OBVIOUS
<1>1. /\ FileEffect(c, kind, n) /\ JobEffect(kind, n) /\ WatchEffect(kind, n)
      /\ h \in Names /\ h \notin Apps /\ mgr \in Managers /\ disk \in Disks
      /\ mgr.running[h] = Off /\ mgr.job[h] = "none" /\ h \notin mgr.bootService
      /\ disk.service[h] \in {NoUnit, Companion, Empty}
  BY <1>0, AppsAway DEF Effect, RegType, CompanionsRest
<1>2. mgr'.running[h] = Off
  BY <1>1 DEF JobEffect
<1>3. mgr'.job[h] = "none"
  <2>1. CASE kind \in Saving
    BY <1>1, <2>1 DEF JobEffect, Saving
  <2>2. CASE kind \notin Saving
    BY <1>1, <2>2 DEF JobEffect, Managers
  <2> QED  BY <2>1, <2>2
<1>4. h \notin mgr'.bootService
  <2>1. CASE kind = "enable"
    <3>1. n = h => disk.service[n].program \notin Programs
      BY <1>1, RegistryAssumption DEF NoUnit, Companion, Empty
    <3> QED  BY <1>1, <2>1, <3>1 DEF WatchEffect
  <2>2. CASE kind # "enable"
    BY <1>1, <2>2 DEF WatchEffect
  <2> QED  BY <2>1, <2>2
<1>5. disk'.service[h] \in {NoUnit, Companion, Empty}
  <2>1. CASE kind \notin Changes
    BY <1>1, <2>1 DEF FileEffect
  <2>2. CASE kind \in Changes
    <3>1. n \in Apps /\ n # h /\ HelperOf[n] \in Names
      BY <1>1, <2>2, AppsAway DEF Changes, Saving
    <3>2. CASE kind \in {"openService", "service", "unlinkService"} \/ Lost
      <4>1. disk'.service[h] = disk.service[h]
        BY <1>1, <3>1, <3>2 DEF FileEffect, Disks, Lost
      <4> QED  BY <1>1, <4>1
    <3>3. CASE kind \in {"openHelper", "helper", "unlinkHelper"} /\ ~Lost
      <4>1. PICK v \in {NoUnit, Companion, Empty} :
              disk'.service = [disk.service EXCEPT ![HelperOf[n]] = v]
        BY <1>1, <3>1, <3>3 DEF FileEffect
      <4>2. disk'.service[h] = disk.service[h] \/ disk'.service[h] = v
        BY <1>1, <3>1, <4>1 DEF Disks
      <4> QED  BY <1>1, <4>2
    <3> QED  BY <2>2, <3>2, <3>3 DEF Changes
  <2> QED  BY <2>1, <2>2
<1> QED  BY <1>0, <1>2, <1>3, <1>4, <1>5

LEMMA RunTaken ==
  ASSUME OwnCompanions, RegType, Apart, AppInv, ListInv, RunInv,
         NEW c \in Clients, NEW n \in Names, NEW kind \in Kinds,
         Taken(c, kind, n), Effect(c, kind, n)
  PROVE  RunInv'
<1>0. /\ TodoType /\ Separate /\ Lists
      /\ WatchEffect(kind, n) /\ FileEffect(c, kind, n) /\ PromiseEffect(c, kind, n)
      /\ JobEffect(kind, n)
  BY DEF RegType, Apart, ListInv, Effect
<1>1. PICK head : head = Head(todo[c])
  OBVIOUS
<1>2. Has(c, head, {}) /\ head.do = kind /\ head.name = n
  BY <1>0, <1>1, HeadHas DEF Taken
<1>3. /\ kind = "finish" => Kept(n, head.outcome.running, {})
      /\ kind = "enable" /\ n \in Apps => disk.service[n] # NoUnit
      /\ kind = "saved" /\ n \in Apps => n \in mgr.bootService
      /\ kind = "service" => disk.service[n] = Empty
      /\ kind \notin Saving => n \in Apps /\ expected[n] = Anything
      /\ kind \in Deletes => n \notin saved.apps
  BY <1>2 DEF RunInv, ListInv, AppInv
<1>4. \A a \in Apps : a # n => Untouched(a) /\ (Cold(a) => Cold(a)')
  BY <1>3, OtherApps
<1>5. ASSUME kind \in {"finish", "enable", "saved"}
      PROVE  Untouched(n) /\ (Cold(n) => Cold(n)')
  <2>1. /\ disk'.service = disk.service /\ mgr'.loaded = mgr.loaded /\ mgr'.job = mgr.job
        /\ mgr'.running = mgr.running /\ mgr'.watching = mgr.watching
    BY <1>0, <1>5 DEF FileEffect, JobEffect, WatchEffect, Changes
  <2> QED  BY <2>1 DEF Untouched, Cold
<1>6. saved'.apps \subseteq mgr'.bootService
  <2> SUFFICES ASSUME NEW m, m \in saved'.apps
               PROVE  m \in mgr'.bootService
    OBVIOUS
  <2>1. m \in saved.apps \/ (kind = "saved" /\ m = n /\ n \in Apps)
    BY <1>0 DEF PromiseEffect
  <2>2. m \in mgr.bootService
    BY <1>3, <2>1 DEF RunInv
  <2>3. kind = "disable" => m # n
    BY <1>3, <2>1 DEF Deletes
  <2> QED  BY <1>0, <2>2, <2>3 DEF WatchEffect
<1>7. ASSUME NEW x \in Clients, NEW s, NEW P, Has(x, s, P)'
      PROVE  /\ s.do = "finish" => s.name \in Apps /\ Kept(s.name, s.outcome.running, P)'
             /\ s.do = "enable" /\ s.name \in Apps => disk'.service[s.name] # NoUnit
             /\ s.do = "saved" /\ s.name \in Apps =>
                  "enable" \in P \/ s.name \in mgr'.bootService
  <2>1. PICK O : /\ Has(x, s, O) /\ P \subseteq O
                 /\ s.name # n => O = P
                 /\ s.name = n => /\ x = c /\ kind \in O /\ O \subseteq P \cup {kind}
                                  /\ << kind, s.do >> \notin Backwards
                                  /\ \A kd \in P : << kind, kd >> \notin Backwards
                                  /\ s.do = "finish" => Fits(Head(todo[c]), s.outcome)
    BY <1>0, <1>7, TakenHas
  <2>2. /\ s.do = "finish" => s.name \in Apps /\ Kept(s.name, s.outcome.running, O)
        /\ s.do = "enable" /\ s.name \in Apps => disk.service[s.name] # NoUnit
        /\ s.do = "saved" /\ s.name \in Apps => "enable" \in O \/ s.name \in mgr.bootService
    BY <2>1 DEF RunInv
  <2>3. PICK m, R : m = s.name /\ R = s.outcome.running
    OBVIOUS
  <2>4. CASE m # n
    <3>1. m \in Apps => Untouched(m) /\ (Cold(m) => Cold(m)')
      BY <1>4, <2>4
    <3>2. s.do = "finish" => m \in Apps /\ Kept(m, R, P)'
      <4> SUFFICES ASSUME s.do = "finish" PROVE m \in Apps /\ Kept(m, R, P)'
        OBVIOUS
      <4>1. m \in Apps /\ Kept(m, R, P)
        BY <2>1, <2>2, <2>3, <2>4
      <4> QED  BY <3>1, <4>1, KeptStays
    <3>3. s.do = "enable" /\ m \in Apps => disk'.service[m] # NoUnit
      BY <2>2, <2>3, <3>1 DEF Untouched
    <3>4. m \in mgr.bootService => m \in mgr'.bootService
      BY <1>0, <2>4 DEF WatchEffect
    <3> QED  BY <2>1, <2>2, <2>3, <2>4, <3>2, <3>3, <3>4
  <2>5. CASE m = n
    <3>1. ASSUME s.do = "finish"
          PROVE  m \in Apps /\ Kept(m, R, P)'
      <4>1. n \in Apps /\ Kept(n, R, O)
        BY <2>2, <2>3, <2>5, <3>1
      <4>2. /\ O \subseteq P \cup {kind} /\ kind \in O
            /\ \A kd \in P : << kind, kd >> \notin Backwards
            /\ Fits(Head(todo[c]), s.outcome) /\ Head(todo[c]).do = kind
        BY <1>1, <1>2, <2>1, <2>3, <2>5, <3>1
      <4>3. PICK outcome : outcome = s.outcome
        OBVIOUS
      <4>4. Kept(n, R, P)'
        BY <1>3, <2>1, <2>3, <4>1, <4>2, <4>3, KeptMoves
      <4> QED  BY <2>5, <4>1, <4>4
    <3>2. ASSUME s.do \in Saving
          PROVE  kind \in Saving
      BY <2>1, <2>3, <2>5, <3>2 DEF Backwards, Saving
    <3>3. ASSUME s.do = "enable", m \in Apps
          PROVE  disk'.service[m] # NoUnit
      <4>1. kind \in {"finish", "enable", "saved"}
        BY <3>2, <3>3 DEF Saving
      <4> QED  BY <1>5, <2>2, <2>3, <2>5, <3>3, <4>1 DEF Untouched
    <3>4. ASSUME s.do = "saved", m \in Apps
          PROVE  "enable" \in P \/ m \in mgr'.bootService
      <4>1. kind \in {"enable", "saved"}
        BY <3>2, <3>4 DEF Saving
      <4>2. CASE kind = "enable"
        <5>1. disk.service[n].program \in Programs
          BY <1>0, <1>3, <2>5, <3>4, <4>2 DEF AppInv, AppUnit, WatchEffect, Unusable
        <5> QED  BY <1>0, <2>5, <4>2, <5>1 DEF WatchEffect
      <4>3. CASE kind = "saved"
        <5>1. mgr'.bootService = mgr.bootService
          BY <1>0, <4>3 DEF WatchEffect
        <5> QED  BY <2>1, <2>2, <2>3, <2>5, <3>4, <4>3, <5>1
      <4> QED  BY <4>1, <4>2, <4>3
    <3> QED  BY <2>3, <3>1, <3>3, <3>4
  <2> QED  BY <2>4, <2>5
<1>8. \A a \in Apps : Kept(a, expected[a].running, {})'
  <2> TAKE a \in Apps
  <2>0. PICK D, R : D = {} /\ R = expected[a].running
    OBVIOUS
  <2>1. Kept(a, R, D)
    BY <2>0 DEF RunInv
  <2>2. CASE a # n
    <3>1. expected'[a] = expected[a]
      BY <1>0, <2>2 DEF PromiseEffect
    <3>2. Kept(a, R, D)'
      BY <1>4, <2>0, <2>1, <2>2, KeptStays
    <3> QED  BY <2>0, <3>1, <3>2
  <2>3. CASE a = n /\ kind \in Saving
    <3>1. expected'[a] = expected[a]
      BY <1>0, <2>3 DEF PromiseEffect, Saving
    <3>2. kind \in {"finish", "enable", "saved"}
      BY <2>3 DEF Saving
    <3>3. Kept(a, R, D)'
      BY <1>5, <2>0, <2>1, <2>3, <3>2, KeptStays
    <3> QED  BY <2>0, <3>1, <3>3
  <2>4. CASE a = n /\ kind = "finish"
    <3>1. expected'[a] = head.outcome
      BY <1>0, <1>1, <2>4 DEF PromiseEffect
    <3>2. PICK V : V = head.outcome.running
      OBVIOUS
    <3>3. Kept(a, V, D)
      BY <1>3, <2>0, <2>4, <3>2
    <3>4. Kept(a, V, D)'
      BY <1>5, <2>0, <2>4, <3>3, KeptStays
    <3> QED  BY <2>0, <3>1, <3>2, <3>4
  <2>5. CASE a = n /\ kind \notin Saving /\ kind # "finish"
    <3>1. expected'[a] = Anything
      BY <1>0, <1>3, <2>5 DEF PromiseEffect
    <3>2. expected'[a].running = MayRun
      BY <3>1, AnyRuns
    <3> QED  BY <3>2 DEF Kept
  <2> QED  BY <2>2, <2>3, <2>4, <2>5
<1>9. CompanionsRest => CompanionsRest'
  BY <1>3, RestTaken
<1>10. \A x \in Clients : \A s, P : Has(x, s, P)' =>
        /\ s.do = "finish" => s.name \in Apps /\ Kept(s.name, s.outcome.running, P)'
        /\ s.do = "enable" /\ s.name \in Apps => disk'.service[s.name] # NoUnit
        /\ s.do = "saved" /\ s.name \in Apps => "enable" \in P \/ s.name \in mgr'.bootService
  BY <1>7
<1> QED  BY <1>6, <1>8, <1>9, <1>10 DEF RunInv

LEMMA RunGivenUp ==
  ASSUME RegType, Apart, RunInv, NEW c \in Clients, NEW n \in Names, GivenUp(c, n)
  PROVE  RunInv'
<1>0. TodoType /\ Separate
  BY DEF RegType, Apart
<1>1. UNCHANGED << disk, mgr, expected, saved >>
  BY <1>0, GivenUpMoves
<1>2. ASSUME NEW x \in Clients, NEW s, NEW P, Has(x, s, P)'
      PROVE  /\ s.do = "finish" => s.name \in Apps /\ Kept(s.name, s.outcome.running, P)
             /\ s.do = "enable" /\ s.name \in Apps => disk.service[s.name] # NoUnit
             /\ s.do = "saved" /\ s.name \in Apps => "enable" \in P \/ s.name \in mgr.bootService
  <2>1. PICK O : /\ Has(x, s, O) /\ P \subseteq O
                 /\ s.name # n => O = P
                 /\ s.name = n => s.do \notin {"finish", "saved"}
    BY <1>0, <1>2, GivenUpHas
  <2> QED  BY <2>1 DEF RunInv
<1>3. \A x \in Clients : \A s, P : Has(x, s, P)' =>
        /\ s.do = "finish" => s.name \in Apps /\ Kept(s.name, s.outcome.running, P)
        /\ s.do = "enable" /\ s.name \in Apps => disk.service[s.name] # NoUnit
        /\ s.do = "saved" /\ s.name \in Apps => "enable" \in P \/ s.name \in mgr.bootService
  BY <1>2
<1> QED  BY <1>1, <1>3 DEF RunInv, Kept, Promise, Current, Active, Cold, Down, Lookup, CompanionsRest

LEMMA RunNext ==
  ASSUME OwnCompanions, RegType, Apart, EnvInv, AppInv, ListInv, RunInv, [Next]_vars
  PROVE  RunInv'
<1>1. CASE \E c \in Clients, n \in Names : FileStep(c, n) \/ CallStep(c, n)
  <2>1. PICK c \in Clients, n \in Names : FileStep(c, n) \/ CallStep(c, n)
    BY <1>1
  <2>2. \/ GivenUp(c, n)
        \/ \E kind \in Kinds : Taken(c, kind, n) /\ Effect(c, kind, n)
    BY <2>1, ClientEffect DEF Taken
  <2> QED  BY <2>2, RunTaken, RunGivenUp
<1>2. CASE \E c \in Clients, command \in Commands : Begin(c, command)
  BY <1>2, RunBegin
<1>3. CASE Reboot \/ \E c \in Clients : Killed(c)
  BY <1>3, RunFewer
<1>4. CASE \/ \E n \in Names : Complete(n)
           \/ \E a \in Apps : CompanionRuns(a) \/ Trigger(a)
  BY <1>4, RunManager DEF EnvInv
<1>5. CASE UNCHANGED vars
  <2>1. UNCHANGED << disk, mgr, todo, expected, saved >>
    BY <1>5 DEF vars
  <2>2. \A x \in Clients : \A s, P : Has(x, s, P)' => Has(x, s, P)
    BY <2>1 DEF Has
  <2> QED  BY <2>1, <2>2, RunQuiet
<1> QED  BY <1>1, <1>2, <1>3, <1>4, <1>5 DEF Next

\* Once all is quiet, what is promised is.
LEMMA RunsAsKept ==
  ASSUME RunInv, AppInv, Quiet, NEW a \in Apps
  PROVE  /\ ~FilesChange => mgr.running[a] \in expected[a].running
         /\ expected[a].running \subseteq Programs => mgr.running[a] \in expected[a].running
<1>1. PICK R : R = expected[a].running
  OBVIOUS
<1>2. Kept(a, R, {}) /\ mgr.running[a] \in MayRun
  BY <1>1 DEF RunInv, AppInv
<1>3. mgr.job[a] = "none"
  BY RegistryAssumption DEF Quiet
<1>4. CASE R = MayRun
  BY <1>1, <1>2, <1>4, Distinct
<1>5. CASE R \subseteq Programs /\ Promise(a, R, {})
  <2>1. mgr.running[a] \in R
    BY <1>3, <1>5 DEF Promise, Active
  <2> QED  BY <1>1, <2>1
<1>6. CASE R = {Off} /\ (FilesChange \/ Down(a))
  <2>1. Down(a) => mgr.running[a] = Off
    BY <1>3 DEF Down
  <2> QED  BY <1>1, <1>6, <2>1, Distinct
<1> QED  BY <1>2, <1>4, <1>5, <1>6 DEF Kept

LEMMA AlwaysRuns == OwnCompanions /\ Spec => [](RunInv /\ AppInv)
<1>1. SUFFICES ASSUME OwnCompanions PROVE Spec => [](RunInv /\ AppInv)
  OBVIOUS
<1>2. Init => EnvInv
  BY EnvInit
<1>3. RegType /\ Apart /\ EnvInv /\ [Next]_vars => EnvInv'
  BY EnvNext
<1>4. Init => AppInv /\ ListInv
  BY BaseInit
<1>5. RegType /\ Apart /\ AppInv /\ ListInv /\ [Next]_vars => AppInv' /\ ListInv'
  BY <1>1, BaseNext
<1>6. Init => RunInv
  BY RunInit
<1>7. RegType /\ Apart /\ EnvInv /\ AppInv /\ ListInv /\ RunInv /\ [Next]_vars => RunInv'
  BY <1>1, RunNext
<1> QED  BY <1>2, <1>3, <1>4, <1>5, <1>6, <1>7, AlwaysTyped, AlwaysApart, PTL DEF Spec

\* A command that returned has its way once the jobs it queued are done, whatever
\* else failed and wherever fdash was killed: a cold app runs what was written for it
\* (start_single_app), a stopped or deleted one does not run (stop_one, delete_one), a
\* restarted one runs what its file says (restart_one) and a saved one is running again
\* after a reboot (cmd_save).  Watched files do not change.
THEOREM CommandsObeyed == OwnCompanions /\ ~FilesChange /\ Spec => []Obeyed
<1>1. SUFFICES ASSUME OwnCompanions, ~FilesChange PROVE Spec => []Obeyed
  OBVIOUS
<1>2. RunInv /\ AppInv => Obeyed
  BY <1>1, RunsAsKept DEF Obeyed
<1>3. Spec => [](RunInv /\ AppInv)
  BY <1>1, AlwaysRuns
<1> QED  BY <1>2, <1>3, PTL

\* The same for the apps that should be running while watched files change: the
\* companion restarts its app, it never leaves it on an old program or off.
THEOREM AppsKeptRunning == OwnCompanions /\ Spec => []KeptRunning
<1>1. SUFFICES ASSUME OwnCompanions PROVE Spec => []KeptRunning
  OBVIOUS
<1>2. RunInv /\ AppInv => KeptRunning
  BY RunsAsKept DEF KeptRunning
<1>3. Spec => [](RunInv /\ AppInv)
  BY <1>1, AlwaysRuns
<1> QED  BY <1>2, <1>3, PTL
=============================================================================
