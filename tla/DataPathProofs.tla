--------------------------- MODULE DataPathProofs ---------------------------
(***************************************************************************)
(* Theorems about DataPath, for every length of the text, every pipe,      *)
(* chunk and number of retries and every set of products: a servant never  *)
(* compiles a part of a source, and a client that has been answered has    *)
(* written what the compiler makes of all of it.                           *)
(*                                                                         *)
(* The first half is about the encodings.  What a recursive function       *)
(* computes is proved through the least index at which it would be wrong.  *)
(***************************************************************************)
EXTENDS DataPath, SequenceTheorems, WellFoundedInduction, TLAPS

-----------------------------------------------------------------------------
(***************************************************************************)
(* Induction and recursion.                                                *)
(***************************************************************************)

\* A set of natural numbers that is not empty has a least element.
LEMMA LeastOf ==
    ASSUME NEW T, T \subseteq Nat, T # {}
    PROVE  \E x \in T : \A y \in T : x <= y
<1>1. PICK x \in T : \A y \in T : ~(<<y, x>> \in OpToRel(<, Nat))
  BY NatLessThanWellFounded, WFMin
<1>2. \A y \in T : ~(y < x)
  BY <1>1 DEF OpToRel
<1>3. QED
  BY <1>2

\* A set that holds 0 and, with each of 0 .. n - 1, the next number, holds all
\* of 0 .. n.
LEMMA UpTo ==
    ASSUME NEW n \in Nat, NEW S, 0 \in S,
           \A i \in 1 .. n : i - 1 \in S => i \in S
    PROVE  \A i \in 0 .. n : i \in S
<1> DEFINE T == (0 .. n) \ S
<1>1. ASSUME T # {}
      PROVE  FALSE
  <2>1. T \subseteq Nat
    OBVIOUS
  <2>2. PICK m \in T : \A y \in T : m <= y
    BY <1>1, <2>1, LeastOf
  <2>3. m \in 1 .. n /\ m - 1 \in 0 .. n /\ ~(m <= m - 1)
    OBVIOUS
  <2>4. m - 1 \in S
    BY <2>2, <2>3
  <2>5. QED
    BY <2>3, <2>4
<1>2. QED
  BY <1>1

\* f starts with base and goes on by the steps.
Follows(f, n, V, base, step) ==
    /\ f \in [0 .. n -> V]
    /\ f[0] = base
    /\ \A i \in 1 .. n : f[i] = step[<<i, f[i - 1]>>]

\* A value and a step for each of 1 .. n determine a function on 0 .. n.
LEMMA FoldExists ==
    ASSUME NEW n \in Nat, NEW V, NEW base \in V,
           NEW step \in [(1 .. n) \X V -> V]
    PROVE  \E f : Follows(f, n, V, base, step)
<1> DEFINE Good(m) == \E f \in [0 .. m -> V] :
                        /\ f[0] = base
                        /\ \A i \in 1 .. m : f[i] = step[<<i, f[i - 1]>>]
<1>1. Good(0)
  <2>1. [i \in 0 .. 0 |-> base] \in [0 .. 0 -> V]
    OBVIOUS
  <2>2. [i \in 0 .. 0 |-> base][0] = base
    OBVIOUS
  <2>3. PICK f \in [0 .. 0 -> V] : f[0] = base
    BY <2>1, <2>2
  <2>4. QED
    BY <2>3
<1>2. ASSUME NEW m \in 1 .. n, Good(m - 1)
      PROVE  Good(m)
  <2>1. PICK f \in [0 .. m - 1 -> V] :
          /\ f[0] = base
          /\ \A i \in 1 .. m - 1 : f[i] = step[<<i, f[i - 1]>>]
    BY <1>2
  <2> DEFINE g == [i \in 0 .. m |-> IF i = m THEN step[<<m, f[m - 1]>>] ELSE f[i]]
  <2>2. f[m - 1] \in V
    OBVIOUS
  <2>3. step[<<m, f[m - 1]>>] \in V
    BY <2>2
  <2>4. g \in [0 .. m -> V]
    BY <2>3
  <2>5. g[0] = base
    BY <2>1
  <2>6. ASSUME NEW i \in 1 .. m
        PROVE  g[i] = step[<<i, g[i - 1]>>]
    <3>1. CASE i = m
      <4>1. m \in 0 .. m /\ m - 1 \in 0 .. m /\ m - 1 # m
        OBVIOUS
      <4>2. g[m] = step[<<m, f[m - 1]>>] /\ g[m - 1] = f[m - 1]
        BY <4>1
      <4>3. QED
        BY <4>2, <3>1
    <3>2. CASE i # m
      <4>1. i \in 1 .. m - 1 /\ i \in 0 .. m /\ i - 1 \in 0 .. m /\ i - 1 # m
        BY <3>2
      <4>2. g[i] = f[i] /\ g[i - 1] = f[i - 1]
        BY <4>1, <3>2
      <4>3. QED
        BY <4>1, <4>2, <2>1
    <3>3. QED
      BY <3>1, <3>2
  <2>7. QED
    BY <2>4, <2>5, <2>6
<1> HIDE DEF Good
<1> DEFINE S == {m \in 0 .. n : Good(m)}
<1>3. \A i \in 0 .. n : i \in S
  <2>1. 0 \in S
    BY <1>1
  <2>2. \A i \in 1 .. n : i - 1 \in S => i \in S
    BY <1>2
  <2> HIDE DEF S
  <2>3. QED
    BY <2>1, <2>2, UpTo
<1>4. Good(n)
  BY <1>3
<1>5. QED
  BY <1>4 DEF Good, Follows

-----------------------------------------------------------------------------
(***************************************************************************)
(* Totals, offsets and cutting.                                            *)
(***************************************************************************)

\* Totals is the function its recursion describes.
LEMMA TotalsDef ==
    ASSUME NEW sizes \in Seq(Nat)
    PROVE  /\ Totals(sizes) \in [0 .. Len(sizes) -> Nat]
           /\ Totals(sizes)[0] = 0
           /\ \A i \in 1 .. Len(sizes) :
                Totals(sizes)[i] = Totals(sizes)[i - 1] + sizes[i]
<1>0. PICK n \in Nat : n = Len(sizes)
  OBVIOUS
<1>1. \A i \in 1 .. n : sizes[i] \in Nat
  BY <1>0
<1> DEFINE step == [p \in (1 .. n) \X Nat |-> p[2] + sizes[p[1]]]
           Def(f) == [i \in 0 .. n |-> IF i = 0 THEN 0 ELSE f[i - 1] + sizes[i]]
<1>2. step \in [(1 .. n) \X Nat -> Nat]
  BY <1>1
<1>3. PICK f : Follows(f, n, Nat, 0, step)
  <2> HIDE DEF step
  <2>1. 0 \in Nat
    OBVIOUS
  <2>2. QED
    BY <1>2, <2>1, FoldExists
<1>4. ASSUME NEW i \in 1 .. n
      PROVE  f[i] = f[i - 1] + sizes[i]
  <2>1. f[i - 1] \in Nat
    BY <1>3 DEF Follows
  <2>2. QED
    BY <2>1, <1>3 DEF Follows
<1>5. f = Def(f)
  BY <1>1, <1>3, <1>4 DEF Follows
<1>6. PICK g : g = Totals(sizes)
  OBVIOUS
<1>7. g = Def(g)
  <2>1. \E h : h = Def(h)
    BY <1>5
  <2>2. (CHOOSE h : h = Def(h)) = Def(CHOOSE h : h = Def(h))
    BY <2>1, Zenon
  <2>3. g = CHOOSE h : h = Def(h)
    BY <1>0, <1>6 DEF Totals
  <2>4. QED
    BY <2>2, <2>3, Zenon
<1> HIDE DEF step
<1>8. /\ DOMAIN g = 0 .. n
      /\ g[0] = 0
      /\ \A i \in 1 .. n : g[i] = g[i - 1] + sizes[i]
  BY <1>1, <1>7
<1> DEFINE S == {i \in 0 .. n : g[i] \in Nat}
<1>9. \A i \in 0 .. n : i \in S
  <2>1. 0 \in S
    BY <1>1, <1>8
  <2>2. ASSUME NEW i \in 1 .. n, i - 1 \in S
        PROVE  i \in S
    <3>1. g[i - 1] \in Nat /\ sizes[i] \in Nat /\ i \in 0 .. n
      BY <1>1, <2>2
    <3>2. g[i] = g[i - 1] + sizes[i]
      BY <1>8
    <3>3. QED
      BY <3>1, <3>2
  <2> HIDE DEF S
  <2>3. QED
    BY <2>1, <2>2, UpTo
<1>10. g \in [0 .. n -> Nat]
  BY <1>7, <1>9
<1>11. QED
  BY <1>0, <1>6, <1>8, <1>10

\* f holds the concatenation of the first i parts, for every i.
Concatenates(f, B, parts) ==
    /\ f \in [0 .. Len(parts) -> Seq(B)]
    /\ f[0] = <<>>
    /\ \A i \in 1 .. Len(parts) : f[i] = f[i - 1] \o parts[i]

\* FlattenSeq is the last of the concatenations.
LEMMA FlattenDef ==
    ASSUME NEW B, NEW parts \in Seq(Seq(B))
    PROVE  \E f : /\ Concatenates(f, B, parts)
                  /\ FlattenSeq(parts) = f[Len(parts)]
<1>0. PICK n \in Nat : n = Len(parts)
  OBVIOUS
<1>1. \A i \in 1 .. n : parts[i] \in Seq(B)
  BY <1>0
<1> DEFINE V == Seq(B)
           step == [p \in (1 .. n) \X V |-> p[2] \o parts[p[1]]]
           Def(f) == [i \in 1 .. n |-> IF i = 1 THEN parts[i] ELSE f[i - 1] \o parts[i]]
<1>2. step \in [(1 .. n) \X V -> V]
  <2>1. ASSUME NEW p \in (1 .. n) \X V
        PROVE  p[2] \o parts[p[1]] \in V
    <3>1. p[1] \in 1 .. n /\ p[2] \in Seq(B)
      OBVIOUS
    <3>2. parts[p[1]] \in Seq(B)
      BY <3>1, <1>1
    <3>3. QED
      BY <3>1, <3>2, ConcatProperties
  <2>2. QED
    BY <2>1
<1>3. <<>> \in V
  OBVIOUS
<1>4. PICK f : Follows(f, n, V, <<>>, step)
  <2> HIDE DEF step, V
  <2>1. QED
    BY <1>2, <1>3, FoldExists
<1>5. f \in [0 .. n -> Seq(B)] /\ f[0] = <<>>
  BY <1>4 DEF Follows
<1>6. ASSUME NEW i \in 1 .. n
      PROVE  f[i] = f[i - 1] \o parts[i]
  <2>1. f[i - 1] \in V
    BY <1>5
  <2>2. f[i] = step[<<i, f[i - 1]>>]
    BY <1>4 DEF Follows
  <2>3. QED
    BY <2>1, <2>2
<1>7. CASE n = 0
  <2>1. Concatenates(f, B, parts)
    BY <1>0, <1>5, <1>6 DEF Concatenates
  <2>2. parts = <<>>
    BY <1>0, <1>7, EmptySeq
  <2>3. FlattenSeq(parts) = f[n]
    BY <1>0, <1>5, <1>7, <2>2 DEF FlattenSeq
  <2>4. QED
    BY <1>0, <2>1, <2>3
<1>8. CASE n # 0
  <2> DEFINE g0 == [i \in 1 .. n |-> f[i]]
  <2>1. g0 = Def(g0)
    <3>1. ASSUME NEW i \in 1 .. n
          PROVE  f[i] = IF i = 1 THEN parts[i] ELSE g0[i - 1] \o parts[i]
      <4>1. CASE i = 1
        <5>1. f[i] = f[i - 1] \o parts[i]
          BY <1>6
        <5>2. f[i - 1] = <<>>
          BY <1>5, <4>1
        <5>3. parts[i] \in Seq(B)
          BY <1>1
        <5>4. f[i] = <<>> \o parts[i]
          BY <5>1, <5>2, Zenon
        <5>5. f[i] = parts[i]
          BY <5>3, <5>4, ConcatEmptySeq, Zenon
        <5>6. QED
          BY <4>1, <5>5, Zenon
      <4>2. CASE i # 1
        <5>1. f[i] = f[i - 1] \o parts[i]
          BY <1>6
        <5>2. g0[i - 1] = f[i - 1]
          BY <4>2
        <5>3. QED
          BY <4>2, <5>1, <5>2, Zenon
      <4>3. QED
        BY <4>1, <4>2
    <3>2. QED
      BY <3>1
  <2> HIDE DEF g0
  <2>2. PICK g : g = CHOOSE h : h = Def(h)
    OBVIOUS
  <2>3. g = Def(g)
    <3>1. \E h : h = Def(h)
      BY <2>1
    <3>2. (CHOOSE h : h = Def(h)) = Def(CHOOSE h : h = Def(h))
      BY <3>1, Zenon
    <3>3. QED
      BY <2>2, <3>2, Zenon
  <2>4. FlattenSeq(parts) = g[n]
    BY <1>0, <1>8, <2>2 DEF FlattenSeq
  <2>5. /\ g[1] = parts[1]
        /\ \A i \in 2 .. n : g[i] = g[i - 1] \o parts[i]
    <3>1. ASSUME NEW i \in 1 .. n
          PROVE  g[i] = IF i = 1 THEN parts[i] ELSE g[i - 1] \o parts[i]
      BY <2>3, Zenon
    <3>2. 1 \in 1 .. n
      BY <1>8
    <3>3. g[1] = parts[1]
      BY <3>1, <3>2, Zenon
    <3>4. ASSUME NEW i \in 2 .. n
          PROVE  g[i] = g[i - 1] \o parts[i]
      <4>1. i \in 1 .. n /\ i # 1
        OBVIOUS
      <4>2. QED
        BY <3>1, <4>1, Zenon
    <3>5. QED
      BY <3>3, <3>4, Zenon
  <2> DEFINE S == {i \in 0 .. n : i = 0 \/ g[i] \in Seq(B)}
  <2>6. \A i \in 0 .. n : i \in S
    <3>1. 0 \in S
      OBVIOUS
    <3>2. ASSUME NEW i \in 1 .. n, i - 1 \in S
          PROVE  i \in S
      <4>1. CASE i = 1
        BY <4>1, <2>5, <1>1
      <4>2. CASE i # 1
        <5>1. g[i] = g[i - 1] \o parts[i]
          <6>1. i \in 2 .. n
            BY <4>2
          <6>2. QED
            BY <6>1, <2>5, Zenon
        <5>2. g[i - 1] \in Seq(B) /\ parts[i] \in Seq(B)
          BY <4>2, <3>2, <1>1
        <5>3. g[i] \in Seq(B)
          BY <5>1, <5>2, ConcatProperties
        <5>4. QED
          BY <5>3
      <4>3. QED
        BY <4>1, <4>2
    <3> HIDE DEF S
    <3>3. QED
      BY <3>1, <3>2, UpTo
  <2> DEFINE e == [i \in 0 .. n |-> IF i = 0 THEN <<>> ELSE g[i]]
  <2>7. e \in [0 .. n -> Seq(B)]
    BY <2>6, <1>3
  <2>8. ASSUME NEW i \in 1 .. n
        PROVE  e[i] = e[i - 1] \o parts[i]
    <3>1. CASE i = 1
      <4>1. <<>> \o parts[i] = parts[i]
        BY <1>1, ConcatEmptySeq
      <4>2. e[i] = g[1] /\ e[i - 1] = <<>>
        BY <3>1
      <4>3. e[i] = parts[i]
        BY <4>2, <2>5, <3>1
      <4>4. QED
        BY <4>1, <4>2, <4>3, Zenon
    <3>2. CASE i # 1
      <4>1. i \in 2 .. n
        BY <3>2
      <4>2. g[i] = g[i - 1] \o parts[i]
        BY <4>1, <2>5, Zenon
      <4>3. e[i] = g[i] /\ e[i - 1] = g[i - 1]
        BY <4>1
      <4>4. QED
        BY <4>2, <4>3, Zenon
    <3>3. QED
      BY <3>1, <3>2, Zenon
  <2>9. e[0] = <<>> /\ e[n] = g[n]
    BY <1>8
  <2> HIDE DEF e
  <2>10. Concatenates(e, B, parts)
    BY <1>0, <2>7, <2>8, <2>9 DEF Concatenates
  <2>11. QED
    BY <1>0, <2>4, <2>9, <2>10
<1>9. QED
  BY <1>7, <1>8

\* The smaller of two numbers.
LEMMA MinOfTwo ==
    ASSUME NEW a \in Int, NEW b \in Int
    PROVE  Min({a, b}) = IF a <= b THEN a ELSE b
<1> DEFINE m == IF a <= b THEN a ELSE b
           P(x) == x \in {a, b} /\ \A y \in {a, b} : x <= y
<1>1. P(m)
  OBVIOUS
<1>2. \A x : P(x) => x = m
  OBVIOUS
<1>3. Min({a, b}) = CHOOSE x : P(x)
  BY DEF Min
<1> HIDE DEF P, m
<1>4. P(CHOOSE x : P(x))
  BY <1>1, Zenon
<1>5. Min({a, b}) = m
  BY <1>2, <1>3, <1>4, Zenon
<1>6. QED
  BY <1>5 DEF m

\* The part of a sequence behind its first m elements, up to the n-th.
LEMMA SubSeqBehind ==
    ASSUME NEW C, NEW s \in Seq(C), NEW n \in 0 .. Len(s), NEW m \in 0 .. n
    PROVE  /\ SubSeq(s, m + 1, n) \in Seq(C)
           /\ Len(SubSeq(s, m + 1, n)) = n - m
           /\ \A k \in 1 .. n - m : SubSeq(s, m + 1, n)[k] = s[m + k]
<1>1. PICK lo \in Int, hi \in Int : lo = m + 1 /\ hi = n
  OBVIOUS
<1>2. PICK part : part = SubSeq(s, lo, hi)
  OBVIOUS
<1>3. \A k \in lo .. hi : s[k] \in C
  <2>1. \A k \in lo .. hi : k \in 1 .. Len(s)
    BY <1>1
  <2>2. \A k \in 1 .. Len(s) : s[k] \in C
    OBVIOUS
  <2>3. QED
    BY <2>1, <2>2, Zenon
<1>4. /\ part \in Seq(C)
      /\ Len(part) = IF lo <= hi THEN hi - lo + 1 ELSE 0
      /\ \A k \in 1 .. hi - lo + 1 : part[k] = s[lo + k - 1]
  BY <1>2, <1>3, SubSeqProperties
<1>5. Len(part) = n - m
  BY <1>1, <1>4
<1>6. \A k \in 1 .. n - m : k \in 1 .. hi - lo + 1 /\ lo + k - 1 = m + k
  BY <1>1
<1>7. \A k \in 1 .. n - m : part[k] = s[m + k]
  BY <1>4, <1>6, Zenon
<1>8. QED
  BY <1>1, <1>2, <1>4, <1>5, <1>7, Zenon

\* The first n elements of a sequence.
LEMMA FirstBlocks ==
    ASSUME NEW C, NEW s \in Seq(C), NEW n \in 0 .. Len(s)
    PROVE  /\ SubSeq(s, 1, n) \in Seq(C)
           /\ Len(SubSeq(s, 1, n)) = n
           /\ \A k \in 1 .. n : SubSeq(s, 1, n)[k] = s[k]
<1>1. PICK m \in 0 .. n : m = 0
  OBVIOUS
<1>2. m + 1 = 1 /\ n - m = n /\ \A k \in 1 .. n : m + k = k
  BY <1>1
<1>3. /\ SubSeq(s, m + 1, n) \in Seq(C)
      /\ Len(SubSeq(s, m + 1, n)) = n - m
      /\ \A k \in 1 .. n - m : SubSeq(s, m + 1, n)[k] = s[m + k]
  BY SubSeqBehind
<1>4. QED
  BY <1>2, <1>3, Zenon

\* The sizes of the parts.
LEMMA SizesType ==
    ASSUME NEW B, NEW parts \in Seq(Seq(B))
    PROVE  /\ Sizes(parts) \in Seq(Nat)
           /\ Len(Sizes(parts)) = Len(parts)
           /\ \A i \in 1 .. Len(parts) : Sizes(parts)[i] = Len(parts[i])
<1>1. DOMAIN parts = 1 .. Len(parts) /\ Len(parts) \in Nat
  OBVIOUS
<1>2. \A i \in 1 .. Len(parts) : parts[i] \in Seq(B)
  OBVIOUS
<1>3. \A i \in 1 .. Len(parts) : Len(parts[i]) \in Nat
  BY <1>2, LenProperties
<1>4. QED
  BY <1>1, <1>3 DEF Sizes

\* The total of the sizes is the length of the concatenation, part by part.
LEMMA TotalsAreLengths ==
    ASSUME NEW B, NEW parts \in Seq(Seq(B)), NEW f, Concatenates(f, B, parts)
    PROVE  \A i \in 0 .. Len(parts) : Len(f[i]) = Totals(Sizes(parts))[i]
<1>1. PICK t : t = Totals(Sizes(parts))
  OBVIOUS
<1>2. /\ t[0] = 0
      /\ \A i \in 1 .. Len(parts) : t[i] = t[i - 1] + Len(parts[i])
  BY <1>1, SizesType, TotalsDef
<1>3. PICK n \in Nat : n = Len(parts)
  OBVIOUS
<1> DEFINE S == {i \in 0 .. n : Len(f[i]) = t[i]}
<1>4. 0 \in S
  BY <1>2 DEF Concatenates
<1>5. ASSUME NEW i \in 1 .. n, i - 1 \in S
      PROVE  i \in S
  <2>1. f[i - 1] \in Seq(B) /\ parts[i] \in Seq(B)
    <3>1. f \in [0 .. n -> Seq(B)]
      BY <1>3, Zenon DEF Concatenates
    <3>2. QED
      BY <1>3, <3>1
  <2>2. f[i] = f[i - 1] \o parts[i]
    BY <1>3, Zenon DEF Concatenates
  <2>3. Len(f[i]) = Len(f[i - 1]) + Len(parts[i])
    BY <2>1, <2>2, ConcatProperties, Zenon
  <2>4. t[i] = t[i - 1] + Len(parts[i]) /\ Len(f[i - 1]) = t[i - 1]
    BY <1>2, <1>3, <1>5
  <2>5. QED
    BY <2>3, <2>4
<1> HIDE DEF S
<1>6. \A i \in 0 .. n : i \in S
  BY <1>4, <1>5, UpTo
<1>7. QED
  BY <1>1, <1>3, <1>6 DEF S

\* new is old followed by part.
Extends(new, old, part) ==
    /\ Len(new) = Len(old) + Len(part)
    /\ \A k \in 1 .. Len(old) : new[k] = old[k]
    /\ \A k \in 1 .. Len(part) : new[Len(old) + k] = part[k]

\* A concatenation extends its first operand by its second.
LEMMA ConcatExtends ==
    ASSUME NEW B, NEW old \in Seq(B), NEW part \in Seq(B)
    PROVE  Extends(old \o part, old, part)
<1>1. PICK new : new = old \o part
  OBVIOUS
<1>2. PICK l \in Nat, m \in Nat : l = Len(old) /\ m = Len(part)
  OBVIOUS
<1>3. /\ Len(new) = l + m
      /\ \A k \in 1 .. l + m : new[k] = IF k <= l THEN old[k] ELSE part[k - l]
  BY <1>1, <1>2, ConcatProperties, Zenon
<1>4. \A k \in 1 .. l : new[k] = old[k]
  <2>1. ASSUME NEW k \in 1 .. l
        PROVE  new[k] = old[k]
    <3>1. k \in 1 .. l + m /\ k <= l
      OBVIOUS
    <3>2. QED
      BY <3>1, <1>3, Zenon
  <2>2. QED
    BY <2>1
<1>5. \A k \in 1 .. m : new[l + k] = part[k]
  <2>1. ASSUME NEW k \in 1 .. m
        PROVE  new[l + k] = part[k]
    <3>1. l + k \in 1 .. l + m /\ ~(l + k <= l) /\ (l + k) - l = k
      OBVIOUS
    <3>2. new[l + k] = part[(l + k) - l]
      BY <3>1, <1>3, Zenon
    <3>3. QED
      BY <3>1, <3>2, Zenon
  <2>2. QED
    BY <2>1
<1>6. Len(new) = Len(old) + Len(part)
  BY <1>2, <1>3, Zenon
<1>7. Extends(new, old, part)
  BY <1>2, <1>4, <1>5, <1>6, Zenon DEF Extends
<1>8. QED
  BY <1>1, <1>7, Zenon

\* What one concatenation adds to the one before.
LEMMA ConcatStep ==
    ASSUME NEW B, NEW parts \in Seq(Seq(B)), NEW f, Concatenates(f, B, parts),
           NEW j \in 1 .. Len(parts)
    PROVE  /\ f[j - 1] \in Seq(B) /\ f[j] \in Seq(B) /\ parts[j] \in Seq(B)
           /\ Extends(f[j], f[j - 1], parts[j])
<1>1. f \in [0 .. Len(parts) -> Seq(B)]
  BY Zenon DEF Concatenates
<1>2. Len(parts) \in Nat /\ j - 1 \in 0 .. Len(parts) /\ j \in 0 .. Len(parts)
  OBVIOUS
<1>3. f[j - 1] \in Seq(B) /\ f[j] \in Seq(B)
  BY <1>1, <1>2, Zenon
<1>4. parts[j] \in Seq(B)
  BY ElementOfSeq
<1>5. f[j] = f[j - 1] \o parts[j]
  BY Zenon DEF Concatenates
<1>6. Extends(f[j - 1] \o parts[j], f[j - 1], parts[j])
  BY <1>3, <1>4, ConcatExtends, Zenon
<1>7. QED
  BY <1>3, <1>4, <1>5, <1>6, Zenon

\* s begins with short.
Begins(s, short) ==
    /\ Len(short) <= Len(s)
    /\ \A k \in 1 .. Len(short) : s[k] = short[k]

\* A concatenation begins with each shorter one.
LEMMA ShorterIsPrefix ==
    ASSUME NEW B, NEW parts \in Seq(Seq(B)), NEW f, Concatenates(f, B, parts),
           NEW i \in 0 .. Len(parts)
    PROVE  \A j \in i .. Len(parts) : Begins(f[j], f[i])
<1>0. PICK short : short = f[i]
  OBVIOUS
<1>1. PICK n \in Nat : n = Len(parts)
  OBVIOUS
<1>2. i \in 0 .. n /\ i \in Nat
  BY <1>1
<1>3. short \in Seq(B)
  <2>1. f \in [0 .. n -> Seq(B)]
    BY <1>1, Zenon DEF Concatenates
  <2>2. QED
    BY <1>0, <2>1, <1>2, Zenon
<1>4. Len(short) \in Nat
  BY <1>3
<1> DEFINE S == {d \in 0 .. n - i : Begins(f[i + d], short)}
<1>5. 0 \in S
  <2>1. Begins(short, short)
    BY <1>4 DEF Begins
  <2>2. i + 0 = i /\ 0 \in 0 .. n - i
    BY <1>2
  <2>3. QED
    BY <1>0, <2>1, <2>2
<1>6. ASSUME NEW d \in 1 .. n - i, d - 1 \in S
      PROVE  d \in S
  <2>1. PICK j : j = i + d
    OBVIOUS
  <2>2. j \in 1 .. n /\ i + (d - 1) = j - 1 /\ d \in 0 .. n - i
    BY <1>2, <2>1
  <2>3. PICK old, new, part : old = f[j - 1] /\ new = f[j] /\ part = parts[j]
    OBVIOUS
  <2>4. Begins(old, short)
    BY <1>6, <2>2, <2>3
  <2>5. /\ old \in Seq(B) /\ part \in Seq(B)
        /\ Len(new) = Len(old) + Len(part)
        /\ \A k \in 1 .. Len(old) : new[k] = old[k]
    <3>1. j \in 1 .. Len(parts)
      BY <1>1, <2>2
    <3>2. /\ f[j - 1] \in Seq(B) /\ parts[j] \in Seq(B)
          /\ Extends(f[j], f[j - 1], parts[j])
      BY <3>1, ConcatStep, Zenon
    <3>3. Extends(new, old, part) /\ old \in Seq(B) /\ part \in Seq(B)
      BY <2>3, <3>2, Zenon
    <3>4. QED
      BY <3>3, Zenon DEF Extends
  <2>6. Len(old) \in Nat /\ Len(part) \in Nat
    BY <2>5
  <2>7. Len(short) <= Len(new)
    BY <1>4, <2>4, <2>5, <2>6 DEF Begins
  <2>8. ASSUME NEW k \in 1 .. Len(short)
        PROVE  new[k] = short[k]
    <3>1. k \in 1 .. Len(old)
      BY <1>4, <2>4, <2>6 DEF Begins
    <3>2. QED
      BY <2>4, <2>5, <3>1 DEF Begins
  <2>9. Begins(new, short)
    BY <2>7, <2>8 DEF Begins
  <2>10. QED
    BY <2>1, <2>2, <2>3, <2>9
<1>7. \A d \in 0 .. n - i : d \in S
  <2>1. PICK m : m = n - i
    OBVIOUS
  <2>2. m \in Nat
    BY <1>2, <2>1
  <2>3. \A d \in 1 .. m : d - 1 \in S => d \in S
    BY <1>6, <2>1
  <2> HIDE DEF S
  <2>4. \A d \in 0 .. m : d \in S
    BY <1>5, <2>2, <2>3, UpTo
  <2>5. QED
    BY <2>1, <2>4
<1>8. ASSUME NEW j \in i .. n
      PROVE  Begins(f[j], short)
  <2>1. j - i \in 0 .. n - i /\ i + (j - i) = j
    BY <1>2
  <2>2. QED
    BY <1>7, <2>1
<1>9. QED
  BY <1>0, <1>1, <1>8

\* Cutting a concatenation by the sizes of its parts gives the parts.
LEMMA CutOfFlatten ==
    ASSUME NEW B, NEW parts \in Seq(Seq(B))
    PROVE  /\ FlattenSeq(parts) \in Seq(B)
           /\ SumOf(Sizes(parts)) = Len(FlattenSeq(parts))
           /\ Cut(Sizes(parts), FlattenSeq(parts)) = parts
<1>1. PICK f : Concatenates(f, B, parts) /\ FlattenSeq(parts) = f[Len(parts)]
  BY FlattenDef
<1>2. PICK n \in Nat : n = Len(parts)
  OBVIOUS
<1>3. PICK all : all = FlattenSeq(parts)
  OBVIOUS
<1>4. PICK t : t = Totals(Sizes(parts))
  OBVIOUS
<1>5. f \in [0 .. n -> Seq(B)] /\ all = f[n]
  BY <1>1, <1>2, <1>3, Zenon DEF Concatenates
<1>6. all \in Seq(B) /\ Len(all) \in Nat
  BY <1>5
<1>7. \A i \in 0 .. n : Len(f[i]) = t[i]
  BY <1>1, <1>2, <1>4, TotalsAreLengths, Zenon
<1>8. /\ t \in [0 .. n -> Nat]
      /\ \A i \in 1 .. n : t[i] = t[i - 1] + Len(parts[i])
  <2>1. Sizes(parts) \in Seq(Nat) /\ Len(Sizes(parts)) = n
    BY <1>2, SizesType
  <2>2. t \in [0 .. n -> Nat]
    BY <1>4, <2>1, TotalsDef
  <2>3. \A i \in 1 .. n : t[i] = t[i - 1] + Sizes(parts)[i]
    BY <1>4, <2>1, TotalsDef
  <2>4. \A i \in 1 .. n : Sizes(parts)[i] = Len(parts[i])
    BY <1>2, SizesType
  <2>5. QED
    BY <2>2, <2>3, <2>4
<1>9. SumOf(Sizes(parts)) = Len(all)
  BY <1>2, <1>4, <1>5, <1>7, SizesType DEF SumOf
<1>10. ASSUME NEW i \in 1 .. n
       PROVE  Substr(all, Offset(Sizes(parts), i), Sizes(parts)[i]) = parts[i]
  <2>1. Offset(Sizes(parts), i) = t[i - 1]
    BY <1>4 DEF Offset
  <2>2. Sizes(parts)[i] = Len(parts[i])
    BY <1>2, SizesType
  <2>3. i \in 1 .. Len(parts) /\ i \in 0 .. Len(parts) /\ n \in i .. Len(parts)
    BY <1>2
  <2>4. /\ f[i - 1] \in Seq(B) /\ f[i] \in Seq(B) /\ parts[i] \in Seq(B)
        /\ Extends(f[i], f[i - 1], parts[i])
    BY <1>1, <2>3, ConcatStep, Zenon
  <2>5. PICK old, new, part : old = f[i - 1] /\ new = f[i] /\ part = parts[i]
    OBVIOUS
  <2>6. /\ new \in Seq(B) /\ part \in Seq(B)
        /\ Extends(new, old, part)
    BY <2>4, <2>5, Zenon
  <2>7. PICK a \in Nat, l \in Nat : a = t[i - 1] /\ l = Len(part)
    BY <1>8, <2>6
  <2>8. Len(old) = a
    BY <1>7, <2>5, <2>7
  <2>9. Len(new) = a + l /\ \A k \in 1 .. l : new[a + k] = part[k]
    BY <2>6, <2>7, <2>8, Zenon DEF Extends
  <2>10. a + l <= Len(all) /\ \A k \in 1 .. a + l : all[k] = new[k]
    <3>1. Begins(f[n], f[i])
      BY <1>1, <2>3, ShorterIsPrefix
    <3>2. Begins(all, new)
      BY <1>5, <2>5, <3>1
    <3>3. QED
      BY <3>2, <2>9, Zenon DEF Begins
  <2>11. Substr(all, a, l) = SubSeq(all, a + 1, a + l)
    <3>1. a + l \in Int /\ Len(all) \in Int
      BY <1>6
    <3>2. Min({a + l, Len(all)}) = a + l
      BY <2>10, <3>1, MinOfTwo, Zenon
    <3>3. QED
      BY <3>2, Zenon DEF Substr
  <2>12. a + l \in 0 .. Len(all) /\ a \in 0 .. a + l /\ (a + l) - a = l
    BY <1>6, <2>10
  <2>13. PICK s : s = SubSeq(all, a + 1, a + l)
    OBVIOUS
  <2>14. /\ s \in Seq(B)
         /\ Len(s) = l
         /\ \A k \in 1 .. l : s[k] = all[a + k]
    BY <1>6, <2>12, <2>13, SubSeqBehind, Zenon
  <2>15. \A k \in 1 .. l : s[k] = part[k]
    <3>1. \A k \in 1 .. l : a + k \in 1 .. a + l
      OBVIOUS
    <3>2. QED
      BY <2>9, <2>10, <2>14, <3>1, Zenon
  <2>16. s = part
    BY <2>6, <2>7, <2>14, <2>15, SeqEqual, Zenon
  <2>17. QED
    BY <2>1, <2>2, <2>5, <2>7, <2>11, <2>13, <2>16, Zenon
<1>11. Cut(Sizes(parts), all) = parts
  <2>1. DOMAIN Sizes(parts) = 1 .. n /\ parts = [i \in 1 .. n |-> parts[i]]
    BY <1>2, SizesType
  <2>2. QED
    BY <1>10, <2>1, Zenon DEF Cut
<1>12. QED
  BY <1>3, <1>6, <1>9, <1>11

-----------------------------------------------------------------------------
(***************************************************************************)
(* Multi chunks.                                                           *)
(***************************************************************************)

\* kept holds what Split keeps of the first i entries, for every i.
Keeps(kept, entries) ==
    /\ kept \in [0 .. Len(entries) -> Seq(Int)]
    /\ kept[0] = <<>>
    /\ \A i \in 1 .. Len(entries) :
         kept[i] = IF entries[i] = Blank THEN kept[i - 1]
                   ELSE Append(kept[i - 1], entries[i])

\* Split is the last of what is kept.
LEMMA SplitDef ==
    ASSUME NEW entries \in Seq(Int)
    PROVE  \E kept : Keeps(kept, entries) /\ Split(entries) = kept[Len(entries)]
<1>0. PICK n \in Nat : n = Len(entries)
  OBVIOUS
<1>1. \A i \in 1 .. n : entries[i] \in Int
  BY <1>0
<1> DEFINE V == Seq(Int)
           Then(i, s) == IF entries[i] = Blank THEN s ELSE Append(s, entries[i])
           step == [p \in (1 .. n) \X V |-> Then(p[1], p[2])]
           Def(f) == [i \in 0 .. n |->
                        IF i = 0 THEN <<>>
                        ELSE IF entries[i] = Blank THEN f[i - 1]
                        ELSE Append(f[i - 1], entries[i])]
<1>2. \A i \in 1 .. n : \A s \in V : Then(i, s) \in V
  BY <1>1, AppendProperties
<1> HIDE DEF Then
<1>3. step \in [(1 .. n) \X V -> V]
  BY <1>2
<1>4. <<>> \in V
  OBVIOUS
<1>5. PICK f : Follows(f, n, V, <<>>, step)
  <2> HIDE DEF step, V
  <2>1. QED
    BY <1>3, <1>4, FoldExists
<1>6. f \in [0 .. n -> V] /\ f[0] = <<>>
  BY <1>5 DEF Follows
<1>7. ASSUME NEW i \in 1 .. n
      PROVE  f[i] = Then(i, f[i - 1])
  <2>1. f[i - 1] \in V
    BY <1>6
  <2>2. f[i] = step[<<i, f[i - 1]>>]
    BY <1>5 DEF Follows
  <2>3. QED
    BY <2>1, <2>2
<1>8. f = Def(f)
  <2>1. ASSUME NEW i \in 0 .. n
        PROVE  f[i] = IF i = 0 THEN <<>>
                      ELSE IF entries[i] = Blank THEN f[i - 1]
                      ELSE Append(f[i - 1], entries[i])
    <3>1. i # 0 => i \in 1 .. n
      OBVIOUS
    <3>2. QED
      BY <1>6, <1>7, <3>1, Zenon DEF Then
  <2>2. QED
    BY <1>6, <2>1, Zenon
<1>9. PICK g : g = CHOOSE h : h = Def(h)
  OBVIOUS
<1>10. g = Def(g)
  <2>1. \E h : h = Def(h)
    BY <1>8
  <2>2. (CHOOSE h : h = Def(h)) = Def(CHOOSE h : h = Def(h))
    BY <2>1, Zenon
  <2>3. QED
    BY <1>9, <2>2, Zenon
<1>11. Split(entries) = g[n]
  BY <1>0, <1>9 DEF Split
<1>12. /\ DOMAIN g = 0 .. n
       /\ g[0] = <<>>
       /\ \A i \in 1 .. n : g[i] = Then(i, g[i - 1])
  <2>1. DOMAIN g = 0 .. n
    BY <1>10, Zenon
  <2>2. \A i \in 0 .. n : g[i] = IF i = 0 THEN <<>>
                                ELSE IF entries[i] = Blank THEN g[i - 1]
                                ELSE Append(g[i - 1], entries[i])
    BY <1>10, Zenon
  <2>3. 0 \in 0 .. n /\ \A i \in 1 .. n : i \in 0 .. n /\ i # 0
    OBVIOUS
  <2>4. QED
    BY <2>1, <2>2, <2>3, Zenon DEF Then
<1> DEFINE S == {i \in 0 .. n : g[i] \in V}
<1>13. \A i \in 0 .. n : i \in S
  <2>1. 0 \in S
    <3>1. 0 \in 0 .. n
      OBVIOUS
    <3>2. QED
      BY <1>4, <1>12, <3>1, Zenon
  <2>2. ASSUME NEW i \in 1 .. n, i - 1 \in S
        PROVE  i \in S
    <3>1. g[i - 1] \in V /\ i \in 0 .. n
      BY <2>2
    <3>2. QED
      BY <1>2, <1>12, <3>1, Zenon
  <2> HIDE DEF S
  <2>3. QED
    BY <2>1, <2>2, UpTo
<1>14. g \in [0 .. n -> V]
  <2> HIDE DEF V
  <2>1. g = [i \in 0 .. n |-> g[i]]
    BY <1>10, Zenon
  <2>2. QED
    BY <1>13, <2>1
<1>15. Keeps(g, entries)
  BY <1>0, <1>12, <1>14, Zenon DEF Keeps, Then
<1>16. QED
  BY <1>0, <1>11, <1>15

\* A longer prefix is the one before and the next element.
LEMMA PrefixStep ==
    ASSUME NEW B, NEW s \in Seq(B), NEW i \in 1 .. Len(s)
    PROVE  /\ SubSeq(s, 1, i) = Append(SubSeq(s, 1, i - 1), s[i])
           /\ SubSeq(s, 1, i - 1) \in Seq(B)
<1>1. Len(s) \in Nat /\ s[i] \in B
  OBVIOUS
<1>2. 1 \in 1 .. Len(s) /\ i \in 1 .. Len(s)
  BY <1>1
<1>3. SubSeq(s, 1, i) = SubSeq(s, 1, i - 1) \o <<s[i]>>
  BY <1>2, SubSeqRecursiveSecond, Zenon
<1>4. SubSeq(s, 1, i - 1) \in Seq(B)
  <2>1. 1 \in Int /\ i - 1 \in Int /\ \A j \in 1 .. i - 1 : s[j] \in B
    BY <1>1
  <2>2. QED
    BY <2>1, SubSeqProperties
<1>5. Append(SubSeq(s, 1, i - 1), s[i]) = SubSeq(s, 1, i - 1) \o <<s[i]>>
  BY <1>1, <1>4, AppendIsConcat, Zenon
<1>6. QED
  BY <1>3, <1>4, <1>5, Zenon

\* Nothing of a list of sizes is dropped.
LEMMA SplitOfSizes ==
    ASSUME NEW sizes \in Seq(Nat)
    PROVE  Split(sizes) = sizes
<1>1. sizes \in Seq(Int)
  BY SeqMonotonic
<1>2. PICK n \in Nat : n = Len(sizes)
  OBVIOUS
<1>3. PICK kept : Keeps(kept, sizes) /\ Split(sizes) = kept[n]
  BY <1>1, <1>2, SplitDef
<1> DEFINE S == {i \in 0 .. n : kept[i] = SubSeq(sizes, 1, i)}
<1>4. 0 \in S
  <2>1. SubSeq(sizes, 1, 0) = <<>>
    BY SubSeqEmpty
  <2>2. kept[0] = <<>>
    BY <1>3, Zenon DEF Keeps
  <2>3. 0 \in 0 .. n
    OBVIOUS
  <2>4. QED
    BY <2>1, <2>2, <2>3, Zenon
<1>5. ASSUME NEW i \in 1 .. n, i - 1 \in S
      PROVE  i \in S
  <2>1. i \in 1 .. Len(sizes) /\ i \in 0 .. n
    BY <1>2
  <2>2. sizes[i] # Blank
    <3>1. sizes[i] \in Nat
      BY <2>1
    <3>2. QED
      BY <3>1 DEF Blank
  <2>3. kept[i] = Append(kept[i - 1], sizes[i])
    BY <1>3, <2>1, <2>2, Zenon DEF Keeps
  <2>4. kept[i - 1] = SubSeq(sizes, 1, i - 1)
    BY <1>5
  <2>5. SubSeq(sizes, 1, i) = Append(SubSeq(sizes, 1, i - 1), sizes[i])
    BY <2>1, PrefixStep
  <2>6. QED
    BY <2>1, <2>3, <2>4, <2>5, Zenon
<1> HIDE DEF S
<1>6. \A i \in 0 .. n : i \in S
  BY <1>4, <1>5, UpTo
<1>7. n \in S
  BY <1>6
<1>8. kept[n] = SubSeq(sizes, 1, n)
  BY <1>7 DEF S
<1>9. QED
  BY <1>2, <1>3, <1>8, SubSeqFull

\* The entries MakeMultiChunk writes: each size and a blank.
LEMMA ChunkEntries ==
    ASSUME NEW sizes \in Seq(Nat), NEW pairs,
           pairs = [i \in 1 .. Len(sizes) |-> <<sizes[i], Blank>>]
    PROVE  /\ FlattenSeq(pairs) \in Seq(Int)
           /\ Len(FlattenSeq(pairs)) = 2 * Len(sizes)
           /\ \A i \in 1 .. Len(sizes) :
                /\ FlattenSeq(pairs)[2 * i - 1] = sizes[i]
                /\ FlattenSeq(pairs)[2 * i] = Blank
<1>1. PICK n \in Nat : n = Len(sizes)
  OBVIOUS
<1>2. \A i \in 1 .. n : sizes[i] \in Nat
  BY <1>1
<1>3. \A i \in 1 .. n : <<sizes[i], Blank>> \in Seq(Int) /\ Len(<<sizes[i], Blank>>) = 2
  BY <1>2 DEF Blank
<1>4. pairs \in Seq(Seq(Int)) /\ Len(pairs) = n
  <2>1. pairs \in [1 .. n -> Seq(Int)]
    BY <1>1, <1>3
  <2>2. QED
    BY <2>1
<1>5. PICK f : Concatenates(f, Int, pairs) /\ FlattenSeq(pairs) = f[n]
  BY <1>4, FlattenDef
<1>6. ASSUME NEW i \in 1 .. n
      PROVE  /\ f[i - 1] \in Seq(Int) /\ f[i] \in Seq(Int)
             /\ Len(f[i]) = Len(f[i - 1]) + 2
             /\ f[i][Len(f[i - 1]) + 1] = sizes[i]
             /\ f[i][Len(f[i - 1]) + 2] = Blank
  <2>1. i \in 1 .. Len(pairs) /\ 1 \in 1 .. 2 /\ 2 \in 1 .. 2
    BY <1>4
  <2>2. /\ f[i - 1] \in Seq(Int) /\ f[i] \in Seq(Int)
        /\ Extends(f[i], f[i - 1], pairs[i])
    BY <1>4, <1>5, <2>1, ConcatStep
  <2>3. PICK pair : pair = pairs[i]
    OBVIOUS
  <2>4. Len(pair) = 2 /\ pair[1] = sizes[i] /\ pair[2] = Blank
    BY <1>1, <1>3, <2>3
  <2>5. Extends(f[i], f[i - 1], pair)
    BY <2>2, <2>3
  <2>6. QED
    BY <2>1, <2>2, <2>4, <2>5, Zenon DEF Extends
<1> DEFINE S == {i \in 0 .. n : Len(f[i]) = 2 * i}
<1>7. \A i \in 0 .. n : i \in S
  <2>1. 0 \in S
    <3>1. f[0] = <<>>
      BY <1>5, Zenon DEF Concatenates
    <3>2. QED
      BY <3>1
  <2>2. ASSUME NEW i \in 1 .. n, i - 1 \in S
        PROVE  i \in S
    <3>1. Len(f[i]) = Len(f[i - 1]) + 2 /\ Len(f[i - 1]) = 2 * (i - 1) /\ i \in 0 .. n
      BY <1>6, <2>2
    <3>2. QED
      BY <3>1
  <2> HIDE DEF S
  <2>3. QED
    BY <2>1, <2>2, UpTo
<1>8. f[n] \in Seq(Int) /\ Len(f[n]) = 2 * n
  <2>1. f \in [0 .. n -> Seq(Int)]
    BY <1>4, <1>5, Zenon DEF Concatenates
  <2>2. n \in 0 .. n
    OBVIOUS
  <2>3. QED
    BY <1>7, <2>1, <2>2
<1>9. ASSUME NEW i \in 1 .. n
      PROVE  f[n][2 * i - 1] = sizes[i] /\ f[n][2 * i] = Blank
  <2>1. Len(f[i]) = 2 * i /\ Len(f[i - 1]) = 2 * (i - 1)
    BY <1>7
  <2>2. Len(f[i - 1]) + 1 = 2 * i - 1 /\ Len(f[i - 1]) + 2 = 2 * i
    BY <2>1
  <2>3. f[i][2 * i - 1] = sizes[i] /\ f[i][2 * i] = Blank
    <3>1. f[i][Len(f[i - 1]) + 1] = sizes[i] /\ f[i][Len(f[i - 1]) + 2] = Blank
      BY <1>6
    <3>2. QED
      BY <2>2, <3>1, Zenon
  <2>4. 2 * i - 1 \in 1 .. 2 * i /\ 2 * i \in 1 .. 2 * i
    OBVIOUS
  <2>5. i \in 0 .. Len(pairs) /\ n \in i .. Len(pairs)
    BY <1>4
  <2>6. Begins(f[n], f[i])
    BY <1>4, <1>5, <2>5, ShorterIsPrefix
  <2>7. QED
    BY <2>1, <2>3, <2>4, <2>6, Zenon DEF Begins
<1>10. QED
  BY <1>1, <1>5, <1>8, <1>9

\* Split takes the sizes from them.
LEMMA SplitOfChunkEntries ==
    ASSUME NEW sizes \in Seq(Nat), NEW pairs,
           pairs = [i \in 1 .. Len(sizes) |-> <<sizes[i], Blank>>]
    PROVE  Split(FlattenSeq(pairs)) = sizes
<1>1. PICK entries : entries = FlattenSeq(pairs)
  OBVIOUS
<1>2. PICK n \in Nat : n = Len(sizes)
  OBVIOUS
<1>3. /\ entries \in Seq(Int) /\ Len(entries) = 2 * n
      /\ \A i \in 1 .. n : entries[2 * i - 1] = sizes[i] /\ entries[2 * i] = Blank
  BY <1>1, <1>2, ChunkEntries
<1>4. PICK kept : Keeps(kept, entries) /\ Split(entries) = kept[2 * n]
  BY <1>3, SplitDef
<1> DEFINE S == {i \in 0 .. n : kept[2 * i] = SubSeq(sizes, 1, i)}
<1>5. 0 \in S
  <2>1. SubSeq(sizes, 1, 0) = <<>>
    BY SubSeqEmpty
  <2>2. kept[0] = <<>>
    BY <1>4, Zenon DEF Keeps
  <2>3. 0 \in 0 .. n /\ 2 * 0 = 0
    OBVIOUS
  <2>4. QED
    BY <2>1, <2>2, <2>3, Zenon
<1>6. ASSUME NEW i \in 1 .. n, i - 1 \in S
      PROVE  i \in S
  <2>1. i \in 1 .. Len(sizes) /\ i \in 0 .. n
    BY <1>2
  <2>2. PICK odd, even : odd = 2 * i - 1 /\ even = 2 * i
    OBVIOUS
  <2>3. /\ odd \in 1 .. Len(entries) /\ even \in 1 .. Len(entries)
        /\ odd - 1 = 2 * (i - 1) /\ even - 1 = odd
    BY <1>3, <2>2
  <2>4. entries[odd] = sizes[i] /\ entries[even] = Blank
    BY <1>3, <2>2
  <2>5. sizes[i] # Blank
    <3>1. sizes[i] \in Nat
      BY <2>1
    <3>2. QED
      BY <3>1 DEF Blank
  <2>6. kept[odd] = Append(kept[odd - 1], entries[odd])
    BY <1>4, <2>3, <2>4, <2>5, Zenon DEF Keeps
  <2>7. kept[even] = kept[even - 1]
    BY <1>4, <2>3, <2>4, Zenon DEF Keeps
  <2>8. kept[2 * (i - 1)] = SubSeq(sizes, 1, i - 1)
    BY <1>6
  <2>9. SubSeq(sizes, 1, i) = Append(SubSeq(sizes, 1, i - 1), sizes[i])
    BY <2>1, PrefixStep
  <2>10. kept[even] = SubSeq(sizes, 1, i)
    BY <2>3, <2>4, <2>6, <2>7, <2>8, <2>9, Zenon
  <2>11. QED
    BY <2>1, <2>2, <2>10, Zenon
<1> HIDE DEF S
<1>7. \A i \in 0 .. n : i \in S
  BY <1>5, <1>6, UpTo
<1>8. n \in S
  BY <1>7
<1>9. kept[2 * n] = SubSeq(sizes, 1, n)
  BY <1>8 DEF S
<1>10. QED
  BY <1>1, <1>2, <1>4, <1>9, SubSeqFull

\* A body whose first line lists the sizes of the parts that follow.
LEMMA ParseOfBody ==
    ASSUME NEW B, NEW parts \in Seq(Seq(B)), parts # <<>>,
           \A i \in 1 .. Len(parts) : Len(parts[i]) > 0,
           NEW entries, Split(entries) = Sizes(parts),
           NEW body, body = LineOf(entries) \o FlattenSeq(parts)
    PROVE  /\ Len(body) = 1 + Len(FlattenSeq(parts))
           /\ TryParseMultiChunk(SubSeq(body, 1, Len(body))) = {parts}
           /\ TryParseMultiChunk(SubSeq(body, 1, 0)) = {<<>>}
           /\ \A n \in 1 .. Len(body) - 1 : TryParseMultiChunk(SubSeq(body, 1, n)) = {}
<1>1. PICK all : all = FlattenSeq(parts)
  OBVIOUS
<1>2. /\ all \in Seq(B) /\ SumOf(Sizes(parts)) = Len(all)
      /\ Cut(Sizes(parts), all) = parts
  BY <1>1, CutOfFlatten
<1>3. PICK l \in Nat : l = Len(all)
  BY <1>2
<1>4. PICK line : line = <<"line", entries>>
  OBVIOUS
<1>5. line[2] = entries
  BY <1>4
<1>6. PICK C : C = B \cup {line}
  OBVIOUS
<1>7. all \in Seq(C) /\ <<line>> \in Seq(C) /\ Len(<<line>>) = 1 /\ <<line>>[1] = line
  <2>1. all \in Seq(C)
    BY <1>2, <1>6, SeqMonotonic
  <2>2. line \in C
    BY <1>6
  <2>3. QED
    BY <2>1, <2>2
<1>8. /\ body \in Seq(C)
      /\ Len(body) = 1 + l
      /\ body[1] = line
      /\ \A k \in 1 .. l : body[1 + k] = all[k]
  <2>1. PICK first : first = <<line>>
    OBVIOUS
  <2>2. body = first \o all
    BY <1>1, <1>4, <2>1, Zenon DEF LineOf
  <2>3. first \in Seq(C) /\ Len(first) = 1 /\ first[1] = line
    BY <1>7, <2>1
  <2>4. Extends(first \o all, first, all) /\ first \o all \in Seq(C)
    BY <1>7, <2>3, ConcatExtends, ConcatProperties, Zenon
  <2>5. Extends(body, first, all) /\ body \in Seq(C)
    BY <2>2, <2>4, Zenon
  <2>6. 1 \in 1 .. 1
    OBVIOUS
  <2>7. QED
    BY <1>3, <2>3, <2>5, <2>6, Zenon DEF Extends
<1>9. ASSUME NEW n \in 1 .. 1 + l
      PROVE  /\ SubSeq(body, 1, n) # <<>>
             /\ Head(SubSeq(body, 1, n)) = line
             /\ Tail(SubSeq(body, 1, n)) = SubSeq(body, 2, n)
             /\ SubSeq(body, 2, n) \in Seq(C)
             /\ Len(SubSeq(body, 2, n)) = n - 1
             /\ \A k \in 1 .. n - 1 : SubSeq(body, 2, n)[k] = all[k]
  <2>1. PICK view : view = SubSeq(body, 1, n)
    OBVIOUS
  <2>2. 1 \in 1 .. Len(body) /\ n \in 1 .. Len(body)
    BY <1>8
  <2>3. Head(view) = line /\ Tail(view) = SubSeq(body, 2, n)
    <3>1. Head(SubSeq(body, 1, n)) = body[1]
      BY <1>8, <2>2, HeadTailOfSubSeq
    <3>2. Tail(SubSeq(body, 1, n)) = SubSeq(body, 1 + 1, n)
      BY <1>8, <2>2, HeadTailOfSubSeq
    <3>3. 1 + 1 = 2
      OBVIOUS
    <3>4. QED
      BY <1>8, <2>1, <3>1, <3>2, <3>3, Zenon
  <2>4. \A k \in 1 .. Len(body) : body[k] \in C
    BY <1>8
  <2>5. /\ Len(view) = n
        /\ view \in Seq(C)
    <3>1. \A k \in 1 .. n : body[k] \in C
      BY <2>2, <2>4, <1>8
    <3>2. 1 \in Int /\ n \in Int /\ 1 <= n /\ n - 1 + 1 = n
      BY <1>8
    <3>3. /\ SubSeq(body, 1, n) \in Seq(C)
          /\ Len(SubSeq(body, 1, n)) = IF 1 <= n THEN n - 1 + 1 ELSE 0
      BY <3>1, <3>2, SubSeqProperties
    <3>4. QED
      BY <2>1, <3>2, <3>3, Zenon
  <2>6. view # <<>>
    BY <2>5
  <2>7. PICK rest : rest = SubSeq(body, 2, n)
    OBVIOUS
  <2>8. /\ rest \in Seq(C)
        /\ Len(rest) = n - 1
        /\ \A k \in 1 .. n - 1 : rest[k] = body[1 + k]
    <3>1. n \in 0 .. Len(body) /\ 1 \in 0 .. n /\ 1 + 1 = 2
      BY <1>8
    <3>2. rest = SubSeq(body, 1 + 1, n)
      BY <2>7, <3>1, Zenon
    <3>3. PICK copy, one : copy = body /\ one = 1
      OBVIOUS
    <3>4. copy \in Seq(C) /\ n \in 0 .. Len(copy) /\ one \in 0 .. n
      BY <1>8, <3>1, <3>3, Zenon
    <3>5. /\ SubSeq(copy, one + 1, n) \in Seq(C)
          /\ Len(SubSeq(copy, one + 1, n)) = n - one
          /\ \A k \in 1 .. n - one : SubSeq(copy, one + 1, n)[k] = copy[one + k]
      BY <3>4, SubSeqBehind, Zenon
    <3>6. QED
      BY <3>2, <3>3, <3>5, Zenon
  <2>9. \A k \in 1 .. n - 1 : k \in 1 .. l
    OBVIOUS
  <2>10. \A k \in 1 .. n - 1 : rest[k] = all[k]
    BY <1>8, <2>8, <2>9, Zenon
  <2>11. QED
    BY <2>1, <2>3, <2>6, <2>7, <2>8, <2>10, Zenon
<1>10. /\ \A i \in DOMAIN Sizes(parts) : ~(Sizes(parts)[i] <= 0)
  <2>1. ASSUME NEW i \in 1 .. Len(parts)
        PROVE  ~(Sizes(parts)[i] <= 0)
    <3>1. Sizes(parts)[i] = Len(parts[i]) /\ Len(parts[i]) > 0
      BY SizesType
    <3>2. Len(parts[i]) \in Nat
      BY ElementOfSeq
    <3>3. QED
      BY <3>1, <3>2
  <2>2. DOMAIN Sizes(parts) = 1 .. Len(parts)
    BY SizesType
  <2>3. QED
    BY <2>1, <2>2
<1>11. ASSUME NEW view, view # <<>>, Head(view) = line
       PROVE  TryParseMultiChunk(view) =
                IF l # Len(Tail(view)) THEN {} ELSE {Cut(Sizes(parts), Tail(view))}
  <2>1. Split(Head(view)[2]) = Sizes(parts)
    BY <1>5, <1>11
  <2>2. SumOf(Sizes(parts)) = l
    BY <1>2, <1>3
  <2>3. QED
    BY <1>10, <1>11, <2>1, <2>2, Zenon DEF TryParseMultiChunk
<1>12. TryParseMultiChunk(SubSeq(body, 1, 1 + l)) = {parts}
  <2>1. 1 + l \in 1 .. 1 + l /\ 1 + l - 1 = l
    OBVIOUS
  <2>2. PICK m : m = 1 + l
    OBVIOUS
  <2>3. m \in 1 .. 1 + l /\ m - 1 = l
    BY <2>1, <2>2
  <2>4. PICK view, rest : view = SubSeq(body, 1, m) /\ rest = SubSeq(body, 2, m)
    OBVIOUS
  <2>5. view # <<>> /\ Head(view) = line /\ Tail(view) = rest
    BY <1>9, <2>3, <2>4, Zenon
  <2>6. rest \in Seq(C) /\ Len(rest) = l /\ \A k \in 1 .. l : rest[k] = all[k]
    BY <1>9, <2>3, <2>4, Zenon
  <2>7. rest = all
    BY <1>3, <1>7, <2>6, SeqEqual, Zenon
  <2>8. TryParseMultiChunk(view) = {parts}
    BY <1>2, <1>3, <1>11, <2>5, <2>7, Zenon
  <2>9. QED
    BY <2>2, <2>4, <2>8, Zenon
<1>13. TryParseMultiChunk(SubSeq(body, 1, 0)) = {<<>>}
  <2>1. SubSeq(body, 1, 0) = <<>>
    BY SubSeqEmpty
  <2>2. QED
    BY <2>1 DEF TryParseMultiChunk
<1>14. ASSUME NEW n \in 1 .. (1 + l) - 1
       PROVE  TryParseMultiChunk(SubSeq(body, 1, n)) = {}
  <2>1. n \in 1 .. 1 + l /\ l # n - 1
    OBVIOUS
  <2>2. PICK view : view = SubSeq(body, 1, n)
    OBVIOUS
  <2>3. view # <<>> /\ Head(view) = line /\ Len(Tail(view)) = n - 1
    BY <1>9, <2>1, <2>2, Zenon
  <2>4. TryParseMultiChunk(view) = {}
    BY <1>11, <2>1, <2>3, Zenon
  <2>5. QED
    BY <2>2, <2>4, Zenon
<1>15. QED
  BY <1>1, <1>3, <1>8, <1>12, <1>13, <1>14, Zenon

\* The body starts with its line: there is none without parts, and of a part of
\* it nothing is accepted.
Parses(body, parts) ==
    /\ Len(body) \in Nat
    /\ TryParseMultiChunk(SubSeq(body, 1, Len(body))) = {parts}
    /\ TryParseMultiChunk(SubSeq(body, 1, 0)) = {<<>>}
    /\ \A n \in 1 .. Len(body) - 1 : TryParseMultiChunk(SubSeq(body, 1, n)) = {}

\* What MakeMultiChunk makes, TryParseMultiChunk takes apart.
THEOREM MultiChunkParses ==
    ASSUME NEW B, NEW parts \in Seq(Seq(B)), parts # <<>>,
           \A i \in 1 .. Len(parts) : Len(parts[i]) > 0
    PROVE  Parses(MakeMultiChunk(parts), parts)
<1>1. PICK sizes : sizes = Sizes(parts)
  OBVIOUS
<1>2. sizes \in Seq(Nat) /\ Len(sizes) = Len(parts)
  BY <1>1, SizesType
<1>3. PICK pairs : pairs = [i \in DOMAIN parts |-> <<Len(parts[i]), Blank>>]
  OBVIOUS
<1>4. pairs = [i \in 1 .. Len(sizes) |-> <<sizes[i], Blank>>]
  <2>1. DOMAIN parts = 1 .. Len(sizes)
    BY <1>2
  <2>2. \A i \in 1 .. Len(sizes) : sizes[i] = Len(parts[i])
    BY <1>1, <1>2, SizesType
  <2>3. QED
    BY <1>3, <2>1, <2>2
<1>5. PICK entries : entries = FlattenSeq(pairs)
  OBVIOUS
<1>6. Split(entries) = Sizes(parts)
  BY <1>1, <1>2, <1>4, <1>5, SplitOfChunkEntries, Zenon
<1>7. PICK body : body = LineOf(entries) \o FlattenSeq(parts)
  OBVIOUS
<1>8. MakeMultiChunk(parts) = body
  BY <1>3, <1>5, <1>7, Zenon DEF MakeMultiChunk
<1>9. /\ Len(body) = 1 + Len(FlattenSeq(parts))
      /\ TryParseMultiChunk(SubSeq(body, 1, Len(body))) = {parts}
      /\ TryParseMultiChunk(SubSeq(body, 1, 0)) = {<<>>}
      /\ \A n \in 1 .. Len(body) - 1 : TryParseMultiChunk(SubSeq(body, 1, n)) = {}
  BY <1>6, <1>7, ParseOfBody, Zenon
<1>10. Len(body) \in Nat
  <2>1. FlattenSeq(parts) \in Seq(B)
    BY CutOfFlatten
  <2>2. Len(FlattenSeq(parts)) \in Nat
    BY <2>1, LenProperties
  <2>3. QED
    BY <1>9, <2>2
<1>11. QED
  BY <1>8, <1>9, <1>10, Zenon DEF Parses

\* Two parts, one behind the other.
LEMMA FlattenTwo ==
    ASSUME NEW B, NEW a \in Seq(B), NEW b \in Seq(B)
    PROVE  /\ <<a, b>> \in Seq(Seq(B))
           /\ FlattenSeq(<<a, b>>) = a \o b
<1>1. PICK parts : parts = <<a, b>>
  OBVIOUS
<1>2. parts \in Seq(Seq(B)) /\ Len(parts) = 2 /\ parts[1] = a /\ parts[2] = b
  BY <1>1
<1>3. PICK f : Concatenates(f, B, parts) /\ FlattenSeq(parts) = f[2]
  BY <1>2, FlattenDef
<1>4. 1 \in 1 .. 2 /\ 2 \in 1 .. 2 /\ 1 - 1 = 0 /\ 2 - 1 = 1
  OBVIOUS
<1>5. f[1] = <<>> \o a /\ f[2] = f[1] \o b
  BY <1>2, <1>3, <1>4, Zenon DEF Concatenates
<1>6. <<>> \o a = a
  BY ConcatEmptySeq
<1>7. QED
  BY <1>1, <1>2, <1>3, <1>5, <1>6, Zenon

\* The body of a request parses into its message and its source.
LEMMA RequestParses ==
    ASSUME NEW B, NEW json \in Seq(B), NEW zstd \in Seq(B),
           Len(json) > 0, Len(zstd) > 0
    PROVE  Parses(Request(json, zstd), <<json, zstd>>)
<1>1. PICK parts : parts = <<json, zstd>>
  OBVIOUS
<1>2. parts \in Seq(Seq(B)) /\ FlattenSeq(parts) = json \o zstd
  BY <1>1, FlattenTwo
<1>3. Len(parts) = 2 /\ parts[1] = json /\ parts[2] = zstd /\ parts # <<>>
  BY <1>1
<1>4. \A i \in 1 .. Len(parts) : Len(parts[i]) > 0
  BY <1>3
<1>5. PICK entries : entries = Sizes(parts)
  OBVIOUS
<1>6. Split(entries) = Sizes(parts)
  BY <1>2, <1>5, SizesType, SplitOfSizes
<1>7. PICK body : body = LineOf(entries) \o FlattenSeq(parts)
  OBVIOUS
<1>8. Request(json, zstd) = body
  <2>1. PICK line : line = <<"line", entries>>
    OBVIOUS
  <2>2. PICK C : C = B \cup {line}
    OBVIOUS
  <2>3. json \in Seq(C) /\ zstd \in Seq(C)
    BY <2>2, SeqMonotonic
  <2>4. PICK first : first = <<line>>
    OBVIOUS
  <2>7. line \in C
    BY <2>2
  <2>8. first \in Seq(C)
    BY <2>4, <2>7
  <2>5. (first \o json) \o zstd = first \o (json \o zstd)
    BY <2>3, <2>8, ConcatAssociative
  <2>6. QED
    BY <1>1, <1>2, <1>5, <1>7, <2>1, <2>4, <2>5, Zenon
       DEF Request, MakeMultiChunkHeaderLine, LineOf
<1>9. /\ Len(body) = 1 + Len(FlattenSeq(parts))
      /\ TryParseMultiChunk(SubSeq(body, 1, Len(body))) = {parts}
      /\ TryParseMultiChunk(SubSeq(body, 1, 0)) = {<<>>}
      /\ \A n \in 1 .. Len(body) - 1 : TryParseMultiChunk(SubSeq(body, 1, n)) = {}
  BY <1>2, <1>3, <1>4, <1>6, <1>7, ParseOfBody, Zenon
<1>10. Len(body) \in Nat
  <2>1. FlattenSeq(parts) \in Seq(B)
    BY <1>2, CutOfFlatten
  <2>2. Len(FlattenSeq(parts)) \in Nat
    BY <2>1, LenProperties
  <2>3. QED
    BY <1>9, <2>2
<1>11. QED
  BY <1>1, <1>8, <1>9, <1>10, Zenon DEF Parses

-----------------------------------------------------------------------------
(***************************************************************************)
(* Packed files and frames.                                                *)
(***************************************************************************)

\* A first block and what follows it.
LEMMA OneAndRest ==
    ASSUME NEW C, NEW first \in C, NEW rest \in Seq(C)
    PROVE  /\ <<first>> \o rest \in Seq(C)
           /\ <<first>> \o rest # <<>>
           /\ Len(<<first>> \o rest) = 1 + Len(rest)
           /\ (<<first>> \o rest)[1] = first
           /\ Head(<<first>> \o rest) = first
           /\ Tail(<<first>> \o rest) = rest
<1>1. PICK one : one = <<first>>
  OBVIOUS
<1>2. one \in Seq(C) /\ Len(one) = 1 /\ one[1] = first
  BY <1>1
<1>3. PICK s : s = one \o rest
  OBVIOUS
<1>4. s \in Seq(C) /\ Extends(s, one, rest)
  BY <1>2, <1>3, ConcatProperties, ConcatExtends, Zenon
<1>5. PICK l \in Nat : l = Len(rest)
  OBVIOUS
<1>6. Len(s) = 1 + l /\ s[1] = first /\ \A k \in 1 .. l : s[1 + k] = rest[k]
  <2>1. 1 \in 1 .. 1
    OBVIOUS
  <2>2. QED
    BY <1>2, <1>4, <1>5, <2>1, Zenon DEF Extends
<1>7. s # <<>>
  BY <1>6
<1>8. Head(s) = first
  BY <1>6
<1>9. /\ Tail(s) \in Seq(C)
      /\ Len(Tail(s)) = Len(s) - 1
      /\ \A k \in 1 .. Len(Tail(s)) : Tail(s)[k] = s[k + 1]
  BY <1>4, <1>7, HeadTailProperties
<1>10. PICK t \in Seq(C) : t = Tail(s)
  BY <1>9
<1>11. Len(t) = l
  BY <1>6, <1>9, <1>10
<1>12. \A k \in 1 .. l : t[k] = rest[k]
  <2>1. \A k \in 1 .. l : k + 1 = 1 + k
    OBVIOUS
  <2>2. QED
    BY <1>6, <1>9, <1>10, <1>11, <2>1, Zenon
<1>13. t = rest
  BY <1>5, <1>11, <1>12, SeqEqual, Zenon
<1>14. QED
  BY <1>1, <1>3, <1>4, <1>5, <1>6, <1>7, <1>8, <1>10, <1>13, Zenon

\* Sequences of one element, one after the other, are a sequence.
LEMMA FlattenOfOnes ==
    ASSUME NEW B, NEW s \in Seq(B), NEW ones,
           ones = [i \in 1 .. Len(s) |-> <<s[i]>>]
    PROVE  FlattenSeq(ones) = s
<1>1. PICK n \in Nat : n = Len(s)
  OBVIOUS
<1>2. \A i \in 1 .. n : s[i] \in B
  BY <1>1
<1>3. \A i \in 1 .. n : <<s[i]>> \in Seq(B) /\ Len(<<s[i]>>) = 1 /\ <<s[i]>>[1] = s[i]
  BY <1>2
<1>4. ones \in Seq(Seq(B)) /\ Len(ones) = n /\ \A i \in 1 .. n : ones[i] = <<s[i]>>
  <2>1. ones \in [1 .. n -> Seq(B)]
    BY <1>1, <1>3
  <2>2. QED
    BY <1>1, <2>1
<1>5. PICK f : Concatenates(f, B, ones) /\ FlattenSeq(ones) = f[n]
  BY <1>4, FlattenDef
<1>6. ASSUME NEW i \in 1 .. n
      PROVE  /\ f[i - 1] \in Seq(B) /\ f[i] \in Seq(B)
             /\ Len(f[i]) = Len(f[i - 1]) + 1
             /\ f[i][Len(f[i - 1]) + 1] = s[i]
  <2>1. i \in 1 .. Len(ones) /\ 1 \in 1 .. 1
    BY <1>4
  <2>2. /\ f[i - 1] \in Seq(B) /\ f[i] \in Seq(B)
        /\ Extends(f[i], f[i - 1], ones[i])
    BY <1>4, <1>5, <2>1, ConcatStep
  <2>3. PICK one : one = ones[i]
    OBVIOUS
  <2>4. Len(one) = 1 /\ one[1] = s[i]
    BY <1>3, <1>4, <2>3
  <2>5. Extends(f[i], f[i - 1], one)
    BY <2>2, <2>3
  <2>6. QED
    BY <2>1, <2>2, <2>4, <2>5, Zenon DEF Extends
<1> DEFINE S == {i \in 0 .. n : Len(f[i]) = i}
<1>7. \A i \in 0 .. n : i \in S
  <2>1. 0 \in S
    <3>1. f[0] = <<>>
      BY <1>5, Zenon DEF Concatenates
    <3>2. QED
      BY <3>1
  <2>2. ASSUME NEW i \in 1 .. n, i - 1 \in S
        PROVE  i \in S
    <3>1. Len(f[i]) = Len(f[i - 1]) + 1 /\ Len(f[i - 1]) = i - 1 /\ i \in 0 .. n
      BY <1>6, <2>2
    <3>2. QED
      BY <3>1
  <2> HIDE DEF S
  <2>3. QED
    BY <2>1, <2>2, UpTo
<1>8. f[n] \in Seq(B) /\ Len(f[n]) = n
  <2>1. f \in [0 .. n -> Seq(B)]
    BY <1>4, <1>5, Zenon DEF Concatenates
  <2>2. n \in 0 .. n
    OBVIOUS
  <2>3. QED
    BY <1>7, <2>1, <2>2
<1>9. ASSUME NEW i \in 1 .. n
      PROVE  f[n][i] = s[i]
  <2>1. Len(f[i]) = i /\ Len(f[i - 1]) = i - 1
    BY <1>7
  <2>2. Len(f[i - 1]) + 1 = i
    BY <2>1
  <2>3. f[i][i] = s[i]
    BY <1>6, <2>2, Zenon
  <2>4. i \in 1 .. i
    OBVIOUS
  <2>5. i \in 0 .. Len(ones) /\ n \in i .. Len(ones)
    BY <1>4
  <2>6. Begins(f[n], f[i])
    BY <1>4, <1>5, <2>5, ShorterIsPrefix
  <2>7. QED
    BY <2>1, <2>3, <2>4, <2>6, Zenon DEF Begins
<1>10. PICK t \in Seq(B) : t = f[n]
  BY <1>8
<1>11. t = s
  BY <1>1, <1>8, <1>9, <1>10, SeqEqual, Zenon
<1>12. QED
  BY <1>5, <1>10, <1>11, Zenon

\* The line of suffixes keeps those that are plain.
LEMMA SplitOfPlain ==
    ASSUME NEW suffixes \in Seq(STRING),
           \A i \in 1 .. Len(suffixes) : Plain(suffixes[i])
    PROVE  SplitSuffixes(suffixes) = suffixes
<1>1. PICK ones : ones = [i \in DOMAIN suffixes |-> Parts[suffixes[i]]]
  OBVIOUS
<1>2. DOMAIN suffixes = 1 .. Len(suffixes)
  OBVIOUS
<1>3. ones = [i \in 1 .. Len(suffixes) |-> <<suffixes[i]>>]
  BY <1>1, <1>2, Zenon DEF Plain
<1>4. FlattenSeq(ones) = suffixes
  BY <1>3, FlattenOfOnes
<1>5. QED
  BY <1>1, <1>4, Zenon DEF SplitSuffixes

\* Files with their suffixes and contents.
FilesOver(B) == [suffix : STRING, content : Seq(B)]

\* The first block of a pack.
HeadBlock == {"head"} \X Nat \X Seq(STRING) \X Seq(Nat)

\* What a pack yields when its suffix line splits into these suffixes: with as
\* many of them as files, these suffixes and the files' contents, and otherwise
\* nothing.
UnpackedWith(files, suffixes) ==
    IF Len(suffixes) # Len(files) THEN {}
    ELSE {[i \in 1 .. Len(files) |->
             [suffix |-> suffixes[i], content |-> files[i].content]]}

\* What TryUnpackFiles finds in a pack.
LEMMA UnpackWithSuffixes ==
    ASSUME NEW B, NEW files \in Seq(FilesOver(B)), files # <<>>,
           NEW suffixes, suffixes = SplitSuffixes(Extensions(files))
    PROVE  /\ PackFiles(files) \in Seq(B \cup HeadBlock)
           /\ PackFiles(files) # <<>>
           /\ TryUnpackFiles(PackFiles(files)) = UnpackedWith(files, suffixes)
<1>1. PICK n \in Nat : n = Len(files)
  OBVIOUS
<1>2. /\ DOMAIN files = 1 .. n
      /\ \A i \in 1 .. n : files[i] \in FilesOver(B)
  BY <1>1
<1>3. \A i \in 1 .. n : /\ files[i].content \in Seq(B)
                        /\ files[i] = [suffix |-> files[i].suffix,
                                       content |-> files[i].content]
  BY <1>2 DEF FilesOver
<1>4. PICK contents : contents = Contents(files)
  OBVIOUS
<1>5. contents = [i \in 1 .. n |-> files[i].content]
  BY <1>2, <1>4 DEF Contents
<1>6. contents \in Seq(Seq(B)) /\ Len(contents) = n /\ DOMAIN contents = 1 .. n
  <2>1. contents \in [1 .. n -> Seq(B)]
    BY <1>3, <1>5
  <2>2. QED
    BY <2>1
<1>7. PICK sizes, all, exts :
        /\ sizes = Sizes(contents) /\ all = FlattenSeq(contents)
        /\ exts = Extensions(files)
  OBVIOUS
<1>8. exts = [i \in 1 .. n |-> files[i].suffix] /\ Len(exts) = n
  BY <1>2, <1>7 DEF Extensions
<1>9. all \in Seq(B) /\ Cut(sizes, all) = contents
  BY <1>6, <1>7, CutOfFlatten
<1>10. Len(sizes) = n
  BY <1>6, <1>7, SizesType
<1>11. PICK head : head = <<"head", Len(all), exts, sizes>>
  OBVIOUS
<1>12. head[2] = Len(all) /\ head[3] = exts /\ head[4] = sizes
  BY <1>11
<1>13. PICK C : C = B \cup HeadBlock
  OBVIOUS
<1>14. head \in C /\ all \in Seq(C)
  <2>1. Len(all) \in Nat /\ sizes \in Seq(Nat)
    BY <1>6, <1>7, <1>9, SizesType, LenProperties
  <2>2. exts \in Seq(STRING)
    <3>1. \A i \in 1 .. n : files[i].suffix \in STRING
      BY <1>2 DEF FilesOver
    <3>2. exts \in [1 .. n -> STRING]
      BY <1>8, <3>1
    <3>3. QED
      BY <3>2
  <2>3. head \in HeadBlock
    BY <1>11, <2>1, <2>2 DEF HeadBlock
  <2>4. QED
    BY <1>9, <1>13, <2>3, SeqMonotonic
<1>15. PICK packed : packed = <<head>> \o all
  OBVIOUS
<1>16. PackFiles(files) = packed
  BY <1>4, <1>7, <1>11, <1>15, Zenon DEF PackFiles
<1>17. /\ packed \in Seq(C) /\ packed # <<>>
       /\ Len(packed) = 1 + Len(all)
       /\ Head(packed) = head /\ Tail(packed) = all
  BY <1>14, <1>15, OneAndRest, Zenon
<1>18. Len(packed) - 1 = Len(all)
  <2>1. Len(all) \in Nat
    BY <1>9
  <2>2. QED
    BY <1>17, <2>1
<1>19. [i \in DOMAIN contents |-> [suffix |-> suffixes[i], content |-> contents[i]]] =
         [i \in 1 .. n |-> [suffix |-> suffixes[i], content |-> files[i].content]]
  BY <1>5, <1>6, Zenon
<1>20. TryUnpackFiles(packed) =
         IF Len(suffixes) # n THEN {}
         ELSE {[i \in 1 .. n |-> [suffix |-> suffixes[i], content |-> files[i].content]]}
  <2>1. SplitSuffixes(head[3]) = suffixes
    BY <1>7, <1>12, Zenon
  <2>2. QED
    BY <1>9, <1>10, <1>12, <1>17, <1>18, <1>19, <2>1, Zenon DEF TryUnpackFiles
<1>21. QED
  BY <1>1, <1>13, <1>16, <1>17, <1>20, Zenon DEF UnpackedWith

\* What PackFiles packs, TryUnpackFiles unpacks, as long as no suffix is empty or
\* has a comma in it.
THEOREM UnpackOfPack ==
    ASSUME NEW B, NEW files \in Seq(FilesOver(B)), files # <<>>,
           \A i \in 1 .. Len(files) : Plain(files[i].suffix)
    PROVE  /\ PackFiles(files) \in Seq(B \cup HeadBlock)
           /\ PackFiles(files) # <<>>
           /\ TryUnpackFiles(PackFiles(files)) = {files}
<1>1. PICK n \in Nat : n = Len(files)
  OBVIOUS
<1>2. /\ DOMAIN files = 1 .. n
      /\ \A i \in 1 .. n : files[i] \in FilesOver(B)
  BY <1>1
<1>3. \A i \in 1 .. n : files[i].suffix \in STRING
                      /\ files[i] = [suffix |-> files[i].suffix,
                                     content |-> files[i].content]
  BY <1>2 DEF FilesOver
<1>4. PICK exts : exts = Extensions(files)
  OBVIOUS
<1>5. exts = [i \in 1 .. n |-> files[i].suffix]
  BY <1>2, <1>4 DEF Extensions
<1>6. exts \in Seq(STRING) /\ Len(exts) = n /\ \A i \in 1 .. n : exts[i] = files[i].suffix
  <2>1. exts \in [1 .. n -> STRING]
    BY <1>3, <1>5
  <2>2. QED
    BY <1>5, <2>1
<1>7. SplitSuffixes(exts) = exts
  <2>1. \A i \in 1 .. Len(exts) : Plain(exts[i])
    BY <1>1, <1>6, Zenon
  <2>2. QED
    BY <1>6, <2>1, SplitOfPlain
<1>8. files = [i \in 1 .. n |-> [suffix |-> exts[i], content |-> files[i].content]]
  <2>1. files = [i \in 1 .. n |-> files[i]]
    BY <1>1
  <2>2. \A i \in 1 .. n :
          files[i] = [suffix |-> exts[i], content |-> files[i].content]
    BY <1>3, <1>6, Zenon
  <2>3. QED
    BY <2>1, <2>2, Zenon
<1>9. /\ PackFiles(files) \in Seq(B \cup HeadBlock)
      /\ PackFiles(files) # <<>>
      /\ TryUnpackFiles(PackFiles(files)) = UnpackedWith(files, exts)
  <2>1. exts = SplitSuffixes(Extensions(files))
    BY <1>4, <1>7, Zenon
  <2>2. files \in Seq(FilesOver(B)) /\ files # <<>>
    OBVIOUS
  <2>3. QED
    BY <2>1, <2>2, UnpackWithSuffixes, Zenon
<1>10. QED
  BY <1>1, <1>6, <1>8, <1>9, Zenon DEF UnpackedWith

\* A frame decompresses to its content.
LEMMA DecompressOfCompress ==
    ASSUME NEW B, NEW s \in Seq(B)
    PROVE  /\ ZSTDCompress(s) \in Seq(B \cup {EndMark})
           /\ Len(ZSTDCompress(s)) = Len(s) + 1
           /\ ZSTDDecompress(ZSTDCompress(s)) = {s}
<1>1. PICK C : C = B \cup {EndMark}
  OBVIOUS
<1>2. s \in Seq(C) /\ EndMark \in C
  BY <1>1, SeqMonotonic
<1>3. PICK mark \in C : mark = EndMark
  BY <1>2
<1>4. PICK z : z = Append(s, mark)
  OBVIOUS
<1>5. /\ z \in Seq(C) /\ z # <<>> /\ Len(z) = Len(s) + 1
      /\ \A i \in 1 .. Len(s) : z[i] = s[i]
      /\ z[Len(s) + 1] = mark
  BY <1>2, <1>4, AppendProperties, Zenon
<1>6. Last(z) = EndMark
  BY <1>3, <1>5, Zenon DEF Last
<1>7. PICK l \in Nat : l = Len(s)
  OBVIOUS
<1>8. l \in 0 .. Len(z) /\ Len(z) - 1 = l
  BY <1>5, <1>7
<1>9. PICK t : t = SubSeq(z, 1, l)
  OBVIOUS
<1>10. t \in Seq(C) /\ Len(t) = l /\ \A k \in 1 .. l : t[k] = z[k]
  BY <1>5, <1>8, <1>9, FirstBlocks, Zenon
<1>11. \A k \in 1 .. l : t[k] = s[k]
  BY <1>5, <1>7, <1>10, Zenon
<1>12. t = s
  BY <1>2, <1>7, <1>10, <1>11, SeqEqual, Zenon
<1>13. Front(z) = s
  BY <1>8, <1>9, <1>12, Zenon DEF Front
<1>14. ZSTDDecompress(z) = {s}
  BY <1>5, <1>6, <1>13, Zenon DEF ZSTDDecompress
<1>15. QED
  BY <1>1, <1>3, <1>4, <1>5, <1>14, Zenon DEF ZSTDCompress

\* The first blocks of a frame of marked text are an error, but for no block.
LEMMA DecompressOfPart ==
    ASSUME NEW B, EndMark \notin B, NEW s \in Seq(B), NEW n \in 0 .. Len(s)
    PROVE  ZSTDDecompress(SubSeq(ZSTDCompress(s), 1, n)) =
             IF n = 0 THEN {<<>>} ELSE {}
<1>1. PICK z : z = ZSTDCompress(s)
  OBVIOUS
<1>2. PICK C : C = B \cup {EndMark}
  OBVIOUS
<1>3. s \in Seq(C) /\ EndMark \in C
  BY <1>2, SeqMonotonic
<1>4. z \in Seq(C) /\ Len(z) = Len(s) + 1 /\ \A i \in 1 .. Len(s) : z[i] = s[i]
  BY <1>1, <1>3, AppendProperties DEF ZSTDCompress
<1>5. CASE n = 0
  <2>1. SubSeq(z, 1, n) = <<>>
    BY <1>5, SubSeqEmpty
  <2>2. QED
    BY <1>1, <1>5, <2>1 DEF ZSTDDecompress
<1>6. CASE n # 0
  <2>1. n \in 0 .. Len(z)
    BY <1>4
  <2>2. PICK t : t = SubSeq(z, 1, n)
    OBVIOUS
  <2>3. t \in Seq(C) /\ Len(t) = n /\ \A k \in 1 .. n : t[k] = z[k]
    BY <1>4, <2>1, <2>2, FirstBlocks, Zenon
  <2>4. n \in 1 .. n /\ n \in 1 .. Len(s)
    BY <1>6
  <2>5. t[n] = s[n]
    BY <1>4, <2>3, <2>4, Zenon
  <2>6. s[n] \in B
    BY <2>4
  <2>7. Last(t) # EndMark
    BY <2>3, <2>5, <2>6, Zenon DEF Last
  <2>8. t # <<>>
    BY <1>6, <2>3
  <2>9. ZSTDDecompress(t) = {}
    BY <2>7, <2>8, Zenon DEF ZSTDDecompress
  <2>10. QED
    BY <1>1, <1>6, <2>2, <2>9, Zenon
<1>7. QED
  BY <1>5, <1>6

-----------------------------------------------------------------------------
(***************************************************************************)
(* The inductive invariant.  Its parts about the daemon's task x and the   *)
(* servant's task v have the text the preprocessor has written and the     *)
(* flag of its attempt as parameters.                                      *)
(***************************************************************************)

Flags == BOOLEAN

\* The blocks of texts, of frames, objects and requests, and of packs.
TextBlock == {<<"text", a, i>> : a \in 1 .. 2, i \in Nat}
Block ==
    TextBlock \cup {EndMark} \cup (STRING \X Flags) \cup ({"json"} \X Flags)
PackBlock == Block \cup HeadBlock

\* The files of a product, as CompilerSucceeds packs them.
FilesFor(product, directives_only, source) ==
    [i \in DOMAIN product |->
       [suffix |-> product[i],
        content |-> ZSTDCompress(Compiled(product[i], directives_only, source))]]

\* The sequences a task holds, and how it can end.
BlockSeq == Seq(Block)
PackSeq == Seq(PackBlock)
FilesSeq == Seq(FilesOver(Block))
Exits == {-1, 0, 1}

Tasks ==
    [stage : {"none", "queued", "sending", "sent", "waiting", "reading", "done"},
     directives_only : Flags, source : BlockSeq, sent : Nat,
     retries : 1 .. Retries, file : PackSeq, exit : Exits, outputs : FilesSeq]

CompileTasks ==
    [stage : {"none", "receiving", "received", "refused", "prepared", "compiled"},
     directives_only : Flags, file : BlockSeq, source : BlockSeq,
     exit : {0, 1}, pack : PackSeq, sent : Nat]

\* The first sent blocks of a file, or all there are.
SentOf(file, sent) == SubSeq(file, 1, Min({sent, Len(file)}))

\* What the daemon sends is the frame of all that was written.
Submitted(x, text, flag) ==
    /\ x.stage # "none" => x.directives_only = flag
    /\ x.stage \in {"queued", "sending"} => x.source = ZSTDCompress(text)
    /\ x.stage = "queued" => x.sent = 0

\* How far the daemon and the servant are, together.
Stages(x, v) ==
    /\ x.stage \in {"none", "queued"} => v.stage = "none"
    /\ x.stage = "sending" <=> v.stage = "receiving"
    /\ x.stage = "sent" => v.stage \in {"received", "refused", "prepared", "compiled"}
    /\ x.stage = "waiting" => v.stage \in {"prepared", "compiled"}
    /\ x.stage = "reading" => v.stage = "compiled"

\* What the servant has of the frame, and what it compiles.
Sources(x, v, text, flag) ==
    /\ v.stage # "none" => v.directives_only = flag
    /\ v.stage = "receiving" => v.file = SentOf(ZSTDCompress(text), x.sent)
    /\ v.stage = "received" =>
         \E n \in 0 .. Len(text) + 1 :
           /\ v.file = SubSeq(ZSTDCompress(text), 1, n)
           /\ x.stage = "sent" => n = Len(text) + 1
    /\ v.stage \in {"prepared", "compiled"} =>
         /\ v.source \in {<<>>, text}
         /\ x.stage \in {"sent", "waiting", "reading"} => v.source = text

\* What the servant has packed and the daemon has of it.
Packs(x, v, flag) ==
    /\ v.stage # "compiled" => v.exit = 0
    /\ v.stage # "compiled" \/ v.exit # 0 => v.pack = <<>>
    /\ v.stage = "compiled" /\ v.exit = 0 =>
         \E product \in Products : v.pack = PackFiles(FilesFor(product, flag, v.source))
    /\ x.stage = "reading" => x.file = SentOf(v.pack, v.sent)

\* What the daemon has for the client.
Outputs(x, text, flag) ==
    /\ x.stage # "done" \/ x.exit # 0 => x.outputs = <<>>
    /\ x.stage = "done" /\ x.exit = 0 =>
         \E product \in Products :
           product # <<>> /\ x.outputs = FilesFor(product, flag, text)

ServerInv(x, v, text, flag) ==
    /\ x \in Tasks
    /\ v \in CompileTasks
    /\ Submitted(x, text, flag)
    /\ Stages(x, v)
    /\ Sources(x, v, text, flag)
    /\ Packs(x, v, flag)
    /\ Outputs(x, text, flag)

-----------------------------------------------------------------------------
(***************************************************************************)
(* Blocks and files.                                                       *)
(***************************************************************************)

\* No block of a text ends a frame.
LEMMA TextHasNoEnd == EndMark \notin TextBlock
<1>1. ASSUME NEW a \in 1 .. 2, NEW i \in Nat, EndMark = <<"text", a, i>>
      PROVE  FALSE
  <2>1. EndMark[1] = "end"
    BY DEF EndMark
  <2>2. EndMark[1] = "text"
    BY <1>1
  <2>3. QED
    BY <2>1, <2>2
<1>2. QED
  BY <1>1 DEF TextBlock

\* Texts and frames of texts are sequences of blocks.
LEMMA TextAndFrame ==
    ASSUME NEW text \in Seq(TextBlock)
    PROVE  /\ text \in Seq(Block)
           /\ ZSTDCompress(text) \in Seq(Block)
           /\ Len(ZSTDCompress(text)) = Len(text) + 1
           /\ ZSTDDecompress(ZSTDCompress(text)) = {text}
<1>1. TextBlock \subseteq Block /\ TextBlock \cup {EndMark} \subseteq Block
  BY DEF Block
<1>2. text \in Seq(Block)
  BY <1>1, SeqMonotonic
<1>3. /\ ZSTDCompress(text) \in Seq(TextBlock \cup {EndMark})
      /\ Len(ZSTDCompress(text)) = Len(text) + 1
      /\ ZSTDDecompress(ZSTDCompress(text)) = {text}
  BY DecompressOfCompress
<1>4. ZSTDCompress(text) \in Seq(Block)
  <2>1. PICK C : C = TextBlock \cup {EndMark}
    OBVIOUS
  <2>2. QED
    BY <1>1, <1>3, <2>1, SeqMonotonic
<1>5. QED
  BY <1>2, <1>3, <1>4

\* An object is a frame of what the compiler makes.
LEMMA ObjectFrame ==
    ASSUME NEW suffix \in STRING, NEW flag \in Flags, NEW source \in Seq(Block)
    PROVE  /\ ZSTDCompress(Compiled(suffix, flag, source)) \in Seq(Block)
           /\ Len(ZSTDCompress(Compiled(suffix, flag, source))) > 0
           /\ ZSTDDecompress(ZSTDCompress(Compiled(suffix, flag, source))) =
                {Compiled(suffix, flag, source)}
<1>1. PICK first : first = <<suffix, flag>>
  OBVIOUS
<1>2. first \in Block
  <2>1. first \in STRING \X Flags
    BY <1>1
  <2>2. QED
    BY <2>1 DEF Block
<1>3. PICK s : s = Compiled(suffix, flag, source)
  OBVIOUS
<1>4. s \in Seq(Block)
  BY <1>1, <1>2, <1>3, OneAndRest, Zenon DEF Compiled
<1>5. /\ ZSTDCompress(s) \in Seq(Block \cup {EndMark})
      /\ Len(ZSTDCompress(s)) = Len(s) + 1
      /\ ZSTDDecompress(ZSTDCompress(s)) = {s}
  BY <1>4, DecompressOfCompress
<1>6. Block \cup {EndMark} = Block
  BY DEF Block
<1>7. Len(s) \in Nat
  BY <1>4
<1>8. Len(ZSTDCompress(s)) > 0
  BY <1>5, <1>7
<1>9. QED
  BY <1>3, <1>5, <1>6, <1>8, Zenon

\* The files of a product.
LEMMA FilesForType ==
    ASSUME NEW product \in Products, NEW flag \in Flags, NEW source \in Seq(Block)
    PROVE  /\ product \in Seq(STRING)
           /\ FilesFor(product, flag, source) \in Seq(FilesOver(Block))
           /\ Len(FilesFor(product, flag, source)) = Len(product)
           /\ FilesFor(product, flag, source) = <<>> <=> product = <<>>
<1>1. product \in Seq(STRING)
  BY ProductsAssumption
<1>2. PICK n \in Nat : n = Len(product) /\ DOMAIN product = 1 .. n
  BY <1>1
<1>3. \A i \in 1 .. n : product[i] \in STRING
  BY <1>1, <1>2
<1>4. PICK files : files = FilesFor(product, flag, source)
  OBVIOUS
<1>5. DOMAIN files = 1 .. n
  BY <1>2, <1>4 DEF FilesFor
<1>6. ASSUME NEW i \in 1 .. n
      PROVE  files[i] \in FilesOver(Block)
  <2>1. PICK c : c = ZSTDCompress(Compiled(product[i], flag, source))
    OBVIOUS
  <2>2. c \in Seq(Block)
    BY <1>3, <2>1, ObjectFrame
  <2>3. files[i] = [suffix |-> product[i], content |-> c]
    BY <1>2, <1>4, <2>1, Zenon DEF FilesFor
  <2>4. QED
    BY <1>3, <2>2, <2>3 DEF FilesOver
<1>7. files = [i \in 1 .. n |-> files[i]]
  BY <1>2, <1>4, Zenon DEF FilesFor
<1>8. files \in [1 .. n -> FilesOver(Block)]
  BY <1>6, <1>7, Zenon
<1>9. files \in Seq(FilesOver(Block)) /\ Len(files) = n
  BY <1>8
<1>10. files = <<>> <=> n = 0
  BY <1>9, EmptySeq
<1>11. product = <<>> <=> n = 0
  BY <1>1, <1>2, EmptySeq
<1>12. QED
  BY <1>1, <1>2, <1>4, <1>9, <1>10, <1>11, Zenon

\* A pack of a product's files.
LEMMA PackOfProduct ==
    ASSUME NEW product \in Products, NEW flag \in Flags, NEW source \in Seq(Block),
           NEW pack, pack = PackFiles(FilesFor(product, flag, source))
    PROVE  /\ pack \in Seq(PackBlock)
           /\ product = <<>> => pack = <<>>
           /\ product # <<>> =>
                /\ pack # <<>>
                /\ TryUnpackFiles(pack) \subseteq {FilesFor(product, flag, source)}
<1>1. PICK files : files = FilesFor(product, flag, source)
  OBVIOUS
<1>2. /\ files \in Seq(FilesOver(Block)) /\ (files = <<>> <=> product = <<>>)
      /\ Len(files) = Len(product) /\ product \in Seq(STRING)
  BY <1>1, FilesForType
<1>3. CASE product = <<>>
  <2>1. pack = <<>>
    BY <1>1, <1>2, <1>3, Zenon DEF PackFiles
  <2>2. <<>> \in Seq(PackBlock)
    BY EmptySeq
  <2>3. QED
    BY <1>3, <2>1, <2>2
<1>4. CASE product # <<>>
  <2>1. /\ PackFiles(files) \in Seq(Block \cup HeadBlock)
        /\ PackFiles(files) # <<>>
        /\ TryUnpackFiles(PackFiles(files)) =
             UnpackedWith(files, SplitSuffixes(Extensions(files)))
    BY <1>2, <1>4, UnpackWithSuffixes
  <2>2. DOMAIN product = 1 .. Len(product) /\ DOMAIN files = 1 .. Len(product)
    BY <1>2
  <2>3. \A i \in 1 .. Len(product) : files[i].suffix = product[i]
    <3>1. \A i \in 1 .. Len(product) :
            files[i] = [suffix |-> product[i],
                        content |-> ZSTDCompress(Compiled(product[i], flag, source))]
      BY <1>1, <2>2, Zenon DEF FilesFor
    <3>2. SUFFICES ASSUME NEW i \in 1 .. Len(product)
                   PROVE  files[i].suffix = product[i]
      OBVIOUS
    <3>3. PICK content : files[i] = [suffix |-> product[i], content |-> content]
      BY <3>1, Zenon
    <3>4. QED
      BY <3>3
  <2>4. Extensions(files) = product
    <3>1. Extensions(files) = [i \in 1 .. Len(product) |-> product[i]]
      BY <2>2, <2>3, Zenon DEF Extensions
    <3>2. product = [i \in 1 .. Len(product) |-> product[i]]
      BY <1>2
    <3>3. QED
      BY <3>1, <3>2, Zenon
  <2>5. CASE Len(SplitSuffixes(product)) # Len(product)
    BY <1>1, <1>2, <1>4, <2>1, <2>4, <2>5, Zenon DEF PackBlock, UnpackedWith
  <2>6. CASE Len(SplitSuffixes(product)) = Len(product)
    <3>1. \A i \in 1 .. Len(files) : Plain(files[i].suffix)
      BY <1>2, <2>2, <2>3, <2>6, ProductsAssumption, Zenon
    <3>2. /\ PackFiles(files) \in Seq(Block \cup HeadBlock)
          /\ PackFiles(files) # <<>>
          /\ TryUnpackFiles(PackFiles(files)) = {files}
      BY <1>2, <1>4, <3>1, UnpackOfPack
    <3>3. QED
      BY <1>1, <1>4, <3>2, Zenon DEF PackBlock
  <2>7. QED
    BY <2>5, <2>6
<1>5. QED
  BY <1>3, <1>4

\* What has been sent when nothing, or enough, has been sent.
LEMMA SentEnds ==
    ASSUME NEW C, NEW file \in Seq(C), NEW sent \in Nat
    PROVE  /\ SentOf(file, sent) \in Seq(C)
           /\ SentOf(file, 0) = <<>>
           /\ sent >= Len(file) => SentOf(file, sent) = file
           /\ \E n \in 0 .. Len(file) : SentOf(file, sent) = SubSeq(file, 1, n)
<1>1. PICK l \in Nat : l = Len(file)
  OBVIOUS
<1>2. PICK m \in 0 .. l : /\ m = Min({sent, l}) /\ (sent >= l => m = l)
  <2>1. Min({sent, l}) = IF sent <= l THEN sent ELSE l
    BY MinOfTwo
  <2>2. QED
    BY <2>1
<1>3. SentOf(file, sent) = SubSeq(file, 1, m)
  BY <1>1, <1>2, Zenon DEF SentOf
<1>4. SubSeq(file, 1, m) \in Seq(C)
  BY <1>1, FirstBlocks, Zenon
<1>5. SentOf(file, 0) = <<>>
  <2>1. Min({0, l}) = 0
    BY MinOfTwo
  <2>2. SubSeq(file, 1, 0) = <<>>
    BY SubSeqEmpty
  <2>3. QED
    BY <1>1, <2>1, <2>2, Zenon DEF SentOf
<1>6. sent >= l => SubSeq(file, 1, m) = file
  BY <1>1, <1>2, SubSeqFull, Zenon
<1>7. QED
  BY <1>1, <1>3, <1>4, <1>5, <1>6, Zenon

\* One more chunk has been sent.
LEMMA SentOneMore ==
    ASSUME NEW C, NEW file \in Seq(C), NEW sent \in Nat, sent < Len(file)
    PROVE  /\ SentOf(file, sent) \o ChunkOf(file, sent) = SentOf(file, sent + ChunkSize)
           /\ ChunkOf(file, sent) \in Seq(C)
<1>1. PICK l \in Nat : l = Len(file)
  OBVIOUS
<1>2. ChunkSize \in Nat
  BY DataPathAssumption
<1>3. PICK m \in sent .. l : m = Min({sent + ChunkSize, l})
  <2>1. Min({sent + ChunkSize, l}) = IF sent + ChunkSize <= l THEN sent + ChunkSize ELSE l
    BY <1>2, MinOfTwo
  <2>2. QED
    BY <1>1, <1>2, <2>1
<1>4. Min({sent, l}) = sent
  BY <1>1, MinOfTwo
<1>5. SentOf(file, sent) = SubSeq(file, 1, sent)
  BY <1>1, <1>4, Zenon DEF SentOf
<1>6. ChunkOf(file, sent) = SubSeq(file, sent + 1, m)
  BY <1>1, <1>3, Zenon DEF ChunkOf, Substr
<1>7. SentOf(file, sent + ChunkSize) = SubSeq(file, 1, m)
  BY <1>1, <1>3, Zenon DEF SentOf
<1>8. 1 \in 1 .. Len(file) + 1 /\ sent \in 1 - 1 .. Len(file) /\ m \in sent .. Len(file)
  BY <1>1
<1>9. SubSeq(file, 1, sent) \o SubSeq(file, sent + 1, m) = SubSeq(file, 1, m)
  BY <1>8, ConcatAdjacentSubSeq, Zenon
<1>10. m \in 0 .. Len(file) /\ sent \in 0 .. m
  BY <1>1
<1>11. SubSeq(file, sent + 1, m) \in Seq(C)
  BY <1>10, SubSeqBehind, Zenon
<1>12. QED
  BY <1>5, <1>6, <1>7, <1>9, <1>11, Zenon

-----------------------------------------------------------------------------
(***************************************************************************)
(* The steps of the daemon and the servant.                                *)
(***************************************************************************)

\* Before a task is submitted the invariant says nothing about the text.
LEMMA ServerAnyText ==
    ASSUME NEW x, NEW v, NEW text, NEW flag, NEW text2, NEW flag2,
           ServerInv(x, v, text, flag), x.stage = "none"
    PROVE  ServerInv(x, v, text2, flag2)
<1>1. v.stage = "none"
  BY DEF ServerInv, Stages
<1>2. x \in Tasks /\ v \in CompileTasks /\ Stages(x, v)
  BY DEF ServerInv
<1>3. Submitted(x, text2, flag2)
  BY DEF Submitted
<1>4. Sources(x, v, text2, flag2)
  BY <1>1 DEF Sources
<1>5. Packs(x, v, flag2)
  BY <1>1 DEF ServerInv, Packs
<1>6. Outputs(x, text2, flag2)
  BY DEF ServerInv, Outputs
<1>7. QED
  BY <1>2, <1>3, <1>4, <1>5, <1>6 DEF ServerInv

\* SubmitCxxTask with the whole body.
LEMMA ServerSubmits ==
    ASSUME NEW x, NEW v, NEW text \in Seq(TextBlock), NEW flag,
           ServerInv(x, v, text, flag), x.stage = "none",
           NEW x1 \in Tasks, x1.stage = "queued", x1.directives_only = flag,
           x1.source = ZSTDCompress(text), x1.sent = 0, x1.exit = 0,
           x1.outputs = <<>>
    PROVE  ServerInv(x1, v, text, flag)
<1>1. v.stage = "none" /\ v \in CompileTasks
  BY DEF ServerInv, Stages
<1>2. Submitted(x1, text, flag)
  BY DEF Submitted
<1>3. Stages(x1, v)
  BY <1>1 DEF Stages
<1>4. Sources(x1, v, text, flag)
  BY <1>1 DEF Sources
<1>5. Packs(x1, v, flag)
  BY <1>1 DEF ServerInv, Packs
<1>6. Outputs(x1, text, flag)
  BY DEF Outputs
<1>7. QED
  BY <1>1, <1>2, <1>3, <1>4, <1>5, <1>6 DEF ServerInv

\* StartTask.
LEMMA ServerStarts ==
    ASSUME NEW x, NEW v, NEW text \in Seq(TextBlock), NEW flag,
           ServerInv(x, v, text, flag), x.stage = "queued",
           NEW x1 \in Tasks, x1.stage = "sending",
           x1.directives_only = x.directives_only, x1.source = x.source,
           x1.sent = x.sent, x1.exit = x.exit, x1.outputs = x.outputs,
           NEW v1 \in CompileTasks, v1.stage = "receiving",
           v1.directives_only = x.directives_only, v1.file = <<>>, v1.exit = 0,
           v1.pack = <<>>
    PROVE  ServerInv(x1, v1, text, flag)
<1>1. x.directives_only = flag /\ x.source = ZSTDCompress(text) /\ x.sent = 0
  BY DEF ServerInv, Submitted
<1>2. Submitted(x1, text, flag)
  BY <1>1 DEF Submitted
<1>3. Stages(x1, v1)
  BY DEF Stages
<1>4. Sources(x1, v1, text, flag)
  <2>1. SentOf(ZSTDCompress(text), 0) = <<>>
    BY TextAndFrame, SentEnds
  <2>2. QED
    BY <1>1, <2>1 DEF Sources
<1>5. Packs(x1, v1, flag)
  BY DEF Packs
<1>6. Outputs(x1, text, flag)
  BY DEF ServerInv, Outputs
<1>7. QED
  BY <1>2, <1>3, <1>4, <1>5, <1>6 DEF ServerInv

\* WriteChunk.
LEMMA ServerWrites ==
    ASSUME NEW x, NEW v, NEW text \in Seq(TextBlock), NEW flag,
           ServerInv(x, v, text, flag), x.stage = "sending",
           x.sent < Len(x.source),
           NEW x1 \in Tasks, x1.stage = x.stage,
           x1.directives_only = x.directives_only, x1.source = x.source,
           x1.sent = x.sent + ChunkSize, x1.exit = x.exit, x1.outputs = x.outputs,
           NEW v1 \in CompileTasks, v1.stage = v.stage,
           v1.directives_only = v.directives_only,
           v1.file = SentOf(x.source, x.sent + ChunkSize),
           v1.exit = v.exit, v1.pack = v.pack
    PROVE  ServerInv(x1, v1, text, flag)
<1>1. v.stage = "receiving"
  BY DEF ServerInv, Stages
<1>2. x.source = ZSTDCompress(text) /\ v.directives_only = flag
  BY <1>1 DEF ServerInv, Submitted, Sources
<1>3. Submitted(x1, text, flag)
  BY DEF ServerInv, Submitted
<1>4. Stages(x1, v1)
  BY DEF ServerInv, Stages
<1>5. Sources(x1, v1, text, flag)
  BY <1>1, <1>2 DEF Sources
<1>6. Packs(x1, v1, flag)
  BY <1>1 DEF ServerInv, Packs
<1>7. Outputs(x1, text, flag)
  BY DEF ServerInv, Outputs
<1>8. QED
  BY <1>3, <1>4, <1>5, <1>6, <1>7 DEF ServerInv

\* WritesDone.
LEMMA ServerHasAll ==
    ASSUME NEW x, NEW v, NEW text \in Seq(TextBlock), NEW flag,
           ServerInv(x, v, text, flag), x.stage = "sending",
           x.sent >= Len(x.source),
           NEW x1 \in Tasks, x1.stage = "sent",
           x1.directives_only = x.directives_only,
           x1.exit = x.exit, x1.outputs = x.outputs,
           NEW v1 \in CompileTasks, v1.stage = "received",
           v1.directives_only = v.directives_only, v1.file = v.file,
           v1.exit = v.exit, v1.pack = v.pack
    PROVE  ServerInv(x1, v1, text, flag)
<1>1. v.stage = "receiving"
  BY DEF ServerInv, Stages
<1>2. x.source = ZSTDCompress(text) /\ v.directives_only = flag
  BY <1>1 DEF ServerInv, Submitted, Sources
<1>3. PICK z : z = ZSTDCompress(text)
  OBVIOUS
<1>4. z \in Seq(Block) /\ Len(z) = Len(text) + 1
  BY <1>3, TextAndFrame
<1>5. v.file = SubSeq(z, 1, Len(text) + 1)
  <2>1. v.file = SentOf(z, x.sent)
    BY <1>1, <1>3 DEF ServerInv, Sources
  <2>2. x.sent \in Nat
    BY DEF ServerInv, Tasks
  <2>3. SentOf(z, x.sent) = z
    BY <1>2, <1>3, <1>4, <2>2, SentEnds
  <2>4. SubSeq(z, 1, Len(z)) = z
    BY <1>4, SubSeqFull
  <2>5. QED
    BY <1>4, <2>1, <2>3, <2>4
<1>6. Submitted(x1, text, flag)
  BY DEF ServerInv, Submitted
<1>7. Stages(x1, v1)
  BY DEF Stages
<1>8. Sources(x1, v1, text, flag)
  <2>1. Len(text) + 1 \in 0 .. Len(text) + 1
    OBVIOUS
  <2>2. v1.directives_only = flag /\ v1.file = SubSeq(z, 1, Len(text) + 1)
    BY <1>2, <1>5
  <2>3. QED
    BY <1>3, <2>1, <2>2, Zenon DEF Sources
<1>9. Packs(x1, v1, flag)
  BY <1>1 DEF ServerInv, Packs
<1>10. Outputs(x1, text, flag)
  BY DEF ServerInv, Outputs
<1>11. QED
  BY <1>6, <1>7, <1>8, <1>9, <1>10 DEF ServerInv

\* StreamBreaks.
LEMMA ServerBreaks ==
    ASSUME NEW x, NEW v, NEW text \in Seq(TextBlock), NEW flag,
           ServerInv(x, v, text, flag), x.stage \in {"sending", "sent"},
           NEW x1 \in Tasks, x1.stage = "done",
           x1.directives_only = x.directives_only, x1.exit = -1, x1.outputs = <<>>,
           NEW v1 \in CompileTasks,
           v1.stage = IF v.stage = "receiving" THEN "received" ELSE v.stage,
           v1.directives_only = v.directives_only, v1.file = v.file,
           v1.source = v.source, v1.exit = v.exit, v1.pack = v.pack
    PROVE  ServerInv(x1, v1, text, flag)
<1>1. v.stage \in {"receiving", "received", "refused", "prepared", "compiled"}
  BY DEF ServerInv, Stages
<1>2. PICK z : z = ZSTDCompress(text)
  OBVIOUS
<1>3. z \in Seq(Block) /\ Len(z) = Len(text) + 1
  BY <1>2, TextAndFrame
<1>4. ASSUME v1.stage = "received"
      PROVE  \E n \in 0 .. Len(text) + 1 : v1.file = SubSeq(z, 1, n)
  <2>1. CASE v.stage = "receiving"
    <3>1. v.file = SentOf(z, x.sent)
      BY <1>2, <2>1 DEF ServerInv, Sources
    <3>2. x.sent \in Nat
      BY DEF ServerInv, Tasks
    <3>3. \E n \in 0 .. Len(z) : SentOf(z, x.sent) = SubSeq(z, 1, n)
      BY <1>3, <3>2, SentEnds
    <3>4. QED
      BY <1>3, <3>1, <3>3
  <2>2. CASE v.stage = "received"
    BY <1>2, <2>2 DEF ServerInv, Sources
  <2>3. QED
    BY <1>4, <2>1, <2>2
<1>5. Submitted(x1, text, flag)
  BY DEF ServerInv, Submitted
<1>6. Stages(x1, v1)
  BY <1>1 DEF Stages
<1>7. Sources(x1, v1, text, flag)
  <2>1. v1.directives_only = flag
    BY <1>1 DEF ServerInv, Sources
  <2>2. v1.stage \in {"prepared", "compiled"} => v1.source \in {<<>>, text}
    BY <1>1 DEF ServerInv, Sources
  <2>3. v1.stage # "receiving" /\ x1.stage \notin {"sent", "waiting", "reading"}
    BY <1>1
  <2>4. QED
    BY <1>2, <1>4, <2>1, <2>2, <2>3 DEF Sources
<1>8. Packs(x1, v1, flag)
  BY <1>1 DEF ServerInv, Packs
<1>9. Outputs(x1, text, flag)
  BY DEF Outputs
<1>10. QED
  BY <1>5, <1>6, <1>7, <1>8, <1>9 DEF ServerInv

\* A task ends with no output: it was refused, lost or unreadable, or the
\* compiler has failed.
LEMMA ServerFails ==
    ASSUME NEW x, NEW v, NEW text, NEW flag,
           ServerInv(x, v, text, flag), x.stage \in {"sent", "waiting", "reading"},
           NEW x1 \in Tasks, x1.stage = "done",
           x1.directives_only = x.directives_only, x1.exit # 0, x1.outputs = <<>>
    PROVE  ServerInv(x1, v, text, flag)
<1>1. v.stage \in {"received", "refused", "prepared", "compiled"} /\ v \in CompileTasks
  BY DEF ServerInv, Stages
<1>2. Submitted(x1, text, flag)
  BY DEF ServerInv, Submitted
<1>3. Stages(x1, v)
  BY <1>1 DEF Stages
<1>4. Sources(x1, v, text, flag)
  <2>1. v.directives_only = flag
    BY <1>1 DEF ServerInv, Sources
  <2>2. v.stage = "received" =>
          \E n \in 0 .. Len(text) + 1 : v.file = SubSeq(ZSTDCompress(text), 1, n)
    BY DEF ServerInv, Sources
  <2>3. v.stage \in {"prepared", "compiled"} => v.source \in {<<>>, text}
    BY DEF ServerInv, Sources
  <2>4. QED
    BY <1>1, <2>1, <2>2, <2>3 DEF Sources
<1>5. Packs(x1, v, flag)
  BY DEF ServerInv, Packs
<1>6. Outputs(x1, text, flag)
  BY DEF Outputs
<1>7. QED
  BY <1>1, <1>2, <1>3, <1>4, <1>5, <1>6 DEF ServerInv

\* The daemon has the servant's task and waits for it, again.
LEMMA ServerWaits ==
    ASSUME NEW x, NEW v, NEW text, NEW flag,
           ServerInv(x, v, text, flag), x.stage \in {"sent", "waiting", "reading"},
           v.stage \in {"prepared", "compiled"},
           NEW x1 \in Tasks, x1.stage = "waiting",
           x1.directives_only = x.directives_only, x1.outputs = x.outputs
    PROVE  ServerInv(x1, v, text, flag)
<1>1. v \in CompileTasks
  BY DEF ServerInv
<1>2. Submitted(x1, text, flag)
  BY DEF ServerInv, Submitted
<1>3. Stages(x1, v)
  BY DEF Stages
<1>4. Sources(x1, v, text, flag)
  BY DEF ServerInv, Sources
<1>5. Packs(x1, v, flag)
  BY DEF ServerInv, Packs
<1>6. Outputs(x1, text, flag)
  BY DEF ServerInv, Outputs
<1>7. QED
  BY <1>1, <1>2, <1>3, <1>4, <1>5, <1>6 DEF ServerInv

\* s is nothing or all of the text, and all of it when the stream has ended.
NoPart(x, s, text) == s \in {<<>>, text} /\ (x.stage = "sent" => s = text)

\* What the servant decompresses.
LEMMA DecompressedSource ==
    ASSUME NEW x, NEW v, NEW text \in Seq(TextBlock), NEW flag,
           ServerInv(x, v, text, flag), v.stage = "received",
           NEW file, v.file = file, NEW s, s \in ZSTDDecompress(file)
    PROVE  NoPart(x, s, text)
<1>1. PICK z : z = ZSTDCompress(text)
  OBVIOUS
<1>2. z \in Seq(Block) /\ Len(z) = Len(text) + 1 /\ ZSTDDecompress(z) = {text}
  BY <1>1, TextAndFrame
<1>3. PICK n \in 0 .. Len(text) + 1 :
        /\ v.file = SubSeq(z, 1, n)
        /\ x.stage = "sent" => n = Len(text) + 1
  BY <1>1 DEF ServerInv, Sources
<1>4. Len(text) \in Nat
  OBVIOUS
<1>5. CASE n = Len(text) + 1
  <2>1. SubSeq(z, 1, n) = z
    BY <1>2, <1>5, SubSeqFull
  <2>2. s = text
    BY <1>2, <1>3, <2>1
  <2>3. QED
    BY <2>2 DEF NoPart
<1>6. CASE n # Len(text) + 1
  <2>1. n \in 0 .. Len(text)
    BY <1>4, <1>6
  <2>2. ZSTDDecompress(SubSeq(z, 1, n)) = IF n = 0 THEN {<<>>} ELSE {}
    BY <1>1, <2>1, TextHasNoEnd, DecompressOfPart
  <2>3. s = <<>>
    BY <1>3, <2>2
  <2>4. QED
    BY <1>3, <1>6, <2>3 DEF NoPart
<1>7. QED
  BY <1>5, <1>6

\* Prepare.
LEMMA ServerPrepares ==
    ASSUME NEW x, NEW v, NEW text \in Seq(TextBlock), NEW flag,
           ServerInv(x, v, text, flag), v.stage = "received",
           NEW v1 \in CompileTasks,
           v1.directives_only = v.directives_only, v1.exit = v.exit,
           v1.pack = v.pack,
           v1.stage \in {"refused", "prepared"},
           v1.stage = "prepared" =>
             NoPart(x, v1.source, text)
    PROVE  ServerInv(x, v1, text, flag)
<1>1. x.stage \in {"sent", "done"} /\ x \in Tasks
  BY DEF ServerInv, Stages, Tasks
<1>2. Submitted(x, text, flag) /\ Outputs(x, text, flag)
  BY DEF ServerInv
<1>3. Stages(x, v1)
  BY <1>1 DEF Stages
<1>4. Sources(x, v1, text, flag)
  <2>1. v1.directives_only = flag
    BY DEF ServerInv, Sources
  <2>2. QED
    BY <1>1, <2>1 DEF Sources, NoPart
<1>5. Packs(x, v1, flag)
  BY <1>1 DEF ServerInv, Packs
<1>6. QED
  BY <1>1, <1>2, <1>3, <1>4, <1>5 DEF ServerInv

\* The compiler ends.
LEMMA ServerCompiles ==
    ASSUME NEW x, NEW v, NEW text, NEW flag,
           ServerInv(x, v, text, flag), v.stage = "prepared",
           NEW v1 \in CompileTasks, v1.stage = "compiled",
           v1.directives_only = v.directives_only, v1.source = v.source,
           \/ v1.exit = 1 /\ v1.pack = v.pack
           \/ /\ v1.exit = 0
              /\ \E product \in Products :
                   v1.pack = PackFiles(FilesFor(product, v.directives_only, v.source))
    PROVE  ServerInv(x, v1, text, flag)
<1>1. x.stage \in {"sent", "waiting", "done"} /\ x \in Tasks
  BY DEF ServerInv, Stages, Tasks
<1>2. Submitted(x, text, flag) /\ Outputs(x, text, flag)
  BY DEF ServerInv
<1>3. v.directives_only = flag
  BY DEF ServerInv, Sources
<1>4. Stages(x, v1)
  BY <1>1 DEF Stages
<1>5. Sources(x, v1, text, flag)
  <2>1. v.source \in {<<>>, text}
    BY DEF ServerInv, Sources
  <2>2. x.stage \in {"sent", "waiting", "reading"} => v.source = text
    BY DEF ServerInv, Sources
  <2>3. QED
    BY <1>3, <2>1, <2>2 DEF Sources
<1>6. Packs(x, v1, flag)
  <2>1. v.pack = <<>>
    BY DEF ServerInv, Packs
  <2>2. v1.exit # 0 => v1.pack = <<>>
    BY <2>1
  <2>3. v1.exit = 0 =>
          \E product \in Products : v1.pack = PackFiles(FilesFor(product, flag, v1.source))
    BY <1>3
  <2>4. QED
    BY <1>1, <2>2, <2>3 DEF Packs
<1>7. QED
  BY <1>1, <1>2, <1>4, <1>5, <1>6 DEF ServerInv

\* WaitForTask and SendFile: the daemon has what has been sent of the pack.
LEMMA ServerSends ==
    ASSUME NEW x, NEW v, NEW text, NEW flag,
           ServerInv(x, v, text, flag), x.stage \in {"waiting", "reading"},
           v.stage = "compiled",
           NEW x1 \in Tasks, x1.stage = "reading",
           x1.directives_only = x.directives_only, x1.outputs = x.outputs,
           NEW v1 \in CompileTasks, v1.stage = v.stage,
           v1.directives_only = v.directives_only, v1.source = v.source,
           v1.exit = v.exit, v1.pack = v.pack,
           x1.file = SentOf(v.pack, v1.sent)
    PROVE  ServerInv(x1, v1, text, flag)
<1>1. v.directives_only = flag /\ v.source = text
  BY DEF ServerInv, Sources
<1>2. Submitted(x1, text, flag)
  BY DEF ServerInv, Submitted
<1>3. Stages(x1, v1)
  BY DEF Stages
<1>4. Sources(x1, v1, text, flag)
  BY <1>1 DEF Sources
<1>5. Packs(x1, v1, flag)
  BY DEF ServerInv, Packs
<1>6. Outputs(x1, text, flag)
  BY DEF ServerInv, Outputs
<1>7. QED
  BY <1>2, <1>3, <1>4, <1>5, <1>6 DEF ServerInv

\* What the daemon has read when everything was sent and the compiler succeeded.
LEMMA ReadPack ==
    ASSUME NEW x, NEW v, NEW text \in Seq(TextBlock), NEW flag \in Flags,
           ServerInv(x, v, text, flag), x.stage = "reading",
           v.sent >= Len(v.pack), v.exit = 0
    PROVE  \E product \in Products :
             /\ product = <<>> => x.file = <<>>
             /\ product # <<>> =>
                  /\ x.file # <<>>
                  /\ TryUnpackFiles(x.file) \subseteq {FilesFor(product, flag, text)}
<1>1. v.stage = "compiled"
  BY DEF ServerInv, Stages
<1>2. v.source = text
  BY <1>1 DEF ServerInv, Sources
<1>3. PICK pack : pack = v.pack
  OBVIOUS
<1>4. PICK product \in Products : pack = PackFiles(FilesFor(product, flag, text))
  BY <1>1, <1>2, <1>3 DEF ServerInv, Packs
<1>5. text \in Seq(Block)
  BY TextAndFrame
<1>6. /\ pack \in Seq(PackBlock)
      /\ product = <<>> => pack = <<>>
      /\ product # <<>> =>
           /\ pack # <<>>
           /\ TryUnpackFiles(pack) \subseteq {FilesFor(product, flag, text)}
  BY <1>4, <1>5, PackOfProduct
<1>7. x.file = pack
  <2>1. x.file = SentOf(pack, v.sent)
    BY <1>3 DEF ServerInv, Packs
  <2>2. v.sent \in Nat
    BY DEF ServerInv, CompileTasks
  <2>3. SentOf(pack, v.sent) = pack
    BY <1>3, <1>6, <2>2, SentEnds
  <2>4. QED
    BY <2>1, <2>3
<1>8. QED
  BY <1>6, <1>7

\* WaitServantTask with the files.
LEMMA ServerAnswers ==
    ASSUME NEW x, NEW v, NEW text \in Seq(TextBlock), NEW flag \in Flags,
           ServerInv(x, v, text, flag), x.stage = "reading",
           v.sent >= Len(v.pack), v.exit = 0, x.file # <<>>,
           NEW x1 \in Tasks, x1.stage = "done",
           x1.directives_only = x.directives_only, x1.exit = 0,
           x1.outputs \in TryUnpackFiles(x.file)
    PROVE  ServerInv(x1, v, text, flag)
<1>1. v.stage = "compiled" /\ v \in CompileTasks
  BY DEF ServerInv, Stages
<1>2. PICK product \in Products :
        product # <<>> /\ TryUnpackFiles(x.file) \subseteq {FilesFor(product, flag, text)}
  BY ReadPack
<1>3. Submitted(x1, text, flag)
  BY DEF ServerInv, Submitted
<1>4. Stages(x1, v)
  BY <1>1 DEF Stages
<1>5. Sources(x1, v, text, flag)
  BY <1>1 DEF ServerInv, Sources
<1>6. Packs(x1, v, flag)
  BY <1>1 DEF ServerInv, Packs
<1>7. Outputs(x1, text, flag)
  BY <1>2 DEF Outputs
<1>8. QED
  BY <1>1, <1>3, <1>4, <1>5, <1>6, <1>7 DEF ServerInv

-----------------------------------------------------------------------------
(***************************************************************************)
(* The invariant of the whole.                                             *)
(***************************************************************************)

Children ==
    [status : {"none", "running", "succeeded", "failed", "killed"},
     out : 0 .. Length, err : 0 .. Warnings]

NoFiles == [name \in {} |-> <<>>]

\* The client and what it reads from have their types.
ClientTypes ==
    /\ pc \in {"start", "poll", "handle", "rewritten", "waiting", "native", "done"}
    /\ attempt \in 1 .. 2
    /\ child \in Children
    /\ pipe \in [out : Seq(TextBlock), err : 0 .. PipeSize]
    /\ Len(pipe.out) <= PipeSize
    /\ open \subseteq Descriptors
    /\ ready \subseteq open
    /\ stream \in Seq(TextBlock)
    /\ Len(stream) <= Length
    /\ rewritten \in [directives_only : Flags, zstd : Seq(Block)]

\* While the client reads the pipes, what it has and what the pipe holds are what
\* the child has written; it is done with the pipe when the child has ended and
\* the pipe is empty.
Reading ==
    /\ pc \in {"poll", "handle"} =>
         /\ stream \o pipe.out = Text(child.out)
         /\ "out" \in open \/ (pipe.out = <<>> /\ Ended)
    /\ pc = "handle" /\ "out" \in ready => pipe.out # <<>> \/ Ended
    /\ pc \notin {"start", "poll", "handle"} => Ended
    /\ pc = "start" => child.status = "none"

\* disk holds the files of a product, made from that text, or what failed writes
\* have left of them.
DiskHolds(d, product, flag, text) ==
    /\ product # <<>>
    /\ DOMAIN d = {NameOf(product[i]) : i \in DOMAIN product}
    /\ \A i \in DOMAIN product :
         d[NameOf(product[i])] \in {Compiled(product[i], flag, text), Torn}

\* Nothing is submitted before there is a source, nothing written before the end.
Progress ==
    /\ pc \in {"start", "poll", "handle", "rewritten"} => task.stage = "none"
    /\ pc = "rewritten" =>
         /\ rewritten.zstd = ZSTDCompress(Text(child.out))
         /\ rewritten.directives_only = (attempt = 1)
    /\ pc # "done" => disk = NoFiles
    /\ pc = "done" =>
         \E product \in Products :
           DiskHolds(disk, product, attempt = 1, Text(child.out))

IInv ==
    /\ ClientTypes
    /\ Reading
    /\ Progress
    /\ ServerInv(task, servant, Text(child.out), attempt = 1)

\* The text of a child.
LEMMA TextType ==
    ASSUME attempt \in 1 .. 2, NEW n \in Nat
    PROVE  /\ Text(n) \in Seq(TextBlock)
           /\ Len(Text(n)) = n
           /\ <<"text", attempt, n + 1>> \in TextBlock
           /\ Text(n + 1) = Append(Text(n), <<"text", attempt, n + 1>>)
<1>1. \A i \in Nat : <<"text", attempt, i>> \in TextBlock
  BY DEF TextBlock
<1>2. PICK a : a = attempt
  OBVIOUS
<1>3. Text(n) = [i \in 1 .. n |-> <<"text", a, i>>]
  BY <1>2 DEF Text
<1>4. Text(n + 1) = [i \in 1 .. n + 1 |-> <<"text", a, i>>]
  BY <1>2 DEF Text
<1>5. Text(n) \in [1 .. n -> TextBlock] /\ Text(n + 1) \in [1 .. n + 1 -> TextBlock]
  BY <1>1, <1>2, <1>3, <1>4
<1>6. PICK s, t, b : s = Text(n) /\ t = Text(n + 1) /\ b = <<"text", a, n + 1>>
  OBVIOUS
<1>7. s \in Seq(TextBlock) /\ Len(s) = n /\ t \in Seq(TextBlock) /\ Len(t) = n + 1
  BY <1>5, <1>6
<1>8. b \in TextBlock
  BY <1>1, <1>2, <1>6
<1>9. \A i \in 1 .. n : t[i] = s[i]
  BY <1>3, <1>4, <1>6
<1>10. t[n + 1] = b
  BY <1>4, <1>6
<1>11. PICK u : u = Append(s, b)
  OBVIOUS
<1>12. /\ u \in Seq(TextBlock) /\ Len(u) = n + 1
       /\ \A i \in 1 .. n : u[i] = s[i]
       /\ u[n + 1] = b
  <2>1. s \in Seq(TextBlock) /\ Len(s) = n
    BY <1>7
  <2>2. /\ u \in Seq(TextBlock) /\ Len(u) = Len(s) + 1
        /\ \A i \in 1 .. Len(s) : u[i] = s[i]
        /\ u[Len(s) + 1] = b
    BY <2>1, <1>8, <1>11, AppendProperties, Zenon
  <2>3. QED
    BY <2>1, <2>2, Zenon
<1>13. \A i \in 1 .. n + 1 : t[i] = u[i]
  <2>1. \A i \in 1 .. n + 1 : i \in 1 .. n \/ i = n + 1
    OBVIOUS
  <2>2. QED
    BY <1>9, <1>10, <1>12, <2>1, Zenon
<1>14. t = u
  BY <1>7, <1>12, <1>13, SeqEqual
<1>15. QED
  BY <1>2, <1>6, <1>7, <1>8, <1>11, <1>14, Zenon

\* What the lemmas about the servers ask of the text and the flag.
LEMMA WholeType ==
    ASSUME ClientTypes
    PROVE  /\ child.out \in Nat /\ attempt \in 1 .. 2
           /\ Text(child.out) \in Seq(TextBlock)
           /\ (attempt = 1) \in Flags
<1>1. child.out \in Nat /\ attempt \in 1 .. 2
  BY DataPathAssumption DEF ClientTypes, Children
<1>2. (attempt = 1) \in Flags
  BY Zenon DEF Flags
<1>3. QED
  BY <1>1, <1>2, TextType

\* A step of the daemon or the servant alone.
LEMMA ServerStep ==
    ASSUME IInv, UNCHANGED <<Client, Preprocessor>>, task.stage # "none",
           ServerInv(task', servant', Text(child.out), attempt = 1)
    PROVE  IInv'
<1>1. /\ UNCHANGED <<pc, attempt, open, ready, stream, rewritten, disk>>
      /\ UNCHANGED <<child, pipe>>
  BY DEF Client, Preprocessor
<1>2. ClientTypes'
  BY <1>1 DEF IInv, ClientTypes
<1>3. Text(child.out)' = Text(child.out)
  BY <1>1 DEF Text
<1>4. Ended' = Ended
  BY <1>1 DEF Ended
<1>5. Reading'
  BY <1>1, <1>3, <1>4, Zenon DEF IInv, Reading
<1>6. pc \notin {"start", "poll", "handle", "rewritten"}
  BY DEF IInv, Progress
<1>7. Progress'
  BY <1>1, <1>3, <1>6, Zenon DEF IInv, Progress
<1>8. ServerInv(task, servant, Text(child.out), attempt = 1)'
  BY <1>1, <1>3, Zenon
<1>9. QED
  BY <1>2, <1>5, <1>7, <1>8 DEF IInv

-----------------------------------------------------------------------------
(***************************************************************************)
(* Every action keeps the invariant.  First the daemon's and the servant's.*)
(***************************************************************************)

\* What the steps of the daemon and the servant start from.
LEMMA ServerParts ==
    ASSUME IInv
    PROVE  /\ ServerInv(task, servant, Text(child.out), attempt = 1)
           /\ Text(child.out) \in Seq(TextBlock)
           /\ (attempt = 1) \in Flags
           /\ task \in Tasks /\ servant \in CompileTasks
  BY WholeType DEF IInv, ServerInv

\* The servant has received nothing of the frame yet.
LEMMA StartTaskInv == IInv /\ StartTask => IInv'
<1> SUFFICES ASSUME IInv, StartTask PROVE IInv'
  OBVIOUS
<1>1. PICK x, v, x1, v1, text, flag :
        /\ x = task /\ v = servant /\ x1 = task' /\ v1 = servant'
        /\ text = Text(child.out) /\ flag = (attempt = 1)
  OBVIOUS
<1>2. /\ ServerInv(x, v, text, flag) /\ text \in Seq(TextBlock)
      /\ x \in Tasks /\ v \in CompileTasks
  BY <1>1, ServerParts, Zenon
<1>3. /\ x.stage = "queued" /\ x1 = [x EXCEPT !.stage = "sending"]
      /\ v1 = [NoCompileTask EXCEPT !.stage = "receiving",
                                    !.directives_only = x.directives_only]
      /\ UNCHANGED <<Client, Preprocessor>>
  BY <1>1, Zenon DEF StartTask
<1>4. /\ x1 \in Tasks /\ x1.stage = "sending" /\ x1.source = x.source
      /\ x1.sent = x.sent /\ x1.exit = x.exit /\ x1.outputs = x.outputs
  BY <1>2, <1>3 DEF Tasks
<1>5. x1.directives_only = x.directives_only
  BY <1>2, <1>3 DEF Tasks
<1>6. v1 = [stage |-> "receiving", directives_only |-> x.directives_only,
            file |-> <<>>, source |-> <<>>, exit |-> 0, pack |-> <<>>, sent |-> 0]
  BY <1>3 DEF NoCompileTask
<1>7. v1 \in CompileTasks
  <2>1. <<>> \in BlockSeq /\ <<>> \in PackSeq
    BY EmptySeq DEF BlockSeq, PackSeq
  <2>2. QED
    BY <1>2, <1>6, <2>1 DEF Tasks, CompileTasks
<1>8. /\ v1.stage = "receiving" /\ v1.directives_only = x.directives_only
      /\ v1.file = <<>> /\ v1.exit = 0 /\ v1.pack = <<>>
  BY <1>6
<1>9. ServerInv(x1, v1, text, flag)
  BY <1>2, <1>3, <1>4, <1>5, <1>7, <1>8, ServerStarts
<1>10. QED
  BY <1>1, <1>3, <1>9, ServerStep, Zenon

\* The servant has the first blocks of the frame, one chunk more of them.
LEMMA WriteChunkInv == IInv /\ WriteChunk => IInv'
<1> SUFFICES ASSUME IInv, WriteChunk PROVE IInv'
  OBVIOUS
<1>1. PICK x, v, x1, v1, text, flag :
        /\ x = task /\ v = servant /\ x1 = task' /\ v1 = servant'
        /\ text = Text(child.out) /\ flag = (attempt = 1)
  OBVIOUS
<1>2. /\ ServerInv(x, v, text, flag) /\ text \in Seq(TextBlock)
      /\ x \in Tasks /\ v \in CompileTasks
  BY <1>1, ServerParts, Zenon
<1>3. /\ x.stage = "sending" /\ x.sent < Len(x.source)
      /\ x1 = [x EXCEPT !.sent = @ + ChunkSize]
      /\ v1 = [v EXCEPT !.file = @ \o ChunkOf(x.source, x.sent)]
      /\ UNCHANGED <<Client, Preprocessor>>
  BY <1>1, Zenon DEF WriteChunk
<1>4. /\ x1 \in Tasks /\ x1.stage = x.stage /\ x1.source = x.source
      /\ x1.sent = x.sent + ChunkSize /\ x1.exit = x.exit /\ x1.outputs = x.outputs
  <2>1. ChunkSize \in Nat
    BY DataPathAssumption
  <2>2. x \in Tasks /\ x1 = [x EXCEPT !.sent = @ + ChunkSize]
    BY <1>2, <1>3
  <2>3. QED
    BY <2>1, <2>2 DEF Tasks
<1>5. x1.directives_only = x.directives_only
  BY <1>2, <1>3 DEF Tasks
<1>6. PICK file : file = SentOf(x.source, x.sent + ChunkSize)
  OBVIOUS
<1>7. v.file \o ChunkOf(x.source, x.sent) = file /\ file \in BlockSeq
  <2>1. x.source \in Seq(Block) /\ x.sent \in Nat
    BY <1>2 DEF Tasks, BlockSeq
  <2>2. SentOf(x.source, x.sent) \o ChunkOf(x.source, x.sent) = file
    BY <1>3, <1>6, <2>1, SentOneMore, Zenon
  <2>3. v.file = SentOf(x.source, x.sent)
    BY <1>2, <1>3 DEF ServerInv, Stages, Submitted, Sources
  <2>4. x.sent + ChunkSize \in Nat
    BY <2>1, DataPathAssumption
  <2>5. file \in Seq(Block)
    BY <1>6, <2>1, <2>4, SentEnds, Zenon
  <2>6. QED
    BY <2>2, <2>3, <2>5, Zenon DEF BlockSeq
<1>8. v1 = [v EXCEPT !.file = file]
  BY <1>2, <1>3, <1>7, Zenon DEF CompileTasks
<1>9. /\ v1 \in CompileTasks /\ v1.stage = v.stage /\ v1.file = file
      /\ v1.exit = v.exit /\ v1.pack = v.pack
  BY <1>2, <1>7, <1>8 DEF CompileTasks
<1>10. v1.directives_only = v.directives_only
  BY <1>2, <1>8 DEF CompileTasks
<1>11. ServerInv(x1, v1, text, flag)
  BY <1>2, <1>3, <1>4, <1>5, <1>6, <1>9, <1>10, ServerWrites
<1>12. QED
  BY <1>1, <1>3, <1>11, ServerStep, Zenon

\* When the daemon has sent enough, the servant has the whole frame.
LEMMA WritesDoneInv == IInv /\ WritesDone => IInv'
<1> SUFFICES ASSUME IInv, WritesDone PROVE IInv'
  OBVIOUS
<1>1. PICK x, v, x1, v1, text, flag :
        /\ x = task /\ v = servant /\ x1 = task' /\ v1 = servant'
        /\ text = Text(child.out) /\ flag = (attempt = 1)
  OBVIOUS
<1>2. /\ ServerInv(x, v, text, flag) /\ text \in Seq(TextBlock)
      /\ x \in Tasks /\ v \in CompileTasks
  BY <1>1, ServerParts, Zenon
<1>3. /\ x.stage = "sending" /\ x.sent >= Len(x.source)
      /\ x1 = [x EXCEPT !.stage = "sent", !.source = <<>>]
      /\ v1 = [v EXCEPT !.stage = "received"]
      /\ UNCHANGED <<Client, Preprocessor>>
  BY <1>1, Zenon DEF WritesDone
<1>4. /\ x1 \in Tasks /\ x1.stage = "sent" /\ x1.exit = x.exit
      /\ x1.outputs = x.outputs
  <2>1. x \in Tasks /\ x1 = [x EXCEPT !.stage = "sent", !.source = <<>>]
    BY <1>2, <1>3
  <2>2. PICK none : none = <<>>
    OBVIOUS
  <2>3. none \in BlockSeq
    BY <2>2, EmptySeq DEF BlockSeq
  <2>4. x1 = [x EXCEPT !.stage = "sent", !.source = none]
    BY <2>1, <2>2, Zenon
  <2>5. QED
    BY <2>1, <2>3, <2>4 DEF Tasks
<1>5. x1.directives_only = x.directives_only
  BY <1>2, <1>3 DEF Tasks
<1>6. /\ v1 \in CompileTasks /\ v1.stage = "received" /\ v1.file = v.file
      /\ v1.exit = v.exit /\ v1.pack = v.pack
  BY <1>2, <1>3 DEF CompileTasks
<1>7. v1.directives_only = v.directives_only
  BY <1>2, <1>3 DEF CompileTasks
<1>8. ServerInv(x1, v1, text, flag)
  BY <1>2, <1>3, <1>4, <1>5, <1>6, <1>7, ServerHasAll
<1>9. QED
  BY <1>1, <1>3, <1>8, ServerStep, Zenon

\* A task that is done.
LEMMA DoneTask ==
    ASSUME task \in Tasks, NEW exit \in Exits, NEW outputs \in FilesSeq,
           TaskDone(exit, outputs)
    PROVE  /\ task' \in Tasks /\ task'.stage = "done" /\ task'.exit = exit
           /\ task'.directives_only = task.directives_only
           /\ exit < 0 => task'.outputs = <<>>
           /\ ~(exit < 0) => task'.outputs = outputs
<1>1. PICK none : none = <<>>
  OBVIOUS
<1>2. none \in FilesSeq /\ none \in PackSeq
  BY <1>1, EmptySeq DEF FilesSeq, PackSeq
<1>3. ASSUME NEW files \in FilesSeq,
             task' = [task EXCEPT !.stage = "done", !.exit = exit, !.file = none,
                                  !.outputs = files]
      PROVE  /\ task' \in Tasks /\ task'.stage = "done" /\ task'.exit = exit
             /\ task'.directives_only = task.directives_only
             /\ task'.outputs = files
  <2>1. PICK x, x1 : x = task /\ x1 = task'
    OBVIOUS
  <2>2. x \in Tasks
    BY <2>1
  <2>3. x1 = [x EXCEPT !.stage = "done", !.exit = exit, !.file = none,
                       !.outputs = files]
    BY <1>3, <2>1, Zenon
  <2>4. x1 \in Tasks /\ x1.stage = "done" /\ x1.exit = exit /\ x1.outputs = files
    BY <1>2, <2>2, <2>3 DEF Tasks
  <2>5. x1.directives_only = x.directives_only
    BY <2>2, <2>3 DEF Tasks
  <2>6. QED
    BY <2>1, <2>4, <2>5, Zenon
<1>4. CASE exit < 0
  <2>1. task' = [task EXCEPT !.stage = "done", !.exit = exit, !.file = none,
                             !.outputs = none]
    BY <1>1, <1>4, Zenon DEF TaskDone
  <2>2. QED
    BY <1>1, <1>2, <1>3, <1>4, <2>1, Zenon
<1>5. CASE ~(exit < 0)
  <2>1. task' = [task EXCEPT !.stage = "done", !.exit = exit, !.file = none,
                             !.outputs = outputs]
    BY <1>1, <1>5, Zenon DEF TaskDone
  <2>2. QED
    BY <1>3, <1>5, <2>1, Zenon
<1>6. QED
  BY <1>4, <1>5

\* A task that is done without output.
LEMMA FailedTask ==
    ASSUME task \in Tasks, NEW exit \in {-1, 1}, TaskDone(exit, <<>>)
    PROVE  /\ task' \in Tasks /\ task'.stage = "done"
           /\ task'.exit = exit /\ exit # 0
           /\ task'.directives_only = task.directives_only
           /\ task'.outputs = <<>>
<1>1. PICK none : none = <<>>
  OBVIOUS
<1>2. none \in FilesSeq
  BY <1>1, EmptySeq DEF FilesSeq
<1>3. exit \in Exits /\ exit # 0
  BY DEF Exits
<1>4. TaskDone(exit, none)
  BY <1>1, Zenon
<1>5. QED
  BY <1>1, <1>2, <1>3, <1>4, DoneTask, Zenon

\* The servant keeps the first blocks of the frame, the daemon has no output.
LEMMA StreamBreaksInv == IInv /\ StreamBreaks => IInv'
<1> SUFFICES ASSUME IInv, StreamBreaks PROVE IInv'
  OBVIOUS
<1>1. PICK x, v, x1, v1, text, flag :
        /\ x = task /\ v = servant /\ x1 = task' /\ v1 = servant'
        /\ text = Text(child.out) /\ flag = (attempt = 1)
  OBVIOUS
<1>2. /\ ServerInv(x, v, text, flag) /\ text \in Seq(TextBlock)
      /\ x \in Tasks /\ v \in CompileTasks
  BY <1>1, ServerParts, Zenon
<1>3. PICK exit : exit = -1
  OBVIOUS
<1>4. /\ x.stage \in {"sending", "sent"}
      /\ TaskDone(exit, <<>>)
      /\ v1 = [v EXCEPT !.stage = IF @ = "receiving" THEN "received" ELSE @]
      /\ UNCHANGED <<Client, Preprocessor>>
  BY <1>1, <1>3, Zenon DEF StreamBreaks
<1>5. /\ x1 \in Tasks /\ x1.stage = "done" /\ x1.exit = -1
      /\ x1.directives_only = x.directives_only
      /\ x1.outputs = <<>>
  <2>1. exit \in {-1, 1}
    BY <1>3
  <2>2. QED
    BY <1>1, <1>2, <1>3, <1>4, <2>1, FailedTask, Zenon
<1>6. PICK stage : stage = IF v.stage = "receiving" THEN "received" ELSE v.stage
  OBVIOUS
<1>7. v1 = [v EXCEPT !.stage = stage]
  BY <1>2, <1>4, <1>6, Zenon DEF CompileTasks
<1>8. /\ v1 \in CompileTasks /\ v1.stage = stage /\ v1.file = v.file
      /\ v1.source = v.source /\ v1.exit = v.exit /\ v1.pack = v.pack
  BY <1>2, <1>6, <1>7 DEF CompileTasks
<1>9. v1.directives_only = v.directives_only
  BY <1>2, <1>7 DEF CompileTasks
<1>10. ServerInv(x1, v1, text, flag)
  BY <1>2, <1>4, <1>5, <1>6, <1>8, <1>9, ServerBreaks
<1>11. x.stage # "none"
  BY <1>4
<1>12. QED
  BY <1>1, <1>4, <1>10, <1>11, ServerStep, Zenon

\* A task that was not refused has been prepared from the whole text.
LEMMA QueuedInv == IInv /\ Queued => IInv'
<1> SUFFICES ASSUME IInv, Queued PROVE IInv'
  OBVIOUS
<1>1. PICK x, v, x1, text, flag :
        /\ x = task /\ v = servant /\ x1 = task'
        /\ text = Text(child.out) /\ flag = (attempt = 1)
  OBVIOUS
<1>2. /\ ServerInv(x, v, text, flag) /\ text \in Seq(TextBlock)
      /\ x \in Tasks /\ v \in CompileTasks
  BY <1>1, ServerParts, Zenon
<1>3. PICK exit : exit = -1
  OBVIOUS
<1>4. /\ x.stage = "sent" /\ servant' = v
      /\ v.stage \notin {"receiving", "received"}
      /\ UNCHANGED <<Client, Preprocessor>>
  BY <1>1, Zenon DEF Queued
<1>5. CASE v.stage = "refused"
  <2>1. TaskDone(exit, <<>>)
    BY <1>1, <1>3, <1>5, Zenon DEF Queued
  <2>2. exit \in {-1, 1}
    BY <1>3
  <2>3. /\ x1 \in Tasks /\ x1.stage = "done" /\ x1.exit # 0
        /\ x1.directives_only = x.directives_only
        /\ x1.outputs = <<>>
    BY <1>1, <1>2, <2>1, <2>2, FailedTask, Zenon
  <2>4. ServerInv(x1, v, text, flag)
    BY <1>2, <1>4, <2>2, <2>3, ServerFails, Zenon
  <2>5. QED
    BY <1>1, <1>4, <2>4, ServerStep, Zenon
<1>6. CASE v.stage # "refused"
  <2>1. x1 = [x EXCEPT !.stage = "waiting"]
    BY <1>1, <1>6, Zenon DEF Queued
  <2>2. x1 \in Tasks /\ x1.stage = "waiting" /\ x1.outputs = x.outputs
    BY <1>2, <2>1 DEF Tasks
  <2>3. x1.directives_only = x.directives_only
    BY <1>2, <2>1 DEF Tasks
  <2>4. v.stage \in {"prepared", "compiled"}
    BY <1>2, <1>4, <1>6 DEF ServerInv, Stages
  <2>5. ServerInv(x1, v, text, flag)
    BY <1>2, <1>4, <2>2, <2>3, <2>4, ServerWaits, Zenon
  <2>6. QED
    BY <1>1, <1>4, <2>5, ServerStep, Zenon
<1>7. QED
  BY <1>5, <1>6

\* A frame decompresses only when it is whole, or nothing.
LEMMA PrepareInv == IInv /\ Prepare => IInv'
<1> SUFFICES ASSUME IInv, Prepare PROVE IInv'
  OBVIOUS
<1>1. PICK x, v, v1, text, flag :
        /\ x = task /\ v = servant /\ v1 = servant'
        /\ text = Text(child.out) /\ flag = (attempt = 1)
  OBVIOUS
<1>2. /\ ServerInv(x, v, text, flag) /\ text \in Seq(TextBlock)
      /\ x \in Tasks /\ v \in CompileTasks
  BY <1>1, ServerParts, Zenon
<1>3. /\ v.stage = "received" /\ task' = x
      /\ UNCHANGED <<Client, Preprocessor>>
  BY <1>1, Zenon DEF Prepare
<1>4. x.stage # "none"
  BY <1>2, <1>3 DEF ServerInv, Stages
<1>5. PICK file : file = v.file
  OBVIOUS
<1>6. CASE v1 = [v EXCEPT !.stage = "refused"]
  <2>1. /\ v1 \in CompileTasks /\ v1.stage = "refused"
        /\ v1.exit = v.exit /\ v1.pack = v.pack
    BY <1>2, <1>6 DEF CompileTasks
  <2>2. v1.directives_only = v.directives_only
    BY <1>2, <1>6 DEF CompileTasks
  <2>3. ServerInv(x, v1, text, flag)
    BY <1>2, <1>3, <2>1, <2>2, ServerPrepares, Zenon
  <2>4. QED
    BY <1>1, <1>3, <1>4, <2>3, ServerStep, Zenon
<1>7. CASE \E s \in ZSTDDecompress(file) :
             v1 = [v EXCEPT !.stage = "prepared", !.source = s]
  <2>1. PICK s \in ZSTDDecompress(file) :
          v1 = [v EXCEPT !.stage = "prepared", !.source = s]
    BY <1>7
  <2>2. NoPart(x, s, text)
    <3>1. v.file = file /\ s \in ZSTDDecompress(file)
      BY <1>5, <2>1
    <3>2. QED
      BY <1>2, <1>3, <3>1, DecompressedSource
  <2>3. s \in BlockSeq
    BY <1>2, <2>2, TextAndFrame, EmptySeq DEF BlockSeq, NoPart
  <2>4. /\ v1 \in CompileTasks /\ v1.stage = "prepared" /\ v1.source = s
        /\ v1.exit = v.exit /\ v1.pack = v.pack
    BY <1>2, <2>1, <2>3 DEF CompileTasks
  <2>5. v1.directives_only = v.directives_only
    BY <1>2, <2>1 DEF CompileTasks
  <2>6. ServerInv(x, v1, text, flag)
    BY <1>2, <1>3, <2>2, <2>4, <2>5, ServerPrepares, Zenon
  <2>7. QED
    BY <1>1, <1>3, <1>4, <2>6, ServerStep, Zenon
<1>8. QED
  BY <1>1, <1>5, <1>6, <1>7, Zenon DEF Prepare

\* The pack is that of the files of some product.
LEMMA CompilerSucceedsInv ==
    ASSUME IInv, NEW product \in Products, CompilerSucceeds(product)
    PROVE  IInv'
<1>1. PICK x, v, v1, text, flag :
        /\ x = task /\ v = servant /\ v1 = servant'
        /\ text = Text(child.out) /\ flag = (attempt = 1)
  OBVIOUS
<1>2. /\ ServerInv(x, v, text, flag) /\ text \in Seq(TextBlock)
      /\ x \in Tasks /\ v \in CompileTasks
  BY <1>1, ServerParts, Zenon
<1>3. PICK pack : pack = PackFiles(FilesFor(product, v.directives_only, v.source))
  OBVIOUS
<1>4. /\ v.stage = "prepared" /\ task' = x
      /\ UNCHANGED <<Client, Preprocessor>>
  BY <1>1, Zenon DEF CompilerSucceeds
<1>5. v1 = [v EXCEPT !.stage = "compiled", !.pack = pack]
  BY <1>1, <1>3, Zenon DEF CompilerSucceeds, FilesFor
<1>6. pack \in PackSeq
  <2>1. v.directives_only \in Flags /\ v.source \in Seq(Block)
    BY <1>2 DEF CompileTasks, BlockSeq
  <2>2. PICK d, s : d = v.directives_only /\ s = v.source
    OBVIOUS
  <2>3. d \in Flags /\ s \in Seq(Block) /\ pack = PackFiles(FilesFor(product, d, s))
    BY <1>3, <2>1, <2>2, Zenon
  <2>4. QED
    BY <2>3, PackOfProduct, Zenon DEF PackSeq
<1>7. /\ v1 \in CompileTasks /\ v1.stage = "compiled" /\ v1.source = v.source
      /\ v1.exit = v.exit /\ v1.pack = pack
  BY <1>2, <1>5, <1>6 DEF CompileTasks
<1>8. v1.directives_only = v.directives_only
  BY <1>2, <1>5 DEF CompileTasks
<1>9. v.exit = 0 /\ x.stage # "none"
  BY <1>2, <1>4 DEF ServerInv, Packs, Stages
<1>10. /\ v1.exit = 0
       /\ \E p \in Products :
            v1.pack = PackFiles(FilesFor(p, v.directives_only, v.source))
  BY <1>3, <1>7, <1>9, Zenon
<1>11. ServerInv(x, v1, text, flag)
  BY <1>2, <1>4, <1>7, <1>8, <1>10, ServerCompiles, Zenon
<1>12. QED
  BY <1>1, <1>4, <1>9, <1>11, ServerStep, Zenon

\* A failed compilation has no pack.
LEMMA CompilerFailsInv == IInv /\ CompilerFails => IInv'
<1> SUFFICES ASSUME IInv, CompilerFails PROVE IInv'
  OBVIOUS
<1>1. PICK x, v, v1, text, flag :
        /\ x = task /\ v = servant /\ v1 = servant'
        /\ text = Text(child.out) /\ flag = (attempt = 1)
  OBVIOUS
<1>2. /\ ServerInv(x, v, text, flag) /\ text \in Seq(TextBlock)
      /\ x \in Tasks /\ v \in CompileTasks
  BY <1>1, ServerParts, Zenon
<1>3. /\ v.stage = "prepared" /\ task' = x
      /\ v1 = [v EXCEPT !.stage = "compiled", !.exit = 1]
      /\ UNCHANGED <<Client, Preprocessor>>
  BY <1>1, Zenon DEF CompilerFails
<1>4. /\ v1 \in CompileTasks /\ v1.stage = "compiled" /\ v1.source = v.source
      /\ v1.exit = 1 /\ v1.pack = v.pack
  BY <1>2, <1>3 DEF CompileTasks
<1>5. v1.directives_only = v.directives_only
  BY <1>2, <1>3 DEF CompileTasks
<1>6. x.stage # "none"
  BY <1>2, <1>3 DEF ServerInv, Stages
<1>7. ServerInv(x, v1, text, flag)
  BY <1>2, <1>3, <1>4, <1>5, ServerCompiles, Zenon
<1>8. QED
  BY <1>1, <1>3, <1>6, <1>7, ServerStep, Zenon

\* A call starts to read the pack at its beginning.
LEMMA WaitForTaskInv == IInv /\ WaitForTask => IInv'
<1> SUFFICES ASSUME IInv, WaitForTask PROVE IInv'
  OBVIOUS
<1>1. PICK x, v, x1, v1, text, flag :
        /\ x = task /\ v = servant /\ x1 = task' /\ v1 = servant'
        /\ text = Text(child.out) /\ flag = (attempt = 1)
  OBVIOUS
<1>2. /\ ServerInv(x, v, text, flag) /\ text \in Seq(TextBlock)
      /\ x \in Tasks /\ v \in CompileTasks
  BY <1>1, ServerParts, Zenon
<1>3. PICK none : none = <<>>
  OBVIOUS
<1>4. none \in PackSeq
  BY <1>3, EmptySeq DEF PackSeq
<1>5. /\ x.stage = "waiting" /\ v.stage = "compiled"
      /\ x1 = [x EXCEPT !.stage = "reading", !.file = none]
      /\ v1 = [v EXCEPT !.sent = 0]
      /\ UNCHANGED <<Client, Preprocessor>>
  BY <1>1, <1>3, Zenon DEF WaitForTask
<1>6. /\ x1 \in Tasks /\ x1.stage = "reading" /\ x1.outputs = x.outputs
      /\ x1.file = none
  BY <1>2, <1>4, <1>5 DEF Tasks
<1>7. x1.directives_only = x.directives_only
  BY <1>2, <1>5 DEF Tasks
<1>8. /\ v1 \in CompileTasks /\ v1.stage = v.stage /\ v1.source = v.source
      /\ v1.exit = v.exit /\ v1.pack = v.pack /\ v1.sent = 0
  BY <1>2, <1>5 DEF CompileTasks
<1>9. v1.directives_only = v.directives_only
  BY <1>2, <1>5 DEF CompileTasks
<1>10. x1.file = SentOf(v.pack, v1.sent)
  <2>1. v.pack \in Seq(PackBlock)
    BY <1>2 DEF CompileTasks, PackSeq
  <2>2. SentOf(v.pack, 0) = <<>>
    BY <2>1, SentEnds
  <2>3. QED
    BY <1>3, <1>6, <1>8, <2>2, Zenon
<1>11. ServerInv(x1, v1, text, flag)
  BY <1>2, <1>5, <1>6, <1>7, <1>8, <1>9, <1>10, ServerSends
<1>12. x.stage # "none"
  BY <1>5
<1>13. QED
  BY <1>1, <1>5, <1>11, <1>12, ServerStep, Zenon

\* The daemon has the first blocks of the pack, one chunk more of them.
LEMMA SendFileInv == IInv /\ SendFile => IInv'
<1> SUFFICES ASSUME IInv, SendFile PROVE IInv'
  OBVIOUS
<1>1. PICK x, v, x1, v1, text, flag :
        /\ x = task /\ v = servant /\ x1 = task' /\ v1 = servant'
        /\ text = Text(child.out) /\ flag = (attempt = 1)
  OBVIOUS
<1>2. /\ ServerInv(x, v, text, flag) /\ text \in Seq(TextBlock)
      /\ x \in Tasks /\ v \in CompileTasks
  BY <1>1, ServerParts, Zenon
<1>3. /\ x.stage = "reading" /\ v.sent < Len(v.pack)
      /\ x1 = [x EXCEPT !.file = @ \o ChunkOf(v.pack, v.sent)]
      /\ v1 = [v EXCEPT !.sent = @ + ChunkSize]
      /\ UNCHANGED <<Client, Preprocessor>>
  BY <1>1, Zenon DEF SendFile
<1>4. PICK file : file = SentOf(v.pack, v.sent + ChunkSize)
  OBVIOUS
<1>5. x.file \o ChunkOf(v.pack, v.sent) = file /\ file \in PackSeq
  <2>1. v.pack \in Seq(PackBlock) /\ v.sent \in Nat
    BY <1>2 DEF CompileTasks, PackSeq
  <2>2. SentOf(v.pack, v.sent) \o ChunkOf(v.pack, v.sent) = file
    BY <1>3, <1>4, <2>1, SentOneMore, Zenon
  <2>3. x.file = SentOf(v.pack, v.sent)
    BY <1>2, <1>3 DEF ServerInv, Packs
  <2>4. v.sent + ChunkSize \in Nat
    BY <2>1, DataPathAssumption
  <2>5. file \in Seq(PackBlock)
    BY <1>4, <2>1, <2>4, SentEnds, Zenon
  <2>6. QED
    BY <2>2, <2>3, <2>5, Zenon DEF PackSeq
<1>6. x1 = [x EXCEPT !.file = file]
  BY <1>2, <1>3, <1>5, Zenon DEF Tasks
<1>7. /\ x1 \in Tasks /\ x1.stage = "reading" /\ x1.outputs = x.outputs
      /\ x1.file = file
  <2>1. x.stage = "reading"
    BY <1>3
  <2>2. QED
    BY <1>2, <1>5, <1>6, <2>1 DEF Tasks
<1>8. x1.directives_only = x.directives_only
  BY <1>2, <1>6 DEF Tasks
<1>9. /\ v1 \in CompileTasks /\ v1.stage = v.stage /\ v1.source = v.source
      /\ v1.exit = v.exit /\ v1.pack = v.pack /\ v1.sent = v.sent + ChunkSize
  <2>1. ChunkSize \in Nat
    BY DataPathAssumption
  <2>2. v \in CompileTasks /\ v1 = [v EXCEPT !.sent = @ + ChunkSize]
    BY <1>2, <1>3
  <2>3. QED
    BY <2>1, <2>2 DEF CompileTasks
<1>10. v1.directives_only = v.directives_only
  BY <1>2, <1>3 DEF CompileTasks
<1>11. x1.file = SentOf(v.pack, v1.sent)
  BY <1>4, <1>7, <1>9, Zenon
<1>12. v.stage = "compiled"
  BY <1>2, <1>3 DEF ServerInv, Stages
<1>13. ServerInv(x1, v1, text, flag)
  <2>1. x.stage \in {"waiting", "reading"}
    BY <1>3
  <2>2. QED
    BY <1>2, <1>7, <1>8, <1>9, <1>10, <1>11, <1>12, <2>1, ServerSends, Zenon
<1>14. x.stage # "none"
  BY <1>3
<1>15. QED
  BY <1>1, <1>3, <1>13, <1>14, ServerStep, Zenon

\* What an earlier call has read is dropped, and a task of no retries fails.
LEMMA WaitFailsInv == IInv /\ WaitFails => IInv'
<1> SUFFICES ASSUME IInv, WaitFails PROVE IInv'
  OBVIOUS
<1>1. PICK x, v, x1, text, flag :
        /\ x = task /\ v = servant /\ x1 = task'
        /\ text = Text(child.out) /\ flag = (attempt = 1)
  OBVIOUS
<1>2. /\ ServerInv(x, v, text, flag) /\ text \in Seq(TextBlock)
      /\ x \in Tasks /\ v \in CompileTasks
  BY <1>1, ServerParts, Zenon
<1>3. PICK exit : exit = -1
  OBVIOUS
<1>4. /\ x.stage \in {"waiting", "reading"} /\ servant' = v
      /\ UNCHANGED <<Client, Preprocessor>>
  BY <1>1, Zenon DEF WaitFails
<1>5. x.stage # "none" /\ x.stage \in {"sent", "waiting", "reading"}
  BY <1>4
<1>6. CASE x.retries = 1
  <2>1. TaskDone(exit, <<>>)
    BY <1>1, <1>3, <1>6, Zenon DEF WaitFails
  <2>2. exit \in {-1, 1}
    BY <1>3
  <2>3. /\ x1 \in Tasks /\ x1.stage = "done" /\ x1.exit # 0
        /\ x1.directives_only = x.directives_only
        /\ x1.outputs = <<>>
    BY <1>1, <1>2, <2>1, <2>2, FailedTask, Zenon
  <2>4. ServerInv(x1, v, text, flag)
    BY <1>2, <1>5, <2>3, ServerFails, Zenon
  <2>5. QED
    BY <1>1, <1>4, <1>5, <2>4, ServerStep, Zenon
<1>7. CASE x.retries # 1
  <2>1. PICK retries : retries = x.retries - 1
    OBVIOUS
  <2>2. x1 = [x EXCEPT !.stage = "waiting", !.retries = retries]
    BY <1>1, <1>2, <1>7, <2>1, Zenon DEF WaitFails, Tasks
  <2>3. retries \in 1 .. Retries
    BY <1>2, <1>7, <2>1, DataPathAssumption DEF Tasks
  <2>4. x1 \in Tasks /\ x1.stage = "waiting" /\ x1.outputs = x.outputs
    BY <1>2, <2>2, <2>3 DEF Tasks
  <2>5. x1.directives_only = x.directives_only
    BY <1>2, <2>2 DEF Tasks
  <2>6. v.stage \in {"prepared", "compiled"}
    BY <1>2, <1>4 DEF ServerInv, Stages
  <2>7. ServerInv(x1, v, text, flag)
    BY <1>2, <1>5, <2>4, <2>5, <2>6, ServerWaits, Zenon
  <2>8. QED
    BY <1>1, <1>4, <1>5, <2>7, ServerStep, Zenon
<1>8. QED
  BY <1>6, <1>7

\* What has been read when the stream ends is the whole pack, and unpacks.
LEMMA WaitServantTaskInv == IInv /\ WaitServantTask => IInv'
<1> SUFFICES ASSUME IInv, WaitServantTask PROVE IInv'
  OBVIOUS
<1>1. PICK x, v, x1, text, flag :
        /\ x = task /\ v = servant /\ x1 = task'
        /\ text = Text(child.out) /\ flag = (attempt = 1)
  OBVIOUS
<1>2. /\ ServerInv(x, v, text, flag) /\ text \in Seq(TextBlock) /\ flag \in Flags
      /\ x \in Tasks /\ v \in CompileTasks
  BY <1>1, ServerParts, Zenon
<1>3. /\ x.stage = "reading" /\ v.sent >= Len(v.pack) /\ servant' = v
      /\ UNCHANGED <<Client, Preprocessor>>
  BY <1>1, Zenon DEF WaitServantTask
<1>4. x.stage # "none" /\ x.stage \in {"sent", "waiting", "reading"}
  BY <1>3
<1>5. ASSUME NEW exit \in {-1, 1}, TaskDone(exit, <<>>)
      PROVE  IInv'
  <2>1. /\ x1 \in Tasks /\ x1.stage = "done" /\ x1.exit # 0
        /\ x1.directives_only = x.directives_only
        /\ x1.outputs = <<>>
    BY <1>1, <1>2, <1>5, FailedTask, Zenon
  <2>2. ServerInv(x1, v, text, flag)
    BY <1>2, <1>4, <2>1, ServerFails, Zenon
  <2>3. QED
    BY <1>1, <1>3, <1>4, <2>2, ServerStep, Zenon
<1>6. CASE v.exit # 0 /\ TaskDone(v.exit, <<>>)
  <2>1. v.exit \in {-1, 1}
    BY <1>2, <1>6 DEF CompileTasks
  <2>2. QED
    BY <1>5, <1>6, <2>1, Zenon
<1>7. CASE TaskDone(-1, <<>>)
  <2>1. -1 \in {-1, 1}
    OBVIOUS
  <2>2. QED
    BY <1>5, <1>7, <2>1, Zenon
<1>8. ASSUME v.exit = 0, x.file # <<>>, NEW files \in TryUnpackFiles(x.file),
             TaskDone(0, files)
      PROVE  IInv'
  <2>1. PICK product \in Products :
          product # <<>> /\ TryUnpackFiles(x.file) \subseteq {FilesFor(product, flag, text)}
    BY <1>2, <1>3, <1>8, ReadPack, Zenon
  <2>2. files \in FilesSeq
    <3>1. text \in Seq(Block)
      BY <1>2, TextAndFrame
    <3>2. files = FilesFor(product, flag, text)
      BY <2>1
    <3>3. QED
      BY <1>2, <3>1, <3>2, FilesForType, Zenon DEF FilesSeq
  <2>3. PICK exit : exit = 0
    OBVIOUS
  <2>4. exit \in Exits /\ ~(exit < 0)
    BY <2>3 DEF Exits
  <2>5. /\ x1 \in Tasks /\ x1.stage = "done" /\ x1.exit = exit
        /\ x1.directives_only = x.directives_only
        /\ x1.outputs = files
    BY <1>1, <1>2, <1>8, <2>2, <2>3, <2>4, DoneTask, Zenon
  <2>6. ServerInv(x1, v, text, flag)
    BY <1>2, <1>3, <1>8, <2>3, <2>5, ServerAnswers, Zenon
  <2>7. QED
    BY <1>1, <1>3, <1>4, <2>6, ServerStep, Zenon
<1>9. QED
  BY <1>1, <1>6, <1>7, <1>8, Zenon DEF WaitServantTask, UnpackThrows

-----------------------------------------------------------------------------
(***************************************************************************)
(* The preprocessor and the client.                                        *)
(***************************************************************************)

\* A step before a task is submitted.
LEMMA EarlyStep ==
    ASSUME IInv, UNCHANGED <<task, servant>>, task.stage = "none",
           ClientTypes', Reading', Progress'
    PROVE  IInv'
<1>1. PICK x, v, text, flag, text2, flag2 :
        /\ x = task /\ v = servant /\ text = Text(child.out) /\ flag = (attempt = 1)
        /\ text2 = Text(child.out)' /\ flag2 = (attempt' = 1)
  OBVIOUS
<1>2. task' = x /\ servant' = v
  BY <1>1
<1>3. ServerInv(x, v, text, flag) /\ x.stage = "none"
  BY <1>1, Zenon DEF IInv
<1>4. ServerInv(x, v, text2, flag2)
  BY <1>3, ServerAnyText, Zenon
<1>5. ServerInv(task, servant, Text(child.out), attempt = 1)'
  BY <1>1, <1>2, <1>4, Zenon
<1>6. QED
  BY <1>5, Zenon DEF IInv

\* A step that touches neither a text nor a task.
LEMMA LateStep ==
    ASSUME IInv, UNCHANGED <<attempt, child, task, servant>>,
           ClientTypes', Reading', Progress'
    PROVE  IInv'
<1>1. attempt' = attempt /\ child' = child /\ task' = task /\ servant' = servant
  OBVIOUS
<1>2. Text(child.out)' = Text(child.out)
  BY <1>1 DEF Text
<1>3. ServerInv(task, servant, Text(child.out), attempt = 1)'
  BY <1>1, <1>2, Zenon DEF IInv
<1>4. QED
  BY <1>3, Zenon DEF IInv

\* While the preprocessor runs, the client reads.
LEMMA RunningIsRead ==
    ASSUME IInv, child.status = "running"
    PROVE  /\ pc \in {"poll", "handle"} /\ task.stage = "none" /\ disk = NoFiles
           /\ ~Ended /\ "out" \in open
           /\ stream \o pipe.out = Text(child.out)
<1>1. ~Ended
  BY DEF Ended
<1>2. pc \in {"poll", "handle"}
  BY <1>1 DEF IInv, ClientTypes, Reading
<1>3. /\ stream \o pipe.out = Text(child.out)
      /\ "out" \in open \/ (pipe.out = <<>> /\ Ended)
  BY <1>2, Zenon DEF IInv, Reading
<1>4. task.stage = "none" /\ disk = NoFiles
  BY <1>2 DEF IInv, Progress
<1>5. QED
  BY <1>1, <1>2, <1>3, <1>4, Zenon

\* The text and the fields of the client's types.
LEMMA ClientFields ==
    ASSUME ClientTypes
    PROVE  /\ pipe.out \in Seq(TextBlock) /\ pipe.err \in 0 .. PipeSize
           /\ stream \in Seq(TextBlock) /\ attempt \in 1 .. 2
           /\ child.out \in 0 .. Length /\ child.err \in 0 .. Warnings
           /\ child.out \in Nat /\ child.err \in Nat
           /\ Length \in Nat /\ Warnings \in Nat /\ PipeSize \in Nat
<1>1. Length \in Nat /\ Warnings \in Nat /\ PipeSize \in Nat
  BY DataPathAssumption
<1>2. /\ child.out \in 0 .. Length /\ child.err \in 0 .. Warnings
  BY DEF ClientTypes, Children
<1>3. pipe.out \in Seq(TextBlock) /\ pipe.err \in 0 .. PipeSize
  BY DEF ClientTypes
<1>4. QED
  BY <1>1, <1>2, <1>3 DEF ClientTypes

\* The block the child writes is the next of its text.
LEMMA ChildWritesOutInv == IInv /\ ChildWritesOut => IInv'
<1> SUFFICES ASSUME IInv, ChildWritesOut PROVE IInv'
  OBVIOUS
<1>1. /\ pc \in {"poll", "handle"} /\ task.stage = "none" /\ disk = NoFiles
      /\ ~Ended /\ "out" \in open
      /\ stream \o pipe.out = Text(child.out)
  BY RunningIsRead DEF ChildWritesOut
<1>2. PICK n, c, c1, p, p1, b :
        /\ n = child.out /\ c = child /\ c1 = child' /\ p = pipe /\ p1 = pipe'
        /\ b = <<"text", attempt, child.out + 1>>
  OBVIOUS
<1>3. /\ c.status = "running" /\ n < Length /\ Len(p.out) < PipeSize
      /\ c1 = [c EXCEPT !.out = @ + 1]
      /\ p1 = [p EXCEPT !.out = Append(@, b)]
      /\ UNCHANGED <<Client, task, servant>>
  BY <1>2, Zenon DEF ChildWritesOut
<1>4. /\ UNCHANGED <<pc, attempt, open, ready, stream, rewritten, disk>>
      /\ UNCHANGED <<task, servant>>
  BY <1>3 DEF Client
<1>5. ClientTypes
  BY DEF IInv
<1>6. /\ n \in Nat /\ p.out \in Seq(TextBlock) /\ stream \in Seq(TextBlock)
      /\ Length \in Nat /\ PipeSize \in Nat /\ attempt \in 1 .. 2
      /\ c \in Children /\ p \in [out : Seq(TextBlock), err : 0 .. PipeSize]
      /\ n = c.out
  BY <1>2, <1>5, ClientFields DEF ClientTypes
<1>7. c1 \in Children /\ c1.status = "running" /\ c1.out = n + 1
  <2>1. c1 = [c EXCEPT !.out = @ + 1] /\ c.status = "running" /\ n < Length
    BY <1>3
  <2>2. QED
    BY <1>6, <2>1 DEF Children
<1>8. b \in TextBlock /\ Text(n + 1) = Append(Text(n), b) /\ Text(n) \in Seq(TextBlock)
  BY <1>2, <1>6, TextType
<1>9. PICK out : out = Append(p.out, b)
  OBVIOUS
<1>10. out \in Seq(TextBlock) /\ Len(out) = Len(p.out) + 1 /\ out # <<>>
  BY <1>6, <1>8, <1>9, AppendProperties
<1>11. p1 \in [out : Seq(TextBlock), err : 0 .. PipeSize] /\ p1.out = out
  <2>1. PICK S : S = Seq(TextBlock)
    OBVIOUS
  <2>2. p \in [out : S, err : 0 .. PipeSize] /\ out \in S
    BY <1>6, <1>10, <2>1, Zenon
  <2>3. p1 = [p EXCEPT !.out = out]
    BY <1>3, <1>9, <2>2, Zenon
  <2>4. p1 \in [out : S, err : 0 .. PipeSize] /\ p1.out = out
    BY <2>2, <2>3
  <2>5. QED
    BY <2>1, <2>4, Zenon
<1>12. Len(out) <= PipeSize
  <2>1. Len(p.out) \in Nat
    BY <1>6
  <2>2. QED
    BY <1>3, <1>6, <1>10, <2>1
<1>13. ClientTypes'
  BY <1>2, <1>4, <1>5, <1>7, <1>11, <1>12 DEF ClientTypes
<1>14. ~Ended'
  BY <1>2, <1>7 DEF Ended
<1>15. Text(child.out)' = Text(n + 1)
  BY <1>2, <1>4, <1>7, Zenon DEF Text
<1>16. stream \o out = Text(n + 1)
  <2>1. PICK s, q : s = stream /\ q = p.out
    OBVIOUS
  <2>2. s \in Seq(TextBlock) /\ q \in Seq(TextBlock) /\ s \o q = Text(n)
    BY <1>1, <1>2, <1>6, <2>1, Zenon
  <2>3. PICK one : one = <<b>>
    OBVIOUS
  <2>4. one \in Seq(TextBlock)
    BY <1>8, <2>3
  <2>5. out = q \o one
    BY <1>8, <1>9, <2>1, <2>2, <2>3, AppendIsConcat
  <2>6. (s \o q) \o one = s \o (q \o one)
    <3>1. s \in Seq(TextBlock) /\ q \in Seq(TextBlock)
      BY <2>2
    <3>2. QED
      BY <2>4, <3>1, ConcatAssociative
  <2>7. Append(Text(n), b) = Text(n) \o one
    BY <1>8, <2>3, AppendIsConcat
  <2>8. QED
    BY <1>8, <2>1, <2>2, <2>5, <2>6, <2>7, Zenon
<1>17. pipe'.out = out
  BY <1>2, <1>11
<1>18. Reading'
  <2>1. (stream \o pipe.out)' = Text(child.out)'
    BY <1>4, <1>15, <1>16, <1>17, Zenon
  <2>2. "out" \in open' /\ pipe'.out # <<>> /\ pc' \in {"poll", "handle"}
    BY <1>1, <1>4, <1>10, <1>17
  <2>3. pc' # "start"
    BY <2>2
  <2>4. QED
    BY <2>1, <2>2, <2>3, Zenon DEF Reading
<1>19. Progress'
  BY <1>1, <1>4 DEF Progress
<1>20. QED
  BY <1>1, <1>4, <1>13, <1>18, <1>19, EarlyStep, Zenon

\* Warnings do not touch the text.
LEMMA ChildWritesErrInv == IInv /\ ChildWritesErr => IInv'
<1> SUFFICES ASSUME IInv, ChildWritesErr PROVE IInv'
  OBVIOUS
<1>1. /\ pc \in {"poll", "handle"} /\ task.stage = "none" /\ disk = NoFiles
      /\ ~Ended /\ "out" \in open
      /\ stream \o pipe.out = Text(child.out)
  BY RunningIsRead DEF ChildWritesErr
<1>2. PICK c, c1, p, p1 : c = child /\ c1 = child' /\ p = pipe /\ p1 = pipe'
  OBVIOUS
<1>3. /\ c.status = "running" /\ c.err < Warnings /\ p.err < PipeSize
      /\ c1 = [c EXCEPT !.err = @ + 1]
      /\ p1 = [p EXCEPT !.err = @ + 1]
      /\ UNCHANGED <<Client, task, servant>>
  BY <1>2, Zenon DEF ChildWritesErr
<1>4. /\ UNCHANGED <<pc, attempt, open, ready, stream, rewritten, disk>>
      /\ UNCHANGED <<task, servant>>
  BY <1>3 DEF Client
<1>5. ClientTypes
  BY DEF IInv
<1>6. /\ Warnings \in Nat /\ PipeSize \in Nat
      /\ c \in Children /\ p \in [out : Seq(TextBlock), err : 0 .. PipeSize]
  BY <1>2, <1>5, ClientFields DEF ClientTypes
<1>7. c1 \in Children /\ c1.status = "running" /\ c1.out = c.out
  <2>1. c1 = [c EXCEPT !.err = @ + 1] /\ c.status = "running" /\ c.err < Warnings
    BY <1>3
  <2>2. QED
    BY <1>6, <2>1 DEF Children
<1>8. p1 \in [out : Seq(TextBlock), err : 0 .. PipeSize] /\ p1.out = p.out
  <2>1. PICK S : S = Seq(TextBlock)
    OBVIOUS
  <2>2. p \in [out : S, err : 0 .. PipeSize]
    BY <1>6, <2>1, Zenon
  <2>3. p1 = [p EXCEPT !.err = @ + 1] /\ p.err < PipeSize
    BY <1>3
  <2>4. p1 \in [out : S, err : 0 .. PipeSize] /\ p1.out = p.out
    BY <1>6, <2>2, <2>3
  <2>5. QED
    BY <2>1, <2>4, Zenon
<1>9. ClientTypes'
  BY <1>2, <1>4, <1>5, <1>7, <1>8 DEF ClientTypes
<1>10. ~Ended'
  BY <1>2, <1>7 DEF Ended
<1>11. Text(child.out)' = Text(child.out)
  BY <1>2, <1>4, <1>7, Zenon DEF Text
<1>12. pipe'.out = pipe.out
  BY <1>2, <1>8
<1>13. Reading'
  <2>1. (stream \o pipe.out)' = Text(child.out)'
    BY <1>1, <1>4, <1>11, <1>12, Zenon
  <2>2. "out" \in open' /\ pc' \in {"poll", "handle"} /\ pc' # "start"
    BY <1>1, <1>4
  <2>3. pc' = "handle" /\ "out" \in ready' => pipe'.out # <<>>
    BY <1>1, <1>4, <1>12, Zenon DEF IInv, Reading
  <2>4. QED
    BY <2>1, <2>2, <2>3, Zenon DEF Reading
<1>14. Progress'
  BY <1>1, <1>4 DEF Progress
<1>15. QED
  BY <1>1, <1>4, <1>9, <1>13, <1>14, EarlyStep, Zenon

\* The preprocessor ends, one way or the other.
LEMMA ChildEnds ==
    ASSUME IInv, child.status = "running",
           NEW status \in {"succeeded", "failed", "killed"},
           child' = [child EXCEPT !.status = status],
           UNCHANGED <<Client, pipe, task, servant>>
    PROVE  IInv'
<1>1. /\ pc \in {"poll", "handle"} /\ task.stage = "none" /\ disk = NoFiles
      /\ ~Ended /\ "out" \in open
      /\ stream \o pipe.out = Text(child.out)
  BY RunningIsRead
<1>2. PICK c, c1 : c = child /\ c1 = child'
  OBVIOUS
<1>3. c1 = [c EXCEPT !.status = status]
  BY <1>2, Zenon
<1>4. /\ UNCHANGED <<pc, attempt, open, ready, stream, rewritten, disk>>
      /\ UNCHANGED <<pipe, task, servant>>
  BY DEF Client
<1>5. ClientTypes /\ c \in Children
  BY <1>2 DEF IInv, ClientTypes
<1>6. c1 \in Children /\ c1.status = status /\ c1.out = c.out
  BY <1>3, <1>5 DEF Children
<1>7. ClientTypes'
  BY <1>2, <1>4, <1>5, <1>6 DEF ClientTypes
<1>8. Ended'
  BY <1>2, <1>6 DEF Ended
<1>9. Text(child.out)' = Text(child.out)
  BY <1>2, <1>4, <1>6, Zenon DEF Text
<1>10. Reading'
  <2>1. (stream \o pipe.out)' = Text(child.out)'
    BY <1>1, <1>4, <1>9, Zenon
  <2>2. "out" \in open' /\ pc' # "start"
    BY <1>1, <1>4
  <2>3. QED
    BY <1>8, <2>1, <2>2, Zenon DEF Reading
<1>11. Progress'
  BY <1>1, <1>4 DEF Progress
<1>12. UNCHANGED <<task, servant>>
  BY <1>4
<1>13. QED
  BY <1>1, <1>7, <1>10, <1>11, <1>12, EarlyStep, Zenon

\* The end of a child leaves its text, and the pipe, as they are.
LEMMA ChildSucceedsInv == IInv /\ ChildSucceeds => IInv'
  BY ChildEnds DEF ChildSucceeds

\* So does a failure.
LEMMA ChildFailsInv == IInv /\ ChildFails => IInv'
  BY ChildEnds DEF ChildFails

\* Fresh pipes for a new child.
LEMMA StartsProgram ==
    ASSUME IInv, NEW n \in 1 .. 2, StartProgram(n),
           UNCHANGED <<rewritten, task, servant, disk>>,
           pc \in {"start", "poll"}
    PROVE  IInv'
<1>1. /\ attempt' = n /\ child' = [status |-> "running", out |-> 0, err |-> 0]
      /\ pipe' = [out |-> <<>>, err |-> 0]
      /\ open' = Descriptors /\ ready' = {} /\ stream' = <<>> /\ pc' = "poll"
  BY DEF StartProgram, NoChild
<1>2. rewritten' = rewritten /\ task' = task /\ servant' = servant /\ disk' = disk
  OBVIOUS
<1>3. task.stage = "none" /\ disk = NoFiles
  BY DEF IInv, Progress
<1>4. Length \in Nat /\ Warnings \in Nat /\ PipeSize \in Nat
  BY DataPathAssumption
<1>5. <<>> \in Seq(TextBlock) /\ Len(<<>>) = 0
  BY EmptySeq
<1>6. child' \in Children /\ child'.out = 0
  BY <1>1, <1>4 DEF Children
<1>7. pipe' \in [out : Seq(TextBlock), err : 0 .. PipeSize] /\ pipe'.out = <<>>
  BY <1>1, <1>4, <1>5
<1>8. ClientTypes'
  BY <1>1, <1>2, <1>4, <1>5, <1>6, <1>7 DEF IInv, ClientTypes
<1>9. Text(child.out)' = <<>>
  <2>1. Text(child.out)' = [i \in 1 .. 0 |-> <<"text", n, i>>]
    BY <1>1, <1>6, Zenon DEF Text
  <2>2. [i \in 1 .. 0 |-> <<"text", n, i>>] = <<>>
    OBVIOUS
  <2>3. QED
    BY <2>1, <2>2
<1>10. Reading'
  <2>1. (stream \o pipe.out)' = Text(child.out)'
    <3>1. <<>> \o <<>> = <<>>
      BY <1>5, ConcatEmptySeq
    <3>2. QED
      BY <1>1, <1>7, <1>9, <3>1, Zenon
  <2>2. "out" \in open' /\ pc' = "poll"
    BY <1>1 DEF Descriptors
  <2>3. pc' # "handle" /\ pc' # "start" /\ pc' \in {"start", "poll", "handle"}
    BY <2>2
  <2>4. QED
    BY <2>1, <2>2, <2>3, Zenon DEF Reading
<1>11. Progress'
  BY <1>1, <1>2, <1>3 DEF Progress
<1>12. UNCHANGED <<task, servant>>
  BY <1>2
<1>13. QED
  BY <1>3, <1>8, <1>10, <1>11, <1>12, EarlyStep, Zenon

\* The first attempt.
LEMMA RewriteFileInv == IInv /\ RewriteFile => IInv'
  BY StartsProgram DEF RewriteFile

\* The output is reported only when there is some or the child has ended.
LEMMA PollInv == IInv /\ Poll => IInv'
<1> SUFFICES ASSUME IInv, Poll PROVE IInv'
  OBVIOUS
<1>1. /\ pc = "poll" /\ pc' = "handle" /\ ready' = {fd \in Watched : HasEvent(fd)}
      /\ UNCHANGED <<attempt, Preprocessor, open, stream, rewritten, task, servant,
                     disk>>
  BY DEF Poll
<1>2. /\ UNCHANGED <<attempt, child, pipe, open, stream, rewritten, disk>>
      /\ UNCHANGED <<task, servant>>
  BY <1>1 DEF Preprocessor
<1>3. task.stage = "none" /\ disk = NoFiles
  BY <1>1 DEF IInv, Progress
<1>4. ready' \subseteq open
  BY <1>1 DEF Watched
<1>5. "out" \in ready' => pipe.out # <<>> \/ Ended
  <2>1. ASSUME "out" \in ready' PROVE HasEvent("out")
    BY <1>1, <2>1
  <2>2. HasEvent("out") => pipe.out # <<>> \/ Ended
    BY DEF HasEvent
  <2>3. QED
    BY <2>1, <2>2
<1>6. ClientTypes'
  BY <1>1, <1>2, <1>4 DEF IInv, ClientTypes
<1>7. Text(child.out)' = Text(child.out) /\ Ended' = Ended
  BY <1>2 DEF Text, Ended
<1>8. Reading'
  <2>1. /\ stream \o pipe.out = Text(child.out)
        /\ "out" \in open \/ (pipe.out = <<>> /\ Ended)
    BY <1>1 DEF IInv, Reading
  <2>2. pc' # "start" /\ pc' \in {"start", "poll", "handle"}
    BY <1>1
  <2>3. QED
    BY <1>2, <1>5, <1>7, <2>1, <2>2, Zenon DEF Reading
<1>9. Progress'
  BY <1>1, <1>2, <1>3 DEF Progress
<1>10. QED
  BY <1>2, <1>3, <1>6, <1>8, <1>9, EarlyStep, Zenon

\* A descriptor is taken: what it leaves alone, and where the loop goes on.
LEMMA TakesOne ==
    ASSUME IInv, NEW fd \in Descriptors, Take(fd)
    PROVE  /\ pc = "handle" /\ fd \in ready /\ fd \in open
           /\ ready' = ready \ {fd}
           /\ pc' \in {"poll", "handle"}
           /\ UNCHANGED <<attempt, child, rewritten, task, servant, disk>>
           /\ task.stage = "none" /\ disk = NoFiles
           /\ Text(child.out)' = Text(child.out) /\ Ended' = Ended
           /\ stream \o pipe.out = Text(child.out)
<1>1. /\ pc = "handle" /\ fd \in ready /\ ready' = ready \ {fd}
      /\ pc' \in {"poll", "handle"}
      /\ UNCHANGED <<attempt, child, rewritten, task, servant, disk>>
  BY DEF Take
<1>2. fd \in open
  BY <1>1 DEF IInv, ClientTypes
<1>3. task.stage = "none" /\ disk = NoFiles
  BY <1>1 DEF IInv, Progress
<1>4. stream \o pipe.out = Text(child.out)
  BY <1>1 DEF IInv, Reading
<1>5. Text(child.out)' = Text(child.out) /\ Ended' = Ended
  BY <1>1 DEF Text, Ended
<1>6. QED
  BY <1>1, <1>2, <1>3, <1>4, <1>5

\* The output is left alone.
LEMMA OutputLater ==
    ASSUME IInv, NEW fd \in {"in", "err"}, Take(fd),
           pipe' \in [out : Seq(TextBlock), err : 0 .. PipeSize],
           pipe'.out = pipe.out, UNCHANGED stream,
           open' \subseteq open, open \ {fd} \subseteq open'
    PROVE  IInv'
<1>0. fd \in Descriptors
  BY DEF Descriptors
<1>1. /\ pc = "handle" /\ fd \in ready /\ fd \in open
      /\ ready' = ready \ {fd}
      /\ pc' \in {"poll", "handle"}
      /\ UNCHANGED <<attempt, child, rewritten, task, servant, disk>>
      /\ task.stage = "none" /\ disk = NoFiles
      /\ Text(child.out)' = Text(child.out) /\ Ended' = Ended
      /\ stream \o pipe.out = Text(child.out)
  BY <1>0, TakesOne
<1>2. ready' \subseteq open' /\ ("out" \in ready' => "out" \in ready)
      /\ ("out" \in open => "out" \in open')
  BY <1>1 DEF IInv, ClientTypes
<1>3. ClientTypes'
  <2>1. Len(pipe'.out) <= PipeSize /\ open' \subseteq Descriptors
    BY DEF IInv, ClientTypes
  <2>2. attempt' = attempt /\ child' = child /\ rewritten' = rewritten
    BY <1>1
  <2>3. pc' \in {"poll", "handle"}
    BY <1>1
  <2>4. QED
    BY <1>2, <2>1, <2>2, <2>3 DEF IInv, ClientTypes
<1>4. Reading'
  <2>1. (stream \o pipe.out)' = Text(child.out)'
    BY <1>1, Zenon
  <2>2. "out" \in open \/ (pipe.out = <<>> /\ Ended)
    BY <1>1, Zenon DEF IInv, Reading
  <2>3. "out" \in ready => pipe.out # <<>> \/ Ended
    BY <1>1, Zenon DEF IInv, Reading
  <2>4. pc' # "start" /\ pc' \in {"start", "poll", "handle"}
    BY <1>1
  <2>5. "out" \in open' \/ (pipe'.out = <<>> /\ Ended')
    BY <1>1, <1>2, <2>2, Zenon
  <2>6. "out" \in ready' => pipe'.out # <<>> \/ Ended'
    BY <1>1, <1>2, <2>3, Zenon
  <2>7. QED
    BY <2>1, <2>4, <2>5, <2>6, Zenon DEF Reading
<1>5. Progress'
  <2>1. pc' \in {"poll", "handle"} /\ task' = task /\ task.stage = "none"
        /\ disk' = disk /\ disk = NoFiles
    BY <1>1
  <2>2. QED
    BY <2>1 DEF Progress
<1>6. UNCHANGED <<task, servant>> /\ task.stage = "none"
  BY <1>1
<1>7. QED
  BY <1>3, <1>4, <1>5, <1>6, EarlyStep, Zenon

\* Writing nothing to the child leaves its output alone.
LEMMA HandleStdinInv == IInv /\ HandleStdin => IInv'
<1> SUFFICES ASSUME IInv, HandleStdin PROVE IInv'
  OBVIOUS
<1>1. /\ Take("in") /\ open' = open \ {"in"} /\ pipe' = pipe /\ stream' = stream
  BY DEF HandleStdin
<1>2. pipe' \in [out : Seq(TextBlock), err : 0 .. PipeSize] /\ pipe'.out = pipe.out
  BY <1>1 DEF IInv, ClientTypes
<1>3. open' \subseteq open /\ open \ {"in"} \subseteq open' /\ UNCHANGED stream
  BY <1>1
<1>4. PICK fd \in {"in", "err"} : fd = "in"
  OBVIOUS
<1>5. Take(fd) /\ open \ {fd} \subseteq open'
  BY <1>1, <1>3, <1>4, Zenon
<1>6. QED
  BY <1>2, <1>3, <1>5, OutputLater, Zenon

\* Reading warnings leaves the output alone.
LEMMA HandleStderrInv == IInv /\ HandleStderr => IInv'
<1> SUFFICES ASSUME IInv, HandleStderr PROVE IInv'
  OBVIOUS
<1>1. /\ Take("err") /\ open' = open \ (IF pipe.err = 0 THEN {"err"} ELSE {})
      /\ pipe' = [pipe EXCEPT !.err = 0] /\ UNCHANGED stream
  BY DEF HandleStderr
<1>2. pipe' \in [out : Seq(TextBlock), err : 0 .. PipeSize] /\ pipe'.out = pipe.out
  <2>1. PICK p, p1, S : p = pipe /\ p1 = pipe' /\ S = Seq(TextBlock)
    OBVIOUS
  <2>2. p \in [out : S, err : 0 .. PipeSize] /\ p1 = [p EXCEPT !.err = 0]
    BY <1>1, <2>1, Zenon DEF IInv, ClientTypes
  <2>3. PipeSize \in Nat
    BY DataPathAssumption
  <2>4. p1 \in [out : S, err : 0 .. PipeSize] /\ p1.out = p.out
    BY <2>2, <2>3
  <2>5. QED
    BY <2>1, <2>4, Zenon
<1>3. open' \subseteq open /\ open \ {"err"} \subseteq open'
  BY <1>1
<1>4. PICK fd \in {"in", "err"} : fd = "err"
  OBVIOUS
<1>5. Take(fd) /\ open \ {fd} \subseteq open'
  BY <1>1, <1>3, <1>4, Zenon
<1>6. QED
  BY <1>1, <1>2, <1>3, <1>5, OutputLater, Zenon

\* The end of the output is seen only when the child has ended.
LEMMA HandleStdoutInv == IInv /\ HandleStdout => IInv'
<1> SUFFICES ASSUME IInv, HandleStdout PROVE IInv'
  OBVIOUS
<1>1. /\ Take("out") /\ stream' = stream \o pipe.out
      /\ pipe' = [pipe EXCEPT !.out = <<>>]
      /\ open' = open \ (IF pipe.out = <<>> THEN {"out"} ELSE {})
  BY DEF HandleStdout
<1>2. "out" \in Descriptors
  BY DEF Descriptors
<1>3. /\ pc = "handle" /\ "out" \in ready /\ "out" \in open
      /\ ready' = ready \ {"out"}
      /\ pc' \in {"poll", "handle"}
      /\ UNCHANGED <<attempt, child, rewritten, task, servant, disk>>
      /\ task.stage = "none" /\ disk = NoFiles
      /\ Text(child.out)' = Text(child.out) /\ Ended' = Ended
      /\ stream \o pipe.out = Text(child.out)
  BY <1>1, <1>2, TakesOne
<1>4. ClientTypes
  BY DEF IInv
<1>5. PICK none : none = <<>>
  OBVIOUS
<1>6. none \in Seq(TextBlock) /\ Len(none) = 0
  BY <1>5, EmptySeq
<1>7. pipe' \in [out : Seq(TextBlock), err : 0 .. PipeSize] /\ pipe'.out = none
  <2>1. PICK p, p1, S : p = pipe /\ p1 = pipe' /\ S = Seq(TextBlock)
    OBVIOUS
  <2>2. p \in [out : S, err : 0 .. PipeSize] /\ p1 = [p EXCEPT !.out = none] /\ none \in S
    BY <1>1, <1>4, <1>5, <1>6, <2>1, Zenon DEF ClientTypes
  <2>3. p1 \in [out : S, err : 0 .. PipeSize] /\ p1.out = none
    BY <2>2
  <2>4. QED
    BY <2>1, <2>3, Zenon
<1>8. stream' = Text(child.out)
  BY <1>1, <1>3, Zenon
<1>9. Text(child.out) \in Seq(TextBlock) /\ Len(Text(child.out)) <= Length
  <2>1. attempt \in 1 .. 2 /\ child.out \in Nat /\ child.out \in 0 .. Length
    BY <1>4, ClientFields
  <2>2. Text(child.out) \in Seq(TextBlock) /\ Len(Text(child.out)) = child.out
    BY <2>1, TextType
  <2>3. QED
    BY <2>1, <2>2
<1>10. PipeSize \in Nat
  BY DataPathAssumption
<1>11. open' \subseteq open /\ ready' \subseteq open'
  BY <1>1, <1>3, <1>4 DEF ClientTypes
<1>12. ClientTypes'
  <2>1. attempt' = attempt /\ child' = child /\ rewritten' = rewritten
    BY <1>3
  <2>2. pc' \in {"poll", "handle"}
    BY <1>3
  <2>3. Len(pipe'.out) <= PipeSize
    BY <1>6, <1>7, <1>10
  <2>4. QED
    BY <1>4, <1>7, <1>8, <1>9, <1>11, <2>1, <2>2, <2>3 DEF ClientTypes
<1>13. Reading'
  <2>1. (stream \o pipe.out)' = Text(child.out)'
    <3>1. Text(child.out) \o none = Text(child.out)
      BY <1>5, <1>9, ConcatEmptySeq, Zenon
    <3>2. QED
      BY <1>3, <1>7, <1>8, <3>1, Zenon
  <2>2. "out" \in open' \/ (pipe'.out = <<>> /\ Ended')
    <3>1. pipe.out # <<>> \/ Ended
      BY <1>3, Zenon DEF IInv, Reading
    <3>2. CASE pipe.out = <<>>
      BY <1>3, <1>5, <1>7, <3>1, <3>2, Zenon
    <3>3. CASE pipe.out # <<>>
      BY <1>1, <1>3, <3>3
    <3>4. QED
      BY <3>2, <3>3
  <2>3. "out" \notin ready' /\ pc' # "start" /\ pc' \in {"start", "poll", "handle"}
    BY <1>3
  <2>4. QED
    BY <2>1, <2>2, <2>3, Zenon DEF Reading
<1>14. Progress'
  <2>1. pc' \in {"poll", "handle"} /\ task' = task /\ task.stage = "none"
        /\ disk' = disk /\ disk = NoFiles
    BY <1>3
  <2>2. QED
    BY <2>1 DEF Progress
<1>15. UNCHANGED <<task, servant>> /\ task.stage = "none"
  BY <1>3
<1>16. QED
  BY <1>12, <1>13, <1>14, <1>15, EarlyStep, Zenon

\* A rewriting that succeeds has read all of the text.
LEMMA RewrittenInv == IInv /\ Rewritten => IInv'
<1> SUFFICES ASSUME IInv, Rewritten PROVE IInv'
  OBVIOUS
<1>1. /\ pc = "poll" /\ open = {} /\ Ended /\ pc' = "rewritten"
      /\ rewritten' = [directives_only |-> attempt = 1, zstd |-> ZSTDCompress(stream)]
      /\ UNCHANGED <<attempt, Preprocessor, open, ready, stream, task, servant, disk>>
  BY DEF Rewritten
<1>2. /\ UNCHANGED <<attempt, child, pipe, open, ready, stream, disk>>
      /\ UNCHANGED <<task, servant>>
  BY <1>1 DEF Preprocessor
<1>3. task.stage = "none" /\ disk = NoFiles
  BY <1>1 DEF IInv, Progress
<1>4. Text(child.out) \in Seq(TextBlock) /\ (attempt = 1) \in Flags
  BY WholeType DEF IInv
<1>5. stream = Text(child.out)
  <2>1. /\ stream \o pipe.out = Text(child.out)
        /\ "out" \in open \/ (pipe.out = <<>> /\ Ended)
    BY <1>1, Zenon DEF IInv, Reading
  <2>2. pipe.out = <<>>
    BY <1>1, <2>1
  <2>3. PICK s : s = stream
    OBVIOUS
  <2>4. s \in Seq(TextBlock)
    BY <2>3 DEF IInv, ClientTypes
  <2>5. s \o <<>> = s
    BY <2>4, ConcatEmptySeq
  <2>6. QED
    BY <2>1, <2>2, <2>3, <2>5, Zenon
<1>6. PICK z, d : z = ZSTDCompress(stream) /\ d = (attempt = 1)
  OBVIOUS
<1>7. z \in Seq(Block) /\ d \in Flags
  BY <1>4, <1>5, <1>6, TextAndFrame, Zenon
<1>8. rewritten' = [directives_only |-> d, zstd |-> z]
  BY <1>1, <1>6, Zenon
<1>9. rewritten' \in [directives_only : Flags, zstd : Seq(Block)] /\ rewritten'.zstd = z
  BY <1>7, <1>8
<1>10. rewritten'.directives_only = d
  BY <1>8
<1>11. ClientTypes'
  BY <1>1, <1>2, <1>9 DEF IInv, ClientTypes
<1>12. Text(child.out)' = Text(child.out) /\ Ended'
  BY <1>1, <1>2 DEF Text, Ended
<1>13. Reading'
  BY <1>1, <1>12 DEF Reading
<1>14. Progress'
  <2>1. rewritten'.zstd = ZSTDCompress(Text(child.out)')
    BY <1>5, <1>6, <1>9, <1>12, Zenon
  <2>2. rewritten'.directives_only = (attempt' = 1)
    BY <1>2, <1>6, <1>10, Zenon
  <2>3. task'.stage = "none" /\ disk' = NoFiles /\ pc' # "done"
    BY <1>1, <1>2, <1>3
  <2>4. QED
    BY <2>1, <2>2, <2>3, Zenon DEF Progress
<1>15. QED
  BY <1>2, <1>3, <1>11, <1>13, <1>14, EarlyStep, Zenon

\* The client gives the cloud up.
LEMMA GoesNative ==
    ASSUME IInv, pc' = "native", pc # "done", Ended,
           UNCHANGED <<attempt, child, pipe, open, ready, stream, rewritten, disk>>
    PROVE  ClientTypes' /\ Reading' /\ Progress'
<1>1. ClientTypes'
  BY DEF IInv, ClientTypes
<1>2. Ended'
  BY DEF Ended
<1>3. Reading'
  BY <1>2 DEF Reading
<1>4. Progress'
  BY DEF IInv, Progress
<1>5. QED
  BY <1>1, <1>3, <1>4

\* A second attempt has its own text, and forgets the first.
LEMMA NotRewrittenInv == IInv /\ NotRewritten => IInv'
<1> SUFFICES ASSUME IInv, NotRewritten PROVE IInv'
  OBVIOUS
<1>1. pc = "poll" /\ Ended /\ UNCHANGED <<rewritten, task, servant, disk>>
  BY DEF NotRewritten
<1>2. CASE MayTryAgain
  <2>1. PICK n : n = attempt + 1
    OBVIOUS
  <2>2. n \in 1 .. 2
    BY <1>2, <2>1 DEF MayTryAgain
  <2>3. StartProgram(n)
    BY <1>2, <2>1, Zenon DEF NotRewritten
  <2>4. pc \in {"start", "poll"}
    BY <1>1
  <2>5. QED
    BY <1>1, <2>2, <2>3, <2>4, StartsProgram, Zenon
<1>3. CASE ~MayTryAgain
  <2>1. pc' = "native" /\ UNCHANGED <<attempt, Preprocessor, open, ready, stream>>
    BY <1>3 DEF NotRewritten
  <2>2. /\ UNCHANGED <<attempt, child, pipe, open, ready, stream, rewritten, disk>>
        /\ UNCHANGED <<attempt, child, task, servant>>
    BY <1>1, <2>1 DEF Preprocessor
  <2>3. pc # "done"
    BY <1>1
  <2>4. ClientTypes' /\ Reading' /\ Progress'
    BY <1>1, <2>1, <2>2, <2>3, GoesNative, Zenon
  <2>5. QED
    BY <2>2, <2>4, LateStep, Zenon
<1>4. QED
  BY <1>2, <1>3

\* Behind the rewriting the preprocessor has ended.
LEMMA EndedBehind ==
    ASSUME IInv, pc \in {"rewritten", "waiting"}
    PROVE  Ended /\ pc # "done"
  BY DEF IInv, Reading

\* A small file is compiled here.
LEMMA SmallFileInv == IInv /\ SmallFile => IInv'
<1> SUFFICES ASSUME IInv, SmallFile PROVE IInv'
  OBVIOUS
<1>1. /\ pc = "rewritten" /\ pc' = "native"
      /\ UNCHANGED <<attempt, Preprocessor, open, ready, stream, rewritten, task,
                     servant, disk>>
  BY DEF SmallFile
<1>2. /\ UNCHANGED <<attempt, child, pipe, open, ready, stream, rewritten, disk>>
      /\ UNCHANGED <<attempt, child, task, servant>>
  BY <1>1 DEF Preprocessor
<1>3. Ended /\ pc # "done"
  BY <1>1, EndedBehind
<1>4. ClientTypes' /\ Reading' /\ Progress'
  BY <1>1, <1>2, <1>3, GoesNative, Zenon
<1>5. QED
  BY <1>2, <1>4, LateStep, Zenon

\* So is one the daemon is silent about.
LEMMA CallFailsInv == IInv /\ CallFails => IInv'
<1> SUFFICES ASSUME IInv, CallFails PROVE IInv'
  OBVIOUS
<1>1. /\ pc = "waiting" /\ pc' = "native"
      /\ UNCHANGED <<attempt, Preprocessor, open, ready, stream, rewritten, task,
                     servant, disk>>
  BY DEF CallFails
<1>2. /\ UNCHANGED <<attempt, child, pipe, open, ready, stream, rewritten, disk>>
      /\ UNCHANGED <<attempt, child, task, servant>>
  BY <1>1 DEF Preprocessor
<1>3. Ended /\ pc # "done"
  BY <1>1, EndedBehind
<1>4. ClientTypes' /\ Reading' /\ Progress'
  BY <1>1, <1>2, <1>3, GoesNative, Zenon
<1>5. QED
  BY <1>2, <1>4, LateStep, Zenon

\* Of what has arrived of a body, only all of it is accepted.
LEMMA AcceptedOf ==
    ASSUME NEW body, NEW parts, Parses(body, parts), parts # <<>>,
           NEW n \in 0 .. Len(body)
    PROVE  {p \in TryParseMultiChunk(SubSeq(body, 1, n)) : p # <<>>} =
             IF n = Len(body) THEN {parts} ELSE {}
<1>1. PICK parsed : parsed = TryParseMultiChunk(SubSeq(body, 1, n))
  OBVIOUS
<1>2. PICK l \in Nat : l = Len(body)
  BY DEF Parses
<1>3. CASE n = l
  <2>1. parsed = {parts}
    BY <1>1, <1>2, <1>3, Zenon DEF Parses
  <2>2. {p \in parsed : p # <<>>} = {parts}
    BY <2>1
  <2>3. QED
    BY <1>1, <1>2, <1>3, <2>2, Zenon
<1>4. CASE n # l
  <2>1. n = 0 \/ n \in 1 .. l - 1
    BY <1>2, <1>4
  <2>2. parsed = {<<>>} \/ parsed = {}
    BY <1>1, <1>2, <2>1, Zenon DEF Parses
  <2>3. {p \in parsed : p # <<>>} = {}
    BY <2>2
  <2>4. QED
    BY <1>1, <1>2, <1>4, <2>3, Zenon
<1>5. QED
  BY <1>3, <1>4

\* What the client submits.
LEMMA RequestOf ==
    ASSUME IInv, pc = "rewritten",
           NEW json, json = << <<"json", rewritten.directives_only>> >>
    PROVE  /\ Parses(Request(json, rewritten.zstd), <<json, rewritten.zstd>>)
           /\ json[1][2] = (attempt = 1)
           /\ rewritten.zstd = ZSTDCompress(Text(child.out))
           /\ rewritten.zstd \in Seq(Block)
<1>1. PICK d, z, text : /\ d = rewritten.directives_only /\ z = rewritten.zstd
                        /\ text = Text(child.out)
  OBVIOUS
<1>2. text \in Seq(TextBlock) /\ (attempt = 1) \in Flags
  BY <1>1, WholeType DEF IInv
<1>3. z = ZSTDCompress(text)
  BY <1>1 DEF IInv, Progress
<1>4. d = (attempt = 1)
  BY <1>1, Zenon DEF IInv, Progress
<1>5. z \in Seq(Block) /\ Len(z) = Len(text) + 1
  BY <1>2, <1>3, TextAndFrame
<1>6. Len(z) > 0
  <2>1. Len(text) \in Nat
    BY <1>2
  <2>2. QED
    BY <1>5, <2>1
<1>7. PICK one : one = <<"json", d>>
  OBVIOUS
<1>8. one[2] = d
  BY <1>7
<1>9. one \in Block
  <2>1. d \in Flags
    BY <1>2, <1>4, Zenon
  <2>2. one \in {"json"} \X Flags
    BY <1>7, <2>1
  <2>3. QED
    BY <2>2, Zenon DEF Block
<1>10. json = <<one>>
  BY <1>1, <1>7, Zenon
<1>11. PICK j : j = json
  OBVIOUS
<1>12. j \in Seq(Block) /\ Len(j) > 0 /\ j[1] = one
  BY <1>9, <1>10, <1>11
<1>13. Parses(Request(j, z), <<j, z>>)
  BY <1>5, <1>6, <1>12, RequestParses, Zenon
<1>14. json[1][2] = (attempt = 1)
  BY <1>4, <1>8, <1>11, <1>12, Zenon
<1>15. QED
  BY <1>1, <1>3, <1>5, <1>11, <1>13, <1>14, Zenon

\* Only the whole body is accepted, and it holds the frame of the whole text.
LEMMA SubmitCxxTaskInv ==
    ASSUME IInv, NEW n, SubmitCxxTask(n)
    PROVE  IInv'
<1>1. PICK json, z, body, accepted :
        /\ json = << <<"json", rewritten.directives_only>> >>
        /\ z = rewritten.zstd
        /\ body = Request(json, z)
        /\ accepted = {p \in TryParseMultiChunk(SubSeq(body, 1, n)) : p # <<>>}
  OBVIOUS
<1>2. /\ pc = "rewritten" /\ n \in 0 .. Len(body)
      /\ pc' = IF n = Len(body) /\ accepted # {} THEN "waiting" ELSE "native"
      /\ task' \in IF accepted = {} THEN {task}
                   ELSE {[NoTask EXCEPT !.stage = "queued",
                                        !.directives_only = p[1][1][2],
                                        !.source = p[2]] : p \in accepted}
      /\ UNCHANGED <<attempt, Preprocessor, open, ready, stream, rewritten,
                     servant, disk>>
  BY <1>1, Zenon DEF SubmitCxxTask
<1>3. /\ UNCHANGED <<attempt, child, pipe, open, ready, stream, rewritten, disk>>
      /\ servant' = servant
  BY <1>2 DEF Preprocessor
<1>4. /\ Parses(body, <<json, z>>) /\ json[1][2] = (attempt = 1)
      /\ z = ZSTDCompress(Text(child.out)) /\ z \in Seq(Block)
  BY <1>1, <1>2, RequestOf, Zenon
<1>5. PICK parts : parts = <<json, z>>
  OBVIOUS
<1>6. parts # <<>> /\ parts[1] = json /\ parts[2] = z
  BY <1>5
<1>7. accepted = IF n = Len(body) THEN {parts} ELSE {}
  BY <1>1, <1>2, <1>4, <1>5, <1>6, AcceptedOf, Zenon
<1>8. Ended /\ pc # "done"
  BY <1>2, EndedBehind
<1>9. CASE n # Len(body)
  <2>1. accepted = {}
    BY <1>7, <1>9
  <2>2. pc' = "native" /\ task' = task
    BY <1>2, <2>1
  <2>3. ClientTypes' /\ Reading' /\ Progress'
    BY <1>3, <1>8, <2>2, GoesNative, Zenon
  <2>4. UNCHANGED <<attempt, child, task, servant>>
    BY <1>3, <2>2
  <2>5. QED
    BY <2>3, <2>4, LateStep, Zenon
<1>10. CASE n = Len(body)
  <2>1. accepted = {parts} /\ accepted # {}
    BY <1>7, <1>10
  <2>2. PICK d, x, v, x1, text, flag :
          /\ d = parts[1][1][2] /\ x = task /\ v = servant /\ x1 = task'
          /\ text = Text(child.out) /\ flag = (attempt = 1)
    OBVIOUS
  <2>3. d = flag
    BY <1>4, <1>6, <2>2, Zenon
  <2>4. pc' = "waiting"
    BY <1>2, <1>10, <2>1, Zenon
  <2>5. x1 = [NoTask EXCEPT !.stage = "queued", !.directives_only = d, !.source = z]
    BY <1>2, <1>6, <2>1, <2>2, Zenon
  <2>6. x1 = [stage |-> "queued", directives_only |-> d, source |-> z, sent |-> 0,
              retries |-> Retries, file |-> <<>>, exit |-> 0, outputs |-> <<>>]
    BY <2>5 DEF NoTask
  <2>7. /\ ServerInv(x, v, text, flag) /\ text \in Seq(TextBlock) /\ flag \in Flags
    BY <2>2, ServerParts, Zenon
  <2>8. x1 \in Tasks
    <3>1. z \in BlockSeq /\ <<>> \in PackSeq /\ <<>> \in FilesSeq /\ 0 \in Exits
      BY <1>4, EmptySeq DEF BlockSeq, PackSeq, FilesSeq, Exits
    <3>2. Retries \in 1 .. Retries
      BY DataPathAssumption
    <3>3. d \in Flags
      BY <2>3, <2>7, Zenon
    <3>4. QED
      BY <2>6, <3>1, <3>2, <3>3 DEF Tasks
  <2>9. /\ x1.stage = "queued" /\ x1.source = z /\ x1.sent = 0 /\ x1.exit = 0
        /\ x1.outputs = <<>> /\ x1.directives_only = d
    BY <2>6
  <2>10. x.stage = "none" /\ disk = NoFiles
    BY <1>2, <2>2 DEF IInv, Progress
  <2>11. ServerInv(x1, v, text, flag)
    <3>1. x1.directives_only = flag /\ x1.source = ZSTDCompress(text)
      BY <1>4, <2>2, <2>3, <2>9, Zenon
    <3>2. QED
      BY <2>7, <2>8, <2>9, <2>10, <3>1, ServerSubmits, Zenon
  <2>12. Text(child.out)' = Text(child.out) /\ Ended' /\ attempt' = attempt
    BY <1>3, <1>8 DEF Text, Ended
  <2>13. ServerInv(task, servant, Text(child.out), attempt = 1)'
    BY <1>3, <2>2, <2>11, <2>12, Zenon
  <2>14. ClientTypes'
    BY <1>3, <2>4 DEF IInv, ClientTypes
  <2>15. Reading'
    BY <2>4, <2>12 DEF Reading
  <2>16. Progress'
    BY <1>3, <2>4, <2>10 DEF Progress
  <2>17. QED
    BY <2>13, <2>14, <2>15, <2>16, Zenon DEF IInv
<1>11. QED
  BY <1>9, <1>10

-----------------------------------------------------------------------------
(***************************************************************************)
(* The answer.                                                             *)
(***************************************************************************)

\* The suffix that NameOf has named so.
SuffixOf(name) == IF name = "destination" THEN ".o" ELSE name

\* The names of the first i files of a product.
Named(product, i) == {NameOf(product[j]) : j \in 1 .. i}

\* A file of that name, when these are the writes that fail.
FileNamed(name, flag, text, failures) ==
    IF name \in failures THEN Torn ELSE Compiled(SuffixOf(name), flag, text)

\* The first i files of a product, by their names.
WrittenOf(product, i, flag, text, failures) ==
    [name \in Named(product, i) |-> FileNamed(name, flag, text, failures)]

\* The files of a product, as the client has them.
AnswerFor(product, flag, text) ==
    [i \in DOMAIN product |-> [suffix |-> product[i],
                               content |-> Compiled(product[i], flag, text)]]

\* No name stands for two suffixes of a product.
LEMMA NamesDiffer ==
    ASSUME NEW product \in Products, NEW i \in DOMAIN product
    PROVE  SuffixOf(NameOf(product[i])) = product[i]
<1>1. product[i] # "destination"
  <2>1. "destination" \notin ToSet(product)
    BY ProductsAssumption
  <2>2. QED
    BY <2>1 DEF ToSet
<1>2. QED
  BY <1>1 DEF SuffixOf, NameOf

\* One more file is written.
LEMMA WriteOneMore ==
    ASSUME NEW product \in Products, NEW i \in 1 .. Len(product), NEW flag, NEW text,
           NEW failures
    PROVE  WriteAll(WrittenOf(product, i - 1, flag, text, failures),
                    AnswerFor(product, flag, text)[i], failures) =
             WrittenOf(product, i, flag, text, failures)
<1>1. product \in Seq(STRING)
  BY ProductsAssumption
<1>2. i \in DOMAIN product
  BY <1>1
<1>3. PICK file : file = AnswerFor(product, flag, text)[i]
  OBVIOUS
<1>4. file = [suffix |-> product[i], content |-> Compiled(product[i], flag, text)]
  BY <1>2, <1>3, Zenon DEF AnswerFor
<1>5. file.suffix = product[i] /\ file.content = Compiled(product[i], flag, text)
  BY <1>4
<1>6. PICK last : last = NameOf(product[i])
  OBVIOUS
<1>7. SuffixOf(last) = product[i]
  BY <1>2, <1>6, NamesDiffer, Zenon
<1>8. PICK before, after : before = Named(product, i - 1) /\ after = Named(product, i)
  OBVIOUS
<1>9. after = before \cup {last}
  <2>1. \A j : j \in 1 .. i <=> (j \in 1 .. i - 1 \/ j = i)
    BY <1>1
  <2>2. QED
    BY <1>6, <1>8, <2>1, Zenon DEF Named
<1>10. PICK f : f = WrittenOf(product, i - 1, flag, text, failures)
  OBVIOUS
<1>11. f = [name \in before |-> FileNamed(name, flag, text, failures)]
  BY <1>8, <1>10, Zenon DEF WrittenOf
<1>12. DOMAIN f = before
  BY <1>11, Zenon
<1>13. \A name \in before \cup {last} :
         (IF name # last THEN f[name]
          ELSE IF last \in failures THEN Torn ELSE file.content) =
           FileNamed(name, flag, text, failures)
  BY <1>5, <1>7, <1>11, Zenon DEF FileNamed
<1>14. WriteAll(f, file, failures) =
         [name \in before \cup {last} |->
            IF name # last THEN f[name]
            ELSE IF last \in failures THEN Torn ELSE file.content]
  BY <1>5, <1>6, <1>12, Zenon DEF WriteAll
<1>15. WriteAll(f, file, failures) =
         [name \in after |-> FileNamed(name, flag, text, failures)]
  BY <1>9, <1>13, <1>14, Zenon
<1>16. QED
  BY <1>3, <1>8, <1>10, <1>15, Zenon DEF WrittenOf

\* WriteCompileResult leaves the files of the product, and no others.
LEMMA WrittenFiles ==
    ASSUME NEW product \in Products, product # <<>>, NEW flag, NEW text,
           NEW failures, disk = NoFiles, WriteCompileResult(AnswerFor(product, flag, text), failures)
    PROVE  DiskHolds(disk', product, flag, text)
<1>1. product \in Seq(STRING)
  BY ProductsAssumption
<1>2. PICK m \in Nat : m = Len(product) /\ DOMAIN product = 1 .. m
  BY <1>1
<1>3. PICK files : files = AnswerFor(product, flag, text)
  OBVIOUS
<1>4. Len(files) = m
  <2>1. files = [i \in 1 .. m |-> files[i]]
    BY <1>2, <1>3, Zenon DEF AnswerFor
  <2>2. QED
    BY <1>2, <2>1
<1> DEFINE Step(h) == [i \in 0 .. m |-> IF i = 0 THEN disk ELSE WriteAll(h[i - 1], files[i], failures)]
<1>5. PICK g : g = [i \in 0 .. m |-> WrittenOf(product, i, flag, text, failures)]
  OBVIOUS
<1>6. WrittenOf(product, 0, flag, text, failures) = disk
  <2>1. Named(product, 0) = {}
    BY DEF Named
  <2>2. QED
    BY <2>1, Zenon DEF WrittenOf, NoFiles
<1>7. \A i \in 1 .. m : WriteAll(WrittenOf(product, i - 1, flag, text, failures), files[i], failures) =
                          WrittenOf(product, i, flag, text, failures)
  BY <1>2, <1>3, WriteOneMore, Zenon
<1>8. g = Step(g)
  <2>1. ASSUME NEW i \in 0 .. m
        PROVE  WrittenOf(product, i, flag, text, failures) =
                 IF i = 0 THEN disk ELSE WriteAll(g[i - 1], files[i], failures)
    <3>1. CASE i = 0
      BY <1>6, <3>1, Zenon
    <3>2. CASE i # 0
      <4>1. i \in 1 .. m /\ i - 1 \in 0 .. m
        BY <3>2
      <4>2. g[i - 1] = WrittenOf(product, i - 1, flag, text, failures)
        BY <1>5, <4>1, Zenon
      <4>3. QED
        BY <1>7, <3>2, <4>1, <4>2, Zenon
    <3>3. QED
      BY <3>1, <3>2
  <2>2. QED
    BY <1>5, <2>1, Zenon
<1>9. PICK w : w = CHOOSE h : h = Step(h)
  OBVIOUS
<1>10. w = Step(w)
  <2>1. \E h : h = Step(h)
    BY <1>8
  <2> HIDE DEF Step
  <2>2. (CHOOSE h : h = Step(h)) = Step(CHOOSE h : h = Step(h))
    BY <2>1, Zenon
  <2>3. QED
    BY <1>9, <2>2, Zenon
<1>11. disk' = w[m]
  BY <1>3, <1>4, <1>9, Zenon DEF WriteCompileResult
<1>12. w[m] = WrittenOf(product, m, flag, text, failures)
  <2> DEFINE S == {i \in 0 .. m : w[i] = WrittenOf(product, i, flag, text, failures)}
  <2>1. 0 \in S
    <3>1. 0 \in 0 .. m
      OBVIOUS
    <3>2. w[0] = disk
      BY <1>10, <3>1, Zenon
    <3>3. QED
      BY <1>6, <3>1, <3>2, Zenon
  <2>2. ASSUME NEW i \in 1 .. m, i - 1 \in S
        PROVE  i \in S
    <3>1. i \in 0 .. m /\ i # 0
      OBVIOUS
    <3>2. w[i] = WriteAll(w[i - 1], files[i], failures)
      BY <1>10, <3>1, Zenon
    <3>3. w[i - 1] = WrittenOf(product, i - 1, flag, text, failures)
      BY <2>2, Zenon
    <3>4. QED
      BY <1>7, <3>1, <3>2, <3>3, Zenon
  <2> HIDE DEF S
  <2>3. \A i \in 0 .. m : i \in S
    BY <2>1, <2>2, UpTo
  <2>4. m \in S
    BY <2>3
  <2>5. QED
    BY <2>4, Zenon DEF S
<1>13. \A i \in 1 .. m : WrittenOf(product, m, flag, text, failures)[NameOf(product[i])]
                         \in {Compiled(product[i], flag, text), Torn}
  <2>1. \A i \in 1 .. m : NameOf(product[i]) \in Named(product, m)
    BY DEF Named
  <2>2. QED
    BY <1>2, <2>1, NamesDiffer, Zenon DEF WrittenOf, FileNamed
<1>14. DOMAIN WrittenOf(product, m, flag, text, failures) = {NameOf(product[i]) : i \in 1 .. m}
  BY Zenon DEF WrittenOf, Named
<1>15. QED
  BY <1>2, <1>11, <1>12, <1>13, <1>14, Zenon DEF DiskHolds

\* The parts of an answer with these outputs.
PartsOf(exit, outputs) ==
    << << <<"json", exit, Extensions(outputs)>> >> >> \o Contents(outputs)

\* An answer parses into its message and its files, none of which is empty.
LEMMA AnswerParses ==
    ASSUME NEW exit, NEW outputs \in FilesSeq,
           \A i \in 1 .. Len(outputs) : Len(outputs[i].content) > 0,
           NEW parts, parts = PartsOf(exit, outputs)
    PROVE  /\ Parses(MakeMultiChunk(parts), parts)
           /\ parts # <<>>
           /\ parts[1][1] = <<"json", exit, Extensions(outputs)>>
           /\ \A i \in 1 .. Len(outputs) : parts[i + 1] = outputs[i].content
<1>1. outputs \in Seq(FilesOver(Block))
  BY DEF FilesSeq
<1>2. PICK m \in Nat : m = Len(outputs) /\ DOMAIN outputs = 1 .. m
  BY <1>1
<1>3. PICK json : json = <<"json", exit, Extensions(outputs)>>
  OBVIOUS
<1>4. PICK B : B = Block \cup {json}
  OBVIOUS
<1>5. PICK first : first = <<json>>
  OBVIOUS
<1>6. json \in B
  BY <1>4
<1>7. first \in Seq(B) /\ Len(first) = 1 /\ first[1] = json
  BY <1>5, <1>6
<1>8. PICK contents : contents = Contents(outputs)
  OBVIOUS
<1>9. contents = [i \in 1 .. m |-> outputs[i].content]
  BY <1>2, <1>8, Zenon DEF Contents
<1>10. \A i \in 1 .. m : outputs[i].content \in Seq(B)
  <2>1. \A i \in 1 .. m : outputs[i] \in FilesOver(Block)
    BY <1>1, <1>2
  <2>2. \A i \in 1 .. m : outputs[i].content \in Seq(Block)
    BY <2>1 DEF FilesOver
  <2>3. Block \subseteq B
    BY <1>4
  <2>4. Seq(Block) \subseteq Seq(B)
    BY <2>3, SeqMonotonic
  <2>5. QED
    BY <2>2, <2>4
<1>11. PICK C : C = Seq(B)
  OBVIOUS
<1>12. contents \in Seq(C) /\ Len(contents) = m
  <2>1. contents \in [1 .. m -> C]
    BY <1>9, <1>10, <1>11
  <2>2. QED
    BY <1>2, <2>1
<1>13. PICK one : one = <<first>>
  OBVIOUS
<1>14. first \in C
  BY <1>7, <1>11
<1>15. one \in Seq(C) /\ Len(one) = 1 /\ one[1] = first
  BY <1>13, <1>14
<1>16. parts = one \o contents
  BY <1>3, <1>5, <1>8, <1>13, Zenon DEF PartsOf
<1>17. parts \in Seq(C) /\ Extends(parts, one, contents)
  BY <1>12, <1>15, <1>16, ConcatProperties, ConcatExtends, Zenon
<1>18. /\ Len(parts) = 1 + m /\ parts[1] = first
       /\ \A k \in 1 .. m : parts[1 + k] = contents[k]
  <2>1. 1 \in 1 .. 1
    OBVIOUS
  <2>2. QED
    BY <1>12, <1>15, <1>17, <2>1, Zenon DEF Extends
<1>19. parts # <<>>
  BY <1>18
<1>20. \A k \in 1 .. m : parts[k + 1] = outputs[k].content
  <2>1. \A k \in 1 .. m : k + 1 = 1 + k
    OBVIOUS
  <2>2. QED
    BY <1>9, <1>18, <2>1, Zenon
<1>21. \A i \in 1 .. Len(parts) : Len(parts[i]) > 0
  <2>1. SUFFICES ASSUME NEW i \in 1 .. 1 + m
                 PROVE  Len(parts[i]) > 0
    BY <1>18
  <2>2. CASE i = 1
    <3>1. Len(first) > 0
      BY <1>7
    <3>2. QED
      BY <1>18, <2>2, <3>1, Zenon
  <2>3. CASE i # 1
    <3>1. PICK k \in 1 .. m : k + 1 = i
      <4>1. i - 1 \in 1 .. m /\ (i - 1) + 1 = i
        BY <2>3
      <4>2. QED
        BY <4>1
    <3>2. parts[i] = outputs[k].content /\ Len(outputs[k].content) > 0
      BY <1>2, <1>20, <3>1
    <3>3. QED
      BY <3>2, Zenon
  <2>4. QED
    BY <2>2, <2>3
<1>22. Parses(MakeMultiChunk(parts), parts)
  <2>1. parts \in Seq(Seq(B))
    BY <1>11, <1>17, Zenon
  <2>2. QED
    BY <1>19, <1>21, <2>1, MultiChunkParses
<1>23. QED
  BY <1>2, <1>3, <1>7, <1>18, <1>19, <1>20, <1>22, Zenon

\* What the client takes from an answer: the files of a product, made from the
\* whole text.
LEMMA AnsweredFiles ==
    ASSUME NEW text \in Seq(TextBlock), NEW flag \in Flags, task \in Tasks,
           task.stage = "done", Outputs(task, text, flag),
           NEW n \in 0 .. Len(AnswerBody), NEW files \in FilesOf(n)
    PROVE  \E product \in Products :
             product # <<>> /\ files = AnswerFor(product, flag, text)
<1>1. PICK exit, outputs : exit = task.exit /\ outputs = task.outputs
  OBVIOUS
<1>2. outputs \in FilesSeq
  BY <1>1 DEF Tasks
<1>3. /\ exit # 0 => outputs = <<>>
      /\ exit = 0 => \E product \in Products :
                       product # <<>> /\ outputs = FilesFor(product, flag, text)
  BY <1>1 DEF Outputs
<1>4. text \in Seq(Block)
  BY TextAndFrame
<1>5. ASSUME NEW product \in Products, outputs = FilesFor(product, flag, text)
      PROVE  /\ product \in Seq(STRING) /\ DOMAIN product = 1 .. Len(outputs)
             /\ \A i \in 1 .. Len(outputs) :
                  /\ outputs[i].suffix = product[i]
                  /\ Len(outputs[i].content) > 0
                  /\ ZSTDDecompress(outputs[i].content) =
                       {Compiled(product[i], flag, text)}
  <2>1. product \in Seq(STRING) /\ Len(outputs) = Len(product)
    BY <1>4, <1>5, FilesForType, Zenon
  <2>2. PICK m \in Nat : m = Len(product) /\ DOMAIN product = 1 .. m
    BY <2>1
  <2>3. ASSUME NEW i \in 1 .. m
        PROVE  /\ outputs[i].suffix = product[i]
               /\ Len(outputs[i].content) > 0
               /\ ZSTDDecompress(outputs[i].content) =
                    {Compiled(product[i], flag, text)}
    <3>1. PICK s, z : /\ s = product[i]
                      /\ z = ZSTDCompress(Compiled(s, flag, text))
      OBVIOUS
    <3>2. outputs[i] = [suffix |-> s, content |-> z]
      BY <1>5, <2>2, <3>1, Zenon DEF FilesFor
    <3>3. outputs[i].suffix = s /\ outputs[i].content = z
      BY <3>2
    <3>4. s \in STRING
      BY <2>1, <2>2, <3>1
    <3>5. Len(z) > 0 /\ ZSTDDecompress(z) = {Compiled(s, flag, text)}
      BY <1>4, <3>1, <3>4, ObjectFrame
    <3>6. QED
      BY <3>1, <3>3, <3>5, Zenon
  <2>4. QED
    BY <2>1, <2>2, <2>3, Zenon
<1>6. \A i \in 1 .. Len(outputs) : Len(outputs[i].content) > 0
  <2>1. CASE exit = 0
    BY <1>3, <1>5, <2>1, Zenon
  <2>2. CASE exit # 0
    BY <1>3, <2>2
  <2>3. QED
    BY <2>1, <2>2
<1>7. PICK parts, exts : parts = PartsOf(exit, outputs) /\ exts = Extensions(outputs)
  OBVIOUS
<1>8. AnswerBody = MakeMultiChunk(parts)
  BY <1>1, <1>7, Zenon DEF AnswerBody, PartsOf
<1>9. /\ Parses(MakeMultiChunk(parts), parts)
      /\ parts # <<>>
      /\ parts[1][1] = <<"json", exit, exts>>
      /\ \A i \in 1 .. Len(outputs) : parts[i + 1] = outputs[i].content
  BY <1>2, <1>6, <1>7, AnswerParses, Zenon
<1>10. parts[1][1][2] = exit /\ parts[1][1][3] = exts
  <2>1. PICK json : json = <<"json", exit, exts>>
    OBVIOUS
  <2>2. json[2] = exit /\ json[3] = exts
    BY <2>1
  <2>3. QED
    BY <1>9, <2>1, <2>2, Zenon
<1>11. PICK body : body = AnswerBody
  OBVIOUS
<1>12. {p \in TryParseMultiChunk(SubSeq(body, 1, n)) : p # <<>>} =
         IF n = Len(body) THEN {parts} ELSE {}
  BY <1>8, <1>9, <1>11, AcceptedOf, Zenon
<1>13. /\ exit = 0
       /\ files = [i \in DOMAIN exts |->
                     [suffix |-> exts[i],
                      content |-> CHOOSE s \in ZSTDDecompress(parts[i + 1]) : TRUE]]
  <2>1. PICK p \in TryParseMultiChunk(SubSeq(body, 1, n)) :
          /\ p # <<>> /\ p[1][1][2] = 0
          /\ files = [i \in DOMAIN p[1][1][3] |->
                        [suffix |-> p[1][1][3][i],
                         content |-> CHOOSE s \in ZSTDDecompress(p[i + 1]) : TRUE]]
    BY <1>11, Zenon DEF FilesOf
  <2>2. p \in {q \in TryParseMultiChunk(SubSeq(body, 1, n)) : q # <<>>}
    BY <2>1, Zenon
  <2>3. p = parts
    BY <1>12, <2>2
  <2>4. QED
    BY <1>10, <2>1, <2>3, Zenon
<1>14. PICK product \in Products :
         product # <<>> /\ outputs = FilesFor(product, flag, text)
  BY <1>3, <1>13
<1>15. PICK m \in Nat : m = Len(outputs)
  BY <1>2 DEF FilesSeq
<1>16. /\ DOMAIN product = 1 .. m
       /\ \A i \in 1 .. m :
            /\ outputs[i].suffix = product[i]
            /\ ZSTDDecompress(outputs[i].content) = {Compiled(product[i], flag, text)}
  BY <1>5, <1>14, <1>15, Zenon
<1>17. DOMAIN exts = 1 .. m /\ \A i \in 1 .. m : exts[i] = product[i]
  <2>1. DOMAIN outputs = 1 .. m
    BY <1>2, <1>15 DEF FilesSeq
  <2>2. exts = [i \in 1 .. m |-> outputs[i].suffix]
    BY <1>7, <2>1, Zenon DEF Extensions
  <2>3. QED
    BY <1>16, <2>2, Zenon
<1>18. ASSUME NEW i \in 1 .. m
       PROVE  (CHOOSE s \in ZSTDDecompress(parts[i + 1]) : TRUE) =
                Compiled(product[i], flag, text)
  <2>1. ZSTDDecompress(parts[i + 1]) = {Compiled(product[i], flag, text)}
    BY <1>9, <1>15, <1>16, Zenon
  <2>2. PICK c, z : c = Compiled(product[i], flag, text) /\ z = ZSTDDecompress(parts[i + 1])
    OBVIOUS
  <2>3. z = {c}
    BY <2>1, <2>2, Zenon
  <2>4. (CHOOSE s \in z : TRUE) = c
    BY <2>3
  <2>5. QED
    BY <2>2, <2>4, Zenon
<1>19. files = [i \in 1 .. m |-> [suffix |-> product[i],
                                  content |-> Compiled(product[i], flag, text)]]
  BY <1>13, <1>17, <1>18, Zenon
<1>20. QED
  BY <1>14, <1>16, <1>19, Zenon DEF AnswerFor

\* An answer writes the files of one product made from all the text, or none.
LEMMA AnsweredInv ==
    ASSUME IInv, NEW n \in 0 .. Len(AnswerBody), Answered(n)
    PROVE  IInv'
<1>1. /\ pc = "waiting" /\ task.stage = "done"
      /\ UNCHANGED <<attempt, Preprocessor, open, ready, stream, rewritten, task,
                     servant>>
  BY DEF Answered
<1>2. /\ UNCHANGED <<attempt, child, pipe, open, ready, stream, rewritten>>
      /\ UNCHANGED <<attempt, child, task, servant>>
  BY <1>1 DEF Preprocessor
<1>3. Ended /\ pc # "done"
  BY <1>1, EndedBehind
<1>4. CASE FilesOf(n) = {}
  <2>1. pc' = "native" /\ UNCHANGED disk
    BY <1>4 DEF Answered
  <2>2. UNCHANGED <<attempt, child, pipe, open, ready, stream, rewritten, disk>>
    BY <1>2, <2>1
  <2>3. ClientTypes' /\ Reading' /\ Progress'
    BY <1>3, <2>1, <2>2, GoesNative, Zenon
  <2>4. QED
    BY <1>2, <2>3, LateStep, Zenon
<1>5. CASE FilesOf(n) # {}
  <2>1. pc' = "done"
    BY <1>5 DEF Answered
  <2>2. PICK files \in FilesOf(n) : \E failures : WriteCompileResult(files, failures)
    BY <1>5, Zenon DEF Answered
  <2>3. PICK text, flag : text = Text(child.out) /\ flag = (attempt = 1)
    OBVIOUS
  <2>4. /\ text \in Seq(TextBlock) /\ flag \in Flags /\ task \in Tasks
        /\ ServerInv(task, servant, text, flag)
    BY <2>3, ServerParts, Zenon
  <2>5. Outputs(task, text, flag)
    BY <2>4, Zenon DEF ServerInv
  <2>6. PICK product \in Products :
          product # <<>> /\ files = AnswerFor(product, flag, text)
    BY <1>1, <2>2, <2>4, <2>5, AnsweredFiles, Zenon
  <2>7. disk = NoFiles
    BY <1>1 DEF IInv, Progress
  <2>8. DiskHolds(disk', product, flag, text)
    <3>1. PICK failures : WriteCompileResult(files, failures)
      BY <2>2
    <3>2. QED
      BY <2>6, <2>7, <3>1, WrittenFiles, Zenon
  <2>9. Text(child.out)' = Text(child.out) /\ Ended' /\ attempt' = attempt
    BY <1>2, <1>3 DEF Text, Ended
  <2>10. ClientTypes'
    BY <1>2, <2>1 DEF IInv, ClientTypes
  <2>11. Reading'
    BY <2>1, <2>9 DEF Reading
  <2>12. Progress'
    <3>1. DiskHolds(disk', product, attempt' = 1, Text(child.out)')
      BY <2>3, <2>8, <2>9, Zenon
    <3>2. pc' \notin {"start", "poll", "handle", "rewritten"} /\ pc' = "done"
      BY <2>1
    <3>3. QED
      BY <3>1, <3>2, Zenon DEF Progress
  <2>13. QED
    BY <1>2, <2>10, <2>11, <2>12, LateStep, Zenon
<1>6. QED
  BY <1>4, <1>5

-----------------------------------------------------------------------------
(***************************************************************************)
(* The theorems.                                                           *)
(***************************************************************************)

\* The invariant holds at first.
LEMMA InitIInv == Init => IInv
<1> SUFFICES ASSUME Init PROVE IInv
  OBVIOUS
<1>1. /\ pc = "start" /\ attempt = 1 /\ open = {} /\ ready = {} /\ stream = <<>>
      /\ child = [status |-> "none", out |-> 0, err |-> 0]
      /\ pipe = [out |-> <<>>, err |-> 0]
      /\ rewritten = [directives_only |-> FALSE, zstd |-> <<>>]
      /\ task = NoTask /\ servant = NoCompileTask /\ disk = NoFiles
  BY DEF Init, NoChild, NoFiles
<1>2. /\ Length \in Nat /\ Warnings \in Nat /\ PipeSize \in Nat
      /\ Retries \in 1 .. Retries
  BY DataPathAssumption
<1>3. <<>> \in Seq(TextBlock) /\ <<>> \in Seq(Block) /\ Len(<<>>) = 0
  BY EmptySeq
<1>4. ClientTypes
  <2>1. child \in Children
    BY <1>1, <1>2 DEF Children
  <2>2. pipe \in [out : Seq(TextBlock), err : 0 .. PipeSize] /\ pipe.out = <<>>
    BY <1>1, <1>2, <1>3
  <2>3. rewritten \in [directives_only : Flags, zstd : Seq(Block)]
    <3>1. FALSE \in Flags
      BY Zenon DEF Flags
    <3>2. QED
      BY <1>1, <1>3, <3>1
  <2>4. pc = "start" /\ attempt = 1 /\ open = {} /\ ready = {} /\ stream = <<>>
    BY <1>1
  <2>5. /\ pc \in {"start", "poll", "handle", "rewritten", "waiting", "native", "done"}
        /\ attempt \in 1 .. 2 /\ open \subseteq Descriptors /\ ready \subseteq open
    BY <2>4
  <2>6. stream \in Seq(TextBlock) /\ Len(stream) <= Length
    BY <1>2, <1>3, <2>4
  <2>7. Len(pipe.out) <= PipeSize
    BY <1>2, <1>3, <2>2
  <2>8. QED
    BY <2>1, <2>2, <2>3, <2>5, <2>6, <2>7, Zenon DEF ClientTypes
<1>5. Reading
  <2>1. child.status = "none"
    BY <1>1
  <2>2. QED
    BY <1>1, <2>1 DEF Reading
<1>6. task.stage = "none"
  BY <1>1 DEF NoTask
<1>7. Progress
  BY <1>1, <1>6 DEF Progress
<1>8. PICK x, v, text, flag :
        /\ x = task /\ v = servant /\ text = Text(child.out) /\ flag = (attempt = 1)
  OBVIOUS
<1>9. x = [stage |-> "none", directives_only |-> FALSE, source |-> <<>>,
           sent |-> 0, retries |-> Retries, file |-> <<>>, exit |-> 0,
           outputs |-> <<>>]
  BY <1>1, <1>8 DEF NoTask
<1>10. v = [stage |-> "none", directives_only |-> FALSE, file |-> <<>>,
            source |-> <<>>, exit |-> 0, pack |-> <<>>, sent |-> 0]
  BY <1>1, <1>8 DEF NoCompileTask
<1>11. x \in Tasks /\ v \in CompileTasks
  <2>1. /\ <<>> \in BlockSeq /\ <<>> \in PackSeq /\ <<>> \in FilesSeq
        /\ 0 \in Exits
    BY EmptySeq DEF BlockSeq, PackSeq, FilesSeq, Exits
  <2>2. PICK no \in Flags : no = FALSE
    BY Zenon DEF Flags
  <2>3. x = [stage |-> "none", directives_only |-> no, source |-> <<>>,
             sent |-> 0, retries |-> Retries, file |-> <<>>, exit |-> 0,
             outputs |-> <<>>]
    BY <1>9, <2>2, Zenon
  <2>4. v = [stage |-> "none", directives_only |-> no, file |-> <<>>,
             source |-> <<>>, exit |-> 0, pack |-> <<>>, sent |-> 0]
    BY <1>10, <2>2, Zenon
  <2>5. x \in Tasks
    BY <1>2, <2>1, <2>3 DEF Tasks
  <2>6. v \in CompileTasks
    BY <2>1, <2>4 DEF CompileTasks
  <2>7. QED
    BY <2>5, <2>6
<1>12. x.stage = "none" /\ x.outputs = <<>>
  BY <1>9
<1>13. v.stage = "none" /\ v.exit = 0 /\ v.pack = <<>>
  BY <1>10
<1>14. Submitted(x, text, flag) /\ Stages(x, v)
  BY <1>12, <1>13 DEF Submitted, Stages
<1>15. Sources(x, v, text, flag) /\ Packs(x, v, flag) /\ Outputs(x, text, flag)
  BY <1>12, <1>13 DEF Sources, Packs, Outputs
<1>16. ServerInv(x, v, text, flag)
  BY <1>11, <1>14, <1>15 DEF ServerInv
<1>17. QED
  BY <1>4, <1>5, <1>7, <1>8, <1>16, Zenon DEF IInv

\* A step that changes nothing.
LEMMA StutterIInv == IInv /\ UNCHANGED vars => IInv'
<1> SUFFICES ASSUME IInv, UNCHANGED vars PROVE IInv'
  OBVIOUS
<1>1. /\ UNCHANGED <<pc, attempt, child, pipe, open, ready, stream, rewritten>>
      /\ UNCHANGED <<task, servant, disk>>
  BY DEF vars
<1>2. ClientTypes'
  BY <1>1 DEF IInv, ClientTypes
<1>3. Text(child.out)' = Text(child.out) /\ Ended' = Ended
  BY <1>1 DEF Text, Ended
<1>4. Reading'
  BY <1>1, <1>3, Zenon DEF IInv, Reading
<1>5. Progress'
  BY <1>1, <1>3, Zenon DEF IInv, Progress
<1>6. UNCHANGED <<attempt, child, task, servant>>
  BY <1>1
<1>7. QED
  BY <1>2, <1>4, <1>5, <1>6, LateStep, Zenon

\* Every step keeps it.
LEMMA NextIInv == IInv /\ [Next]_vars => IInv'
<1> SUFFICES ASSUME IInv, [Next]_vars PROVE IInv'
  OBVIOUS
<1>1. CASE ClientNext
  <2>1. CASE HandleProgramIO
    BY <2>1, PollInv, HandleStdinInv, HandleStdoutInv, HandleStderrInv, Zenon
       DEF HandleProgramIO
  <2>2. CASE Submits
    BY <2>2, SubmitCxxTaskInv, Zenon DEF Submits
  <2>3. CASE Wait
    BY <2>3, AnsweredInv, Zenon DEF Wait
  <2>4. QED
    BY <1>1, <2>1, <2>2, <2>3, RewriteFileInv, RewrittenInv, NotRewrittenInv,
       SmallFileInv, Zenon DEF ClientNext
<1>2. CASE DaemonNext
  BY <1>2, StartTaskInv, WriteChunkInv, WritesDoneInv, QueuedInv, WaitForTaskInv,
     WaitServantTaskInv, Zenon DEF DaemonNext
<1>3. CASE ServantNext
  BY <1>3, PrepareInv, SendFileInv, CompilerSucceedsInv, Zenon DEF ServantNext
<1>4. CASE ChildRuns
  BY <1>4, ChildWritesOutInv, ChildWritesErrInv, ChildSucceedsInv, Zenon
     DEF ChildRuns
<1>5. QED
  BY <1>1, <1>2, <1>3, <1>4, ChildFailsInv, StreamBreaksInv, WaitFailsInv,
     CompilerFailsInv, CallFailsInv, StutterIInv, Zenon DEF Next

\* So it holds always.
LEMMA IInvHolds == Spec => []IInv
  BY InitIInv, NextIInv, PTL DEF Spec

\* Every variable of the client, the daemon and the servant keeps its type, and
\* the client has written no file a compiler may not leave.
THEOREM TypesCorrect == Spec => []TypeOK
<1>1. IInv => TypeOK
  <2> SUFFICES ASSUME IInv PROVE TypeOK
    OBVIOUS
  <2>1. ClientTypes /\ task \in Tasks /\ servant \in CompileTasks
    BY DEF IInv, ServerInv
  <2>2. /\ pc \in {"start", "poll", "handle", "rewritten", "waiting", "native", "done"}
        /\ attempt \in 1 .. 2
        /\ Len(pipe.out) <= PipeSize
        /\ ready \subseteq open
        /\ open \subseteq Descriptors
        /\ Len(stream) <= Length
    BY <2>1 DEF ClientTypes
  <2>3. child.status \in {"none", "running", "succeeded", "failed", "killed"}
    BY <2>1 DEF ClientTypes, Children
  <2>4. /\ child.out \in 0 .. Length /\ child.err \in 0 .. Warnings
        /\ pipe.err \in 0 .. PipeSize
    BY <2>1, ClientFields
  <2>5. rewritten.directives_only \in BOOLEAN
    <3>1. rewritten.directives_only \in Flags
      BY <2>1 DEF ClientTypes
    <3>2. QED
      BY <3>1, Zenon DEF Flags
  <2>6. /\ task.stage \in {"none", "queued", "sending", "sent", "waiting", "reading",
                           "done"}
        /\ task.retries \in 1 .. Retries
    BY <2>1 DEF Tasks
  <2>7. servant.stage \in {"none", "receiving", "received", "refused", "prepared",
                           "compiled"}
    BY <2>1 DEF CompileTasks
  <2>8. DOMAIN disk \subseteq {"destination"} \cup UNION {ToSet(p) : p \in Products}
    <3>1. CASE pc # "done"
      BY <3>1 DEF IInv, Progress, NoFiles
    <3>2. CASE pc = "done"
      <4>1. PICK product \in Products :
              DiskHolds(disk, product, attempt = 1, Text(child.out))
        BY <3>2, Zenon DEF IInv, Progress
      <4>2. DOMAIN disk = {NameOf(product[i]) : i \in DOMAIN product}
        BY <4>1, Zenon DEF DiskHolds
      <4>3. \A i \in DOMAIN product :
              NameOf(product[i]) = "destination" \/ NameOf(product[i]) \in ToSet(product)
        BY DEF NameOf, ToSet
      <4>4. QED
        BY <4>2, <4>3
    <3>3. QED
      BY <3>1, <3>2
  <2>9. QED
    BY <2>2, <2>3, <2>4, <2>5, <2>6, <2>7, <2>8 DEF TypeOK
<1>2. QED
  BY <1>1, IInvHolds, PTL

\* The preprocessor's exit code, and what it says of its output.
ExitOK ==
    /\ child.status = "succeeded" => child.out = Length
    /\ pc \in {"rewritten", "waiting", "done"} \/ task.stage # "none" =>
         child.status \in {"succeeded", "killed"}

\* Only a preprocessor with exit code 0 gets its output submitted.
LEMMA NextExitOK == IInv /\ ExitOK /\ [Next]_vars => ExitOK'
<1> SUFFICES ASSUME IInv, ExitOK, [Next]_vars PROVE ExitOK'
  OBVIOUS
<1>1. CASE child.status = "running" /\ (ChildRuns \/ ChildFails)
  <2>1. pc \in {"poll", "handle"} /\ task.stage = "none"
    BY <1>1, RunningIsRead
  <2>2. pc' = pc /\ task' = task
    BY <1>1 DEF ChildRuns, ChildWritesOut, ChildWritesErr, ChildSucceeds, ChildFails,
                Client
  <2>3. child'.status = "succeeded" => child'.out = Length
    <3>1. child \in Children
      BY DEF IInv, ClientTypes
    <3>2. child'.status = "succeeded" => ChildSucceeds
      BY <1>1, <3>1 DEF ChildRuns, ChildWritesOut, ChildWritesErr, ChildFails, Children
    <3>3. QED
      BY <3>1, <3>2 DEF ChildSucceeds, Children
  <2>4. QED
    BY <2>1, <2>2, <2>3 DEF ExitOK
<1>2. CASE RewriteFile \/ (NotRewritten /\ attempt = 1)
  <2>1. task.stage = "none" /\ task' = task
    BY <1>2 DEF RewriteFile, NotRewritten, IInv, Progress
  <2>2. pc' = "poll" /\ child'.status = "running"
    BY <1>2 DEF RewriteFile, NotRewritten, MayTryAgain, StartProgram, NoChild
  <2>3. QED
    BY <2>1, <2>2 DEF ExitOK
<1>3. CASE Rewritten
  BY <1>3 DEF Rewritten, GetChildExitCode, Ended, Preprocessor, ExitOK, IInv,
              ClientTypes, Children
<1>4. ASSUME child' = child,
             pc' \in {"rewritten", "waiting", "done"} =>
               pc \in {"rewritten", "waiting", "done"},
             task'.stage # "none" => task.stage # "none" \/ pc = "rewritten"
      PROVE  ExitOK'
  BY <1>4 DEF ExitOK
<1>5. ASSUME DaemonNext \/ ServantNext \/ StreamBreaks \/ WaitFails \/ CompilerFails
      PROVE  ExitOK'
  <2>1. child' = child /\ pc' = pc /\ (task' = task \/ task.stage # "none")
    BY <1>5 DEF DaemonNext, StartTask, WriteChunk, WritesDone, Queued, WaitForTask,
       WaitServantTask, ServantNext, Prepare, SendFile, CompilerSucceeds, StreamBreaks,
       WaitFails, CompilerFails, Client, Preprocessor
  <2>2. QED
    BY <1>4, <2>1
<1>6. CASE HandleProgramIO
  <2>1. child' = child /\ pc' \in {"poll", "handle"} /\ task' = task
    BY <1>6 DEF HandleProgramIO, Poll, HandleStdin, HandleStdout, HandleStderr, Take,
                Preprocessor
  <2>2. QED
    BY <1>4, <2>1
<1>7. CASE SmallFile \/ CallFails \/ (NotRewritten /\ attempt # 1)
  <2>1. child' = child /\ pc' = "native" /\ task' = task
    BY <1>7 DEF SmallFile, CallFails, NotRewritten, MayTryAgain, Preprocessor
  <2>2. QED
    BY <1>4, <2>1
<1>8. CASE Submits
  <2>1. child' = child /\ pc = "rewritten"
    BY <1>8 DEF Submits, SubmitCxxTask, Preprocessor
  <2>2. QED
    BY <1>4, <2>1
<1>9. CASE Wait
  <2>1. child' = child /\ pc = "waiting" /\ task' = task
    BY <1>9 DEF Wait, Answered, Preprocessor
  <2>2. QED
    BY <1>4, <2>1
<1>10. CASE UNCHANGED vars
  <2>1. child' = child /\ pc' = pc /\ task' = task
    BY <1>10 DEF vars
  <2>2. QED
    BY <1>4, <2>1
<1>11. ASSUME ChildRuns \/ ChildFails PROVE child.status = "running"
  BY <1>11 DEF ChildRuns, ChildWritesOut, ChildWritesErr, ChildSucceeds, ChildFails
<1>12. QED
  BY <1>1, <1>2, <1>3, <1>5, <1>6, <1>7, <1>8, <1>9, <1>10, <1>11, Zenon
     DEF Next, ClientNext

LEMMA ExitOKHolds == Spec => []ExitOK
<1>1. Init => ExitOK
  BY DEF Init, ExitOK, NoTask, NoChild
<1>2. QED
  BY <1>1, IInvHolds, NextExitOK, PTL DEF Spec

\* What exit code 0 says of the preprocessor's output.
LEMMA ExitCodeZero ==
    ASSUME IInv, ExitOK, pc = "done" \/ servant.stage # "none"
    PROVE  WholeUnlessKilled
<1>1. pc = "done" \/ task.stage # "none"
  BY DEF IInv, ServerInv, Stages
<1>2. QED
  BY <1>1 DEF ExitOK, WholeUnlessKilled

\* Whatever happens to a stream, the servant compiles all the blocks the
\* preprocessor wrote or none, because a frame cut short does not decompress;
\* and these are the whole text unless a signal killed the preprocessor.
THEOREM NoPartOfASource == Spec => []NoPartIsCompiled
<1>1. IInv /\ ExitOK => NoPartIsCompiled
  <2> SUFFICES ASSUME IInv, ExitOK, servant.stage \in {"prepared", "compiled"}
               PROVE  \/ servant.source = <<>>
                      \/ servant.source = Text(child.out) /\ WholeUnlessKilled
    BY DEF NoPartIsCompiled
  <2>1. servant.source \in {<<>>, Text(child.out)}
    BY DEF IInv, ServerInv, Sources
  <2>2. WholeUnlessKilled
    BY ExitCodeZero
  <2>3. QED
    BY <2>1, <2>2
<1>2. QED
  BY <1>1, IInvHolds, ExitOKHolds, PTL

\* A client the cloud has answered has in every file it was able to write, its
\* object among them, what the compiler makes of all the preprocessor's output
\* under the options of the attempt the text is from.  Its own writes may fail
\* unnoticed, and the output ends where a signal killed the preprocessor.
THEOREM TheWholeSourceIsWritten == Spec => []WrittenIsTheWholeSource
<1>1. IInv /\ ExitOK => WrittenIsTheWholeSource
  <2> SUFFICES ASSUME IInv, ExitOK, pc = "done"
               PROVE  /\ WholeUnlessKilled
                      /\ "destination" \in DOMAIN disk
                      /\ \A suffix \in UNION {ToSet(p) : p \in Products} :
                           NameOf(suffix) \in DOMAIN disk =>
                             disk[NameOf(suffix)] \in
                               {Compiled(suffix, attempt = 1, Text(child.out)), Torn}
    BY DEF WrittenIsTheWholeSource
  <2>0. WholeUnlessKilled
    BY ExitCodeZero
  <2>1. PICK text, flag : text = Text(child.out) /\ flag = (attempt = 1)
    OBVIOUS
  <2>2. PICK product \in Products : DiskHolds(disk, product, flag, text)
    BY <2>1, Zenon DEF IInv, Progress
  <2>3. /\ product # <<>>
        /\ DOMAIN disk = {NameOf(product[i]) : i \in DOMAIN product}
        /\ \A i \in DOMAIN product :
             disk[NameOf(product[i])] \in {Compiled(product[i], flag, text), Torn}
    BY <2>2, Zenon DEF DiskHolds
  <2>4. "destination" \in DOMAIN disk
    <3>1. ".o" \in ToSet(product)
      BY <2>3, ProductsAssumption
    <3>2. PICK i \in DOMAIN product : product[i] = ".o"
      BY <3>1 DEF ToSet
    <3>3. NameOf(product[i]) = "destination"
      BY <3>2 DEF NameOf
    <3>4. QED
      BY <2>3, <3>3, Zenon
  <2>5. ASSUME NEW suffix \in UNION {ToSet(p) : p \in Products},
               NameOf(suffix) \in DOMAIN disk
        PROVE  disk[NameOf(suffix)] \in {Compiled(suffix, flag, text), Torn}
    <3>1. PICK i \in DOMAIN product : NameOf(suffix) = NameOf(product[i])
      BY <2>3, <2>5, Zenon
    <3>2. PICK p \in Products : suffix \in ToSet(p)
      BY <2>5
    <3>3. SuffixOf(NameOf(suffix)) = suffix
      <4>1. PICK j \in DOMAIN p : suffix = p[j]
        BY <3>2 DEF ToSet
      <4>2. QED
        BY <4>1, NamesDiffer, Zenon
    <3>4. SuffixOf(NameOf(product[i])) = product[i]
      BY NamesDiffer, Zenon
    <3>5. suffix = product[i]
      BY <3>1, <3>3, <3>4, Zenon
    <3>6. QED
      BY <2>3, <3>5, Zenon
  <2>6. QED
    BY <2>0, <2>1, <2>4, <2>5, Zenon
<1>2. QED
  BY <1>1, IInvHolds, ExitOKHolds, PTL

=============================================================================
