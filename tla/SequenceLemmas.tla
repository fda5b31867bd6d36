---------------------------- MODULE SequenceLemmas ----------------------------
(***************************************************************************)
(* What FlattenSeq of the community modules computes, for sequences of any *)
(* length: it is defined by a recursive function, whose existence and      *)
(* uniqueness are shown here by induction.  The induction is over a set of *)
(* numbers, by the fact that a set of numbers has a least element.         *)
(***************************************************************************)
EXTENDS Integers, Sequences, SequencesExt, SequenceTheorems, WellFoundedInduction, TLAPS

(* A set of numbers has a least element.                                   *)
LEMMA LeastNumber ==
  ASSUME NEW K, K \subseteq Nat, K # {}
  PROVE  Min(K) \in K /\ \A y \in K : Min(K) <= y
<1> DEFINE R == OpToRel(<, Nat)
<1>1. IsWellFoundedOn(R, Nat)
  BY NatLessThanWellFounded
<1>2. \E x \in K : \A y \in K : ~ (<<y, x>> \in R)
  <2> HIDE DEF R
  <2> QED BY <1>1, WFMin
<1>3. PICK x \in K : \A y \in K : ~ (<<y, x>> \in R)
  BY <1>2
<1>4. \A y \in K : x <= y
  <2> SUFFICES ASSUME NEW y \in K, ~ (x <= y) PROVE FALSE
    OBVIOUS
  <2>1. y \in Nat /\ x \in Nat /\ y < x
    OBVIOUS
  <2>2. <<y, x>> \in R
    BY <2>1 DEF OpToRel
  <2> HIDE DEF R
  <2> QED BY <2>2, <1>3
<1> QED BY <1>4 DEF Min

(* A set with 0 that is closed under successor has all natural numbers.    *)
LEMMA SetInduction ==
  ASSUME NEW T, 0 \in T, \A n \in Nat : n \in T => n + 1 \in T
  PROVE  Nat \subseteq T
<1> DEFINE R == OpToRel(<, Nat)
           U == Nat \ T
<1>1. SUFFICES ASSUME U # {} PROVE FALSE
  OBVIOUS
<1>2. IsWellFoundedOn(R, Nat)
  BY NatLessThanWellFounded
<1>3. \E x \in U : \A y \in U : ~ (<<y, x>> \in R)
  <2> HIDE DEF R
  <2> QED BY <1>1, <1>2, WFMin
<1>4. PICK x \in U : \A y \in U : ~ (<<y, x>> \in R)
  BY <1>3
<1>5. x \in Nat \ {0} /\ x - 1 \in Nat /\ x - 1 \notin T
  <2> HIDE DEF R
  <2> QED BY <1>4
<1>6. <<x - 1, x>> \in R
  BY <1>5 DEF OpToRel
<1> HIDE DEF R
<1> QED BY <1>4, <1>5, <1>6

-----------------------------------------------------------------------------
(* f is the function in the definition of FlattenSeq, as far as n.         *)
Flattens(f, s, n) == f = [i \in 1 .. n |-> IF i = 1 THEN s[i] ELSE f[i-1] \o s[i]]

(* \o, for the steps that only use that it is a function of its arguments.  *)
Joined(a, b) == a \o b

(* Its value at i.                                                         *)
LEMMA FlattensAt ==
  ASSUME NEW f, NEW s, NEW n, Flattens(f, s, n), NEW i \in 1 .. n
  PROVE  f[i] = IF i = 1 THEN s[i] ELSE Joined(f[i-1], s[i])
<1>1. f[i] = IF i = 1 THEN s[i] ELSE f[i-1] \o s[i]
  BY Zenon DEF Flattens
<1> QED BY <1>1 DEF Joined

(* There is such a function, and its values are sequences.                 *)
LEMMA FlattenExists ==
  ASSUME NEW Q, \A a, b \in Q : Joined(a, b) \in Q, NEW s \in Seq(Q)
  PROVE  \E f \in [1 .. Len(s) -> Q] : Flattens(f, s, Len(s))
<1> DEFINE T == {n \in Nat : n <= Len(s) => \E f \in [1 .. n -> Q] : Flattens(f, s, n)}
<1>0. \A i \in 1 .. Len(s) : s[i] \in Q
  OBVIOUS
<1>1. 0 \in T
  <2>1. PICK f : f = [i \in 1 .. 0 |-> <<>>]
    OBVIOUS
  <2>2. f \in [1 .. 0 -> Q]
    BY <2>1
  <2>3. Flattens(f, s, 0)
    BY <2>1 DEF Flattens
  <2> QED BY <2>2, <2>3
<1>2. ASSUME NEW n \in Nat, n \in T PROVE n + 1 \in T
  <2>1. SUFFICES ASSUME n + 1 <= Len(s)
                 PROVE  \E g \in [1 .. n + 1 -> Q] : Flattens(g, s, n + 1)
    OBVIOUS
  <2>2. PICK f \in [1 .. n -> Q] : Flattens(f, s, n)
    BY <1>2, <2>1
  <2> DEFINE last == IF n = 0 THEN s[1] ELSE Joined(f[n], s[n + 1])
             g == [i \in 1 .. n + 1 |-> IF i <= n THEN f[i] ELSE last]
  <2>3. last \in Q
    <3>1. CASE n = 0
      BY <1>0, <2>1, <3>1
    <3>2. CASE n # 0
      <4>1. f[n] \in Q /\ s[n + 1] \in Q
        BY <1>0, <2>1, <3>2
      <4> QED BY <3>2, <4>1
    <3> QED BY <3>1, <3>2
  <2>4. g \in [1 .. n + 1 -> Q]
    <3> HIDE DEF last
    <3> QED BY <2>3
  <2>5. \A i \in 1 .. n : f[i] = IF i = 1 THEN s[i] ELSE Joined(f[i-1], s[i])
    <3> HIDE DEF last, g, T
    <3>1. Flattens(f, s, n)
      BY <2>2
    <3>2. ASSUME NEW i \in 1 .. n
          PROVE  f[i] = IF i = 1 THEN s[i] ELSE Joined(f[i-1], s[i])
      BY <3>1, FlattensAt
    <3> QED BY <3>2
  <2>6. ASSUME NEW i \in 1 .. n + 1
        PROVE  g[i] = IF i = 1 THEN s[i] ELSE Joined(g[i-1], s[i])
    <3>1. CASE i <= n
      <4>1. g[i] = f[i] /\ (i # 1 => g[i-1] = f[i-1])
        BY <3>1
      <4> HIDE DEF g
      <4> QED BY <2>5, <3>1, <4>1
    <3>2. CASE i = n + 1
      <4>1. g[i] = last
        BY <3>2
      <4>2. i # 1 => g[i-1] = f[n] /\ n # 0
        BY <3>2
      <4> HIDE DEF g
      <4> QED BY <3>2, <4>1, <4>2
    <3> QED BY <3>1, <3>2
  <2>7. Flattens(g, s, n + 1)
    <3> DEFINE h == [i \in 1 .. n + 1 |-> IF i = 1 THEN s[i] ELSE g[i-1] \o s[i]]
    <3>1. \A i \in 1 .. n + 1 : g[i] = h[i]
      <4> HIDE DEF g
      <4> QED BY <2>6 DEF Joined
    <3>2. g = h
      <4> DEFINE e(i) == IF i = 1 THEN s[i] ELSE g[i-1] \o s[i]
      <4>1. g = [i \in 1 .. n + 1 |-> g[i]]
        BY <2>4
      <4> HIDE DEF g
      <4> QED BY <3>1, <4>1
    <3> QED BY <3>2 DEF Flattens
  <2> QED BY <2>4, <2>7
<1>3. Nat \subseteq T
  <2> HIDE DEF T
  <2> QED BY <1>1, <1>2, SetInduction
<1> QED BY <1>3

(* s and t agree up to k.                                                  *)
Agree(s, t, k) == \A i \in 1 .. k : s[i] = t[i]

(* Two such functions agree as far as the sequences they flatten do.       *)
LEMMA FlattenUnique ==
  ASSUME NEW s, NEW t, NEW m \in Nat, NEW n \in Nat, NEW k \in Nat, k <= m, k <= n,
         Agree(s, t, k),
         NEW f, Flattens(f, s, m), NEW g, Flattens(g, t, n)
  PROVE  Agree(f, g, k)
<1> DEFINE T == {i \in Nat : i \in 1 .. k => f[i] = g[i]}
<1>1. 0 \in T
  OBVIOUS
<1>2. ASSUME NEW i \in Nat, i \in T PROVE i + 1 \in T
  <2>1. SUFFICES ASSUME i + 1 <= k PROVE f[i + 1] = g[i + 1]
    OBVIOUS
  <2>2. f[i + 1] = IF i + 1 = 1 THEN s[i + 1] ELSE Joined(f[i], s[i + 1])
    <3>1. i + 1 \in 1 .. m /\ (i + 1) - 1 = i
      BY <2>1
    <3> QED BY <3>1, FlattensAt
  <2>3. g[i + 1] = IF i + 1 = 1 THEN t[i + 1] ELSE Joined(g[i], t[i + 1])
    <3>1. i + 1 \in 1 .. n /\ (i + 1) - 1 = i
      BY <2>1
    <3> QED BY <3>1, FlattensAt
  <2>4. i # 0 => f[i] = g[i]
    BY <1>2, <2>1
  <2>5. s[i + 1] = t[i + 1]
    BY <2>1 DEF Agree
  <2> QED BY <2>2, <2>3, <2>4, <2>5
<1>3. Nat \subseteq T
  <2> HIDE DEF T
  <2> QED BY <1>1, <1>2, SetInduction
<1> QED BY <1>3 DEF Agree

-----------------------------------------------------------------------------
(* Nothing flattens to nothing.                                            *)
LEMMA FlattenNothing == FlattenSeq(<<>>) = <<>>
BY DEF FlattenSeq

(* FlattenSeq is the last value of such a function.                        *)
LEMMA FlattenValue ==
  ASSUME NEW Q, \A a, b \in Q : Joined(a, b) \in Q, NEW s \in Seq(Q), s # <<>>
  PROVE  \E f \in [1 .. Len(s) -> Q] :
           Flattens(f, s, Len(s)) /\ FlattenSeq(s) = f[Len(s)]
<1> DEFINE g == CHOOSE f : Flattens(f, s, Len(s))
<1>1. PICK f \in [1 .. Len(s) -> Q] : Flattens(f, s, Len(s))
  BY FlattenExists
<1>2. Flattens(g, s, Len(s))
  <2>1. \E f1 : Flattens(f1, s, Len(s))
    BY <1>1
  <2> QED BY <2>1
<1>3. Len(s) \in Nat \ {0}
  BY EmptySeq
<1>4. FlattenSeq(s) = g[Len(s)]
  BY <1>3 DEF FlattenSeq, Flattens
<1>5. \A i \in 1 .. Len(s) : g[i] = f[i]
  <2> HIDE DEF g
  <2>1. Len(s) \in Nat /\ Len(s) <= Len(s)
    BY <1>3
  <2>2. Flattens(f, s, Len(s))
    BY <1>1
  <2>3. Agree(s, s, Len(s))
    BY DEF Agree
  <2>4. Agree(g, f, Len(s))
    BY <1>2, <2>1, <2>2, <2>3, FlattenUnique
  <2> QED BY <2>4 DEF Agree
<1> HIDE DEF g
<1> QED BY <1>1, <1>3, <1>4, <1>5

(* One more sequence at the end comes at the end.                          *)
LEMMA FlattenLast ==
  ASSUME NEW Q, \A a, b \in Q : Joined(a, b) \in Q, NEW s \in Seq(Q), NEW p \in Q
  PROVE  FlattenSeq(Append(s, p)) = IF s = <<>> THEN p ELSE Joined(FlattenSeq(s), p)
<1> DEFINE t == Append(s, p)
           n == Len(s)
<1>1. t \in Seq(Q) /\ t # <<>> /\ Len(t) = n + 1 /\ n \in Nat
  BY AppendProperties
<1>2. (\A i \in 1 .. n : t[i] = s[i]) /\ t[n + 1] = p
  BY AppendProperties
<1>0. ASSUME NEW f, Flattens(f, s, n), NEW g, Flattens(g, t, n + 1)
      PROVE  Agree(f, g, n)
  <2> DEFINE m == n + 1
  <2>1. n \in Nat /\ m \in Nat /\ n <= n /\ n <= m
    BY <1>1
  <2>2. Flattens(g, t, m)
    BY <1>0
  <2>3. Agree(s, t, n)
    BY <1>2 DEF Agree
  <2> HIDE DEF t, n, m
  <2> QED BY <1>0, <2>1, <2>2, <2>3, FlattenUnique
<1>3. PICK g \in [1 .. n + 1 -> Q] :
        Flattens(g, t, n + 1) /\ FlattenSeq(t) = g[n + 1]
  <2> HIDE DEF t, n
  <2> QED BY <1>1, FlattenValue
<1> HIDE DEF t
<1>4. g[n + 1] = IF n + 1 = 1 THEN t[n + 1] ELSE Joined(g[n], t[n + 1])
  <2>1. n + 1 \in 1 .. n + 1 /\ (n + 1) - 1 = n
    BY <1>1
  <2> QED BY <1>3, <2>1, FlattensAt
<1>5. CASE s = <<>>
  BY <1>1, <1>2, <1>3, <1>4, <1>5 DEF t
<1>6. CASE s # <<>>
  <2>1. PICK f \in [1 .. n -> Q] : Flattens(f, s, n) /\ FlattenSeq(s) = f[n]
    BY <1>6, FlattenValue
  <2>2. n \in 1 .. n
    BY <1>6, EmptySeq
  <2>3. f[n] = g[n]
    <3>1. Flattens(f, s, n) /\ Flattens(g, t, n + 1)
      BY <1>3, <2>1
    <3>2. Agree(f, g, n)
      BY <1>0, <3>1
    <3> QED BY <2>2, <3>2 DEF Agree
  <2> QED BY <1>1, <1>2, <1>3, <1>4, <2>1, <2>2, <2>3 DEF t, Joined
<1> QED BY <1>5, <1>6

(* The result is a sequence, and what comes last in it is what came last.  *)
LEMMA FlattenType ==
  ASSUME NEW X, NEW s \in Seq(Seq(X))
  PROVE  FlattenSeq(s) \in Seq(X)
<1> DEFINE Q == Seq(X)
<1>1. CASE s = <<>>
  BY <1>1, FlattenNothing, EmptySeq
<1>2. CASE s # <<>>
  <2>1. Len(s) \in 1 .. Len(s)
    BY <1>2, EmptySeq
  <2>2. \A a, b \in Q : Joined(a, b) \in Q
    BY ConcatProperties DEF Joined
  <2> HIDE DEF Q
  <2>3. PICK f \in [1 .. Len(s) -> Q] : FlattenSeq(s) = f[Len(s)]
    <3>1. s \in Seq(Q)
      BY DEF Q
    <3> QED BY <1>2, <2>2, <3>1, FlattenValue
  <2>4. FlattenSeq(s) \in Q
    BY <2>1, <2>3
  <2> QED BY <2>4 DEF Q
<1> QED BY <1>1, <1>2

(* One more sequence at the end, for sequences over any set.               *)
LEMMA FlattenAppend ==
  ASSUME NEW X, NEW s \in Seq(Seq(X)), NEW p \in Seq(X)
  PROVE  FlattenSeq(Append(s, p)) = FlattenSeq(s) \o p
<1> DEFINE Q == Seq(X)
<1>1. \A a, b \in Q : Joined(a, b) \in Q
  BY ConcatProperties DEF Joined
<1>2. FlattenSeq(Append(s, p)) = IF s = <<>> THEN p ELSE Joined(FlattenSeq(s), p)
  <2>1. s \in Seq(Q) /\ p \in Q
    OBVIOUS
  <2> HIDE DEF Q
  <2> QED BY <1>1, <2>1, FlattenLast
<1> QED BY <1>2, FlattenNothing, ConcatEmptySeq DEF Joined

(* Every element of the sequences is in the one they make.                 *)
LEMMA FlattenHas ==
  ASSUME NEW X, NEW s \in Seq(Seq(X)), NEW i \in 1 .. Len(s), NEW k \in 1 .. Len(s[i])
  PROVE  \E j \in 1 .. Len(FlattenSeq(s)) : FlattenSeq(s)[j] = s[i][k]
<1> DEFINE Has(t) == \A m \in 1 .. Len(t) : \A l \in 1 .. Len(t[m]) :
                       \E j \in 1 .. Len(FlattenSeq(t)) : FlattenSeq(t)[j] = t[m][l]
           T == {n \in Nat : \A t \in Seq(Seq(X)) : Len(t) = n => Has(t)}
<1>1. 0 \in T
  OBVIOUS
<1>2. ASSUME NEW n \in Nat, n \in T PROVE n + 1 \in T
  <2>1. SUFFICES ASSUME NEW t \in Seq(Seq(X)), Len(t) = n + 1 PROVE Has(t)
    OBVIOUS
  <2> DEFINE front == SubSeq(t, 1, n)
             last == t[n + 1]
             most == FlattenSeq(front)
  <2>2. /\ front \in Seq(Seq(X)) /\ Len(front) = n /\ \A m \in 1 .. n : front[m] = t[m]
        /\ last \in Seq(X)
    BY <2>1
  <2>3. t = Append(front, last)
    <3>1. Len(Append(front, last)) = n + 1 /\ Append(front, last) \in Seq(Seq(X))
      BY <2>2
    <3>2. \A m \in 1 .. n + 1 : Append(front, last)[m] = t[m]
      BY <2>2
    <3> HIDE DEF front, last
    <3> QED BY <2>1, <3>1, <3>2
  <2>4. Has(front)
    <3> HIDE DEF front, last
    <3> QED BY <1>2, <2>2
  <2> HIDE DEF front, last
  <2>5. most \in Seq(X) /\ FlattenSeq(t) = most \o last
    BY <2>2, <2>3, FlattenType, FlattenAppend
  <2> HIDE DEF most
  <2>6. /\ Len(FlattenSeq(t)) = Len(most) + Len(last) /\ Len(most) \in Nat /\ Len(last) \in Nat
        /\ \A j \in 1 .. Len(most) : FlattenSeq(t)[j] = most[j]
        /\ \A j \in 1 .. Len(last) : FlattenSeq(t)[Len(most) + j] = last[j]
    BY <2>2, <2>5
  <2>7. ASSUME NEW m \in 1 .. Len(t), NEW l \in 1 .. Len(t[m])
        PROVE  \E j \in 1 .. Len(FlattenSeq(t)) : FlattenSeq(t)[j] = t[m][l]
    <3>1. CASE m = n + 1
      <4>1. l \in 1 .. Len(last) /\ last[l] = t[m][l]
        BY <2>7, <3>1 DEF last
      <4>2. FlattenSeq(t)[Len(most) + l] = t[m][l]
        BY <2>6, <4>1, Zenon
      <4>3. Len(most) + l \in 1 .. Len(FlattenSeq(t))
        <5>1. l \in Nat /\ 1 <= l /\ l <= Len(last)
          BY <2>6, <4>1
        <5> QED BY <2>6, <5>1
      <4> QED BY <4>2, <4>3
    <3>2. CASE m # n + 1
      <4>1. m \in 1 .. n
        BY <2>1, <3>2
      <4>2. m \in 1 .. Len(front) /\ front[m] = t[m]
        BY <2>2, <4>1
      <4>3. PICK j \in 1 .. Len(most) : most[j] = t[m][l]
        BY <2>4, <4>2 DEF most
      <4>4. j \in 1 .. Len(FlattenSeq(t)) /\ FlattenSeq(t)[j] = t[m][l]
        BY <2>6, <4>3
      <4> QED BY <4>4
    <3> QED BY <3>1, <3>2
  <2> QED BY <2>7
<1>3. Nat \subseteq T
  <2> HIDE DEF T
  <2> QED BY <1>1, <1>2, SetInduction
<1>4. Len(s) \in Nat
  OBVIOUS
<1> QED BY <1>3, <1>4

-----------------------------------------------------------------------------
(* IsPrefix, element by element.                                           *)
LEMMA PrefixElements ==
  ASSUME NEW X, NEW s \in Seq(X), NEW t \in Seq(X)
  PROVE  IsPrefix(s, t) <=> Len(s) <= Len(t) /\ \A i \in 1 .. Len(s) : s[i] = t[i]
<1>1. SUFFICES ASSUME Len(s) <= Len(t)
               PROVE  SubSeq(s, 1, Len(s)) = SubSeq(t, 1, Len(s))
                        <=> \A i \in 1 .. Len(s) : s[i] = t[i]
  BY DEF IsPrefix
<1>2. /\ SubSeq(t, 1, Len(s)) \in Seq(X)
      /\ Len(SubSeq(t, 1, Len(s))) = Len(s)
      /\ \A i \in 1 .. Len(s) : SubSeq(t, 1, Len(s))[i] = t[i]
  <2>1. Len(s) \in Nat /\ \A i \in 1 .. Len(s) : t[i] \in X
    BY <1>1, LenProperties, ElementOfSeq
  <2> QED BY <2>1, SubSeqProperties
<1>3. SubSeq(s, 1, Len(s)) = s
  BY SubSeqFull
<1> QED BY <1>2, <1>3, SeqEqual

(* Prefixes of every sequence.                                             *)
LEMMA PrefixSelf ==
  ASSUME NEW X, NEW s \in Seq(X)
  PROVE  IsPrefix(s, s) /\ IsPrefix(<<>>, s)
<1>1. IsPrefix(s, s)
  BY LenProperties DEF IsPrefix
<1>2. Len(s) \in Nat /\ Len(<<>>) = 0
  BY EmptySeq, LenProperties
<1>3. SubSeq(<<>>, 1, 0) = <<>> /\ SubSeq(s, 1, 0) = <<>>
  BY SubSeqEmpty
<1> QED BY <1>1, <1>2, <1>3 DEF IsPrefix

(* A common beginning may be put in front of both.                         *)
LEMMA PrefixConcat ==
  ASSUME NEW X, NEW s \in Seq(X), NEW t \in Seq(X), NEW u \in Seq(X), IsPrefix(t, u)
  PROVE  IsPrefix(s \o t, s \o u)
<1>1. Len(t) <= Len(u) /\ \A i \in 1 .. Len(t) : t[i] = u[i]
  BY PrefixElements
<1>2. /\ s \o t \in Seq(X) /\ Len(s \o t) = Len(s) + Len(t)
      /\ s \o u \in Seq(X) /\ Len(s \o u) = Len(s) + Len(u)
  BY ConcatProperties
<1>3. Len(s) \in Nat /\ Len(t) \in Nat /\ Len(u) \in Nat
  BY LenProperties
<1>4. ASSUME NEW i \in 1 .. Len(s) + Len(t) PROVE (s \o t)[i] = (s \o u)[i]
  <2>1. (s \o t)[i] = IF i <= Len(s) THEN s[i] ELSE t[i - Len(s)]
    BY ConcatProperties
  <2>2. (s \o u)[i] = IF i <= Len(s) THEN s[i] ELSE u[i - Len(s)]
    BY <1>1, <1>3, ConcatProperties
  <2>3. i > Len(s) => i - Len(s) \in 1 .. Len(t)
    BY <1>3
  <2> QED BY <1>1, <2>1, <2>2, <2>3
<1> DEFINE a == s \o t
           b == s \o u
<1>5. a \in Seq(X) /\ b \in Seq(X) /\ Len(a) <= Len(b) /\ \A i \in 1 .. Len(a) : a[i] = b[i]
  BY <1>1, <1>2, <1>3, <1>4
<1> HIDE DEF a, b
<1>6. IsPrefix(a, b)
  BY <1>5, PrefixElements
<1> QED BY <1>6 DEF a, b

(* A prefix stays one when the longer sequence grows.                      *)
LEMMA PrefixAppend ==
  ASSUME NEW X, NEW s \in Seq(X), NEW t \in Seq(X), NEW e \in X, IsPrefix(s, t)
  PROVE  IsPrefix(s, Append(t, e))
<1>1. /\ Append(t, e) \in Seq(X) /\ Len(Append(t, e)) = Len(t) + 1
      /\ \A i \in 1 .. Len(t) : Append(t, e)[i] = t[i]
  BY AppendProperties
<1>2. Len(s) <= Len(t) /\ \A i \in 1 .. Len(s) : s[i] = t[i]
  BY PrefixElements
<1>3. Len(s) \in Nat /\ Len(t) \in Nat
  BY LenProperties
<1>4. \A i \in 1 .. Len(s) : s[i] = Append(t, e)[i]
  BY <1>1, <1>2, <1>3
<1> DEFINE b == Append(t, e)
<1>5. b \in Seq(X) /\ Len(s) <= Len(b) /\ \A i \in 1 .. Len(s) : s[i] = b[i]
  BY <1>1, <1>2, <1>3, <1>4
<1> HIDE DEF b
<1>6. IsPrefix(s, b)
  BY <1>5, PrefixElements
<1> QED BY <1>6 DEF b

(* A prefix is the start of the longer sequence.                           *)
LEMMA PrefixIsStart ==
  ASSUME NEW X, NEW s \in Seq(X), NEW t \in Seq(X), IsPrefix(s, t)
  PROVE  s = SubSeq(t, 1, Len(s))
BY SubSeqFull DEF IsPrefix

-----------------------------------------------------------------------------
(* Reversing twice, piece by piece.                                        *)
LEMMA ReverseType ==
  ASSUME NEW X, NEW s \in Seq(X)
  PROVE  /\ Reverse(s) \in Seq(X) /\ Len(Reverse(s)) = Len(s)
         /\ \A i \in 1 .. Len(s) : Reverse(s)[i] = s[Len(s) - i + 1]
<1>1. Len(s) \in Nat /\ \A i \in 1 .. Len(s) : s[Len(s) - i + 1] \in X
  BY ElementOfSeq, LenProperties
<1> QED BY <1>1 DEF Reverse

(* What was appended reversed comes out first and in order.                *)
LEMMA ReverseConcat ==
  ASSUME NEW X, NEW s \in Seq(X), NEW t \in Seq(X)
  PROVE  Reverse(s \o Reverse(t)) = t \o Reverse(s)
<1> DEFINE m == Len(s)
           n == Len(t)
           rs == Reverse(s)
           rt == Reverse(t)
           r == s \o rt
           l == Reverse(r)
           q == t \o rs
<1>1. m \in Nat /\ n \in Nat
  BY LenProperties
<1>2. /\ rt \in Seq(X) /\ Len(rt) = n /\ \A i \in 1 .. n : rt[i] = t[n - i + 1]
      /\ rs \in Seq(X) /\ Len(rs) = m /\ \A i \in 1 .. m : rs[i] = s[m - i + 1]
  BY ReverseType
<1>3. /\ r \in Seq(X) /\ Len(r) = m + n
      /\ \A i \in 1 .. m + n : r[i] = IF i <= m THEN s[i] ELSE rt[i - m]
  <2> HIDE DEF rt
  <2>1. Len(s) + Len(rt) = m + n
    BY <1>2
  <2>2. r \in Seq(X) /\ Len(r) = Len(s) + Len(rt)
    BY <1>2, ConcatProperties
  <2>3. ASSUME NEW i \in 1 .. Len(s) + Len(rt)
        PROVE  r[i] = IF i <= Len(s) THEN s[i] ELSE rt[i - Len(s)]
    BY <1>2, ConcatProperties
  <2> QED BY <2>1, <2>2, <2>3
<1>4. /\ q \in Seq(X) /\ Len(q) = m + n
      /\ \A i \in 1 .. m + n : q[i] = IF i <= n THEN t[i] ELSE rs[i - n]
  <2> HIDE DEF rs
  <2>1. Len(t) + Len(rs) = m + n
    BY <1>1, <1>2
  <2>2. q \in Seq(X) /\ Len(q) = Len(t) + Len(rs)
    BY <1>2, ConcatProperties
  <2>3. ASSUME NEW i \in 1 .. Len(t) + Len(rs)
        PROVE  q[i] = IF i <= Len(t) THEN t[i] ELSE rs[i - Len(t)]
    BY <1>2, ConcatProperties
  <2> QED BY <2>1, <2>2, <2>3
<1>5. /\ l \in Seq(X) /\ Len(l) = m + n
      /\ \A i \in 1 .. m + n : l[i] = r[m + n - i + 1]
  <2> HIDE DEF r
  <2> QED BY <1>3, ReverseType
<1> HIDE DEF m, n, rs, rt, r, l, q
<1>6. ASSUME NEW i \in 1 .. m + n PROVE l[i] = q[i]
  <2> DEFINE j == m + n - i + 1
  <2>1. j \in 1 .. m + n /\ l[i] = r[j]
    BY <1>1, <1>5
  <2>2. CASE i <= n
    <3>1. n - i + 1 \in 1 .. n /\ n - (n - i + 1) + 1 = i /\ ~(j <= m) /\ j - m = n - i + 1
      BY <1>1, <2>2
    <3> HIDE DEF j
    <3>2. r[j] = rt[n - i + 1]
      BY <1>3, <2>1, <3>1
    <3>3. rt[n - i + 1] = t[i]
      BY <1>2, <3>1
    <3> QED BY <1>4, <2>1, <2>2, <3>2, <3>3
  <2>3. CASE ~(i <= n)
    <3>1. i - n \in 1 .. m /\ m - (i - n) + 1 = j /\ j <= m
      BY <1>1, <2>3
    <3> HIDE DEF j
    <3>2. rs[i - n] = s[j]
      BY <1>2, <3>1
    <3> QED BY <1>3, <1>4, <2>1, <2>3, <3>1, <3>2
  <2> QED BY <2>2, <2>3
<1>7. l = q
  <2>1. Len(l) = Len(q) /\ \A i \in 1 .. Len(l) : l[i] = q[i]
    BY <1>4, <1>5, <1>6
  <2> QED BY <1>4, <1>5, <2>1, SeqEqual
<1> QED BY <1>7 DEF l, q, r, rs, rt
=============================================================================
