--------------------------- MODULE SequenceLemmas ---------------------------
(* Lemmas about FlattenSeq and IsPrefix, which the texts and the frames of   *)
(* this project are built with.  Induction over the natural numbers is by a  *)
(* least counterexample.                                                     *)
EXTENDS SequencesExt, SequenceTheorems, NaturalsInduction, WellFoundedInduction, TLAPS

(* A set of natural numbers has a least one.                                 *)
LEMMA LeastNumber ==
  ASSUME NEW T, T \subseteq Nat, T # {}
  PROVE  \E n \in T : \A m \in T : n <= m
<1>1. PICK n \in T : \A m \in T : ~(<<m, n>> \in OpToRel(<, Nat))
  BY WFMin, NatLessThanWellFounded
<1>2. \A m \in T : ~(m < n)
  BY <1>1 DEF OpToRel
<1>3. QED
  BY <1>2

(* Induction for a set: what holds at 0 and goes from n to n + 1 holds.      *)
LEMMA SetInduction ==
  ASSUME NEW T, 0 \in T, \A n \in Nat : n \in T => n + 1 \in T
  PROVE  Nat \subseteq T
<1> SUFFICES ASSUME Nat \ T # {} PROVE FALSE
  OBVIOUS
<1>1. PICK n \in Nat \ T : \A m \in Nat \ T : n <= m
  BY LeastNumber
<1>2. n # 0 /\ n - 1 \in Nat
  BY <1>1
<1>3. n - 1 \in T
  BY <1>1, <1>2
<1>4. n \in T
  BY <1>2, <1>3
<1>5. QED
  BY <1>1, <1>4

----------------------------------------------------------------------------
(* FlattenSeq *)

\* f is the function that FlattenSeq computes over the first n elements of s.
Flattens(f, s, n) ==
    f = [i \in 1..n |-> IF i = 1 THEN s[i] ELSE f[i - 1] \o s[i]]

(* There is one.                                                             *)
LEMMA FlattenExists ==
  ASSUME NEW S, NEW s \in Seq(Seq(S))
  PROVE  \A n \in Nat : n <= Len(s) => \E f \in [1..n -> Seq(S)] : Flattens(f, s, n)
<1> DEFINE T == {n \in Nat : n <= Len(s) => \E f \in [1..n -> Seq(S)] : Flattens(f, s, n)}
<1>0. Len(s) \in Nat /\ \A i \in 1..Len(s) : s[i] \in Seq(S)
  BY LenProperties, ElementOfSeq
<1>1. 0 \in T
  <2> DEFINE f == [i \in 1..0 |-> IF i = 1 THEN s[i] ELSE s[i]]
  <2>1. f \in [1..0 -> Seq(S)] /\ Flattens(f, s, 0)
    BY DEF Flattens
  <2>2. QED
    BY <2>1
<1>2. ASSUME NEW n \in Nat, n \in T PROVE n + 1 \in T
  <2>1. SUFFICES ASSUME n + 1 <= Len(s)
                 PROVE  \E g \in [1..n + 1 -> Seq(S)] : Flattens(g, s, n + 1)
    BY <1>2
  <2>2. PICK f \in [1..n -> Seq(S)] : Flattens(f, s, n)
    BY <1>0, <1>2, <2>1
  <2> DEFINE g == [i \in 1..n + 1 |->
                     IF i <= n THEN f[i] ELSE IF i = 1 THEN s[i] ELSE f[i - 1] \o s[i]]
  <2>3. s[n + 1] \in Seq(S)
    BY <1>0, <2>1
  <2>4. \A i \in 1..n : f[i] = IF i = 1 THEN s[i] ELSE f[i - 1] \o s[i]
    BY <2>2 DEF Flattens
  <2>5. g \in [1..n + 1 -> Seq(S)]
    <3>1. ASSUME NEW i \in 1..n + 1 PROVE g[i] \in Seq(S)
      <4>1. CASE i <= n
        BY <4>1
      <4>2. CASE i = n + 1 /\ n = 0
        BY <4>2, <2>3
      <4>3. CASE i = n + 1 /\ n # 0
        <5>1. f[n] \in Seq(S)
          BY <4>3
        <5>2. f[n] \o s[n + 1] \in Seq(S)
          BY <5>1, <2>3, ConcatProperties
        <5>3. QED
          BY <4>3, <5>2
      <4>4. QED
        BY <4>1, <4>2, <4>3
    <3>2. QED
      BY <3>1
  <2>6. \A i \in 1..n + 1 : g[i] = IF i = 1 THEN s[i] ELSE g[i - 1] \o s[i]
    <3>1. \A i \in 1..n : g[i] = f[i]
      OBVIOUS
    <3>2. g[n + 1] = IF n = 0 THEN s[1] ELSE f[n] \o s[n + 1]
      OBVIOUS
    <3> HIDE DEF g
    <3>3. ASSUME NEW i \in 1..n + 1, i <= n
          PROVE  g[i] = IF i = 1 THEN s[i] ELSE g[i - 1] \o s[i]
      <4>1. g[i] = f[i] /\ (i # 1 => i - 1 \in 1..n /\ g[i - 1] = f[i - 1])
        BY <3>1, <3>3
      <4>2. i \in 1..n
        BY <3>3
      <4>3. QED
        BY <2>4, <4>1, <4>2
    <3>4. g[n + 1] = IF n + 1 = 1 THEN s[n + 1] ELSE g[(n + 1) - 1] \o s[n + 1]
      BY <3>1, <3>2
    <3>5. QED
      BY <3>3, <3>4
  <2>7. Flattens(g, s, n + 1)
    BY <2>6 DEF Flattens
  <2>8. QED
    BY <2>5, <2>7
<1>3. QED
  BY <1>1, <1>2, SetInduction

(* Its values.                                                               *)
LEMMA FlattensAt ==
  ASSUME NEW n \in Nat, NEW f, NEW s, Flattens(f, s, n), NEW i \in 1..n
  PROVE  f[i] = IF i = 1 THEN s[i] ELSE f[i - 1] \o s[i]
<1> DEFINE F == [j \in 1..n |-> IF j = 1 THEN s[j] ELSE f[j - 1] \o s[j]]
<1>1. f = F
  BY DEF Flattens
<1>2. F[i] = IF i = 1 THEN s[i] ELSE f[i - 1] \o s[i]
  OBVIOUS
<1>3. QED
  <2> HIDE DEF F
  <2>1. QED
    BY <1>1, <1>2

(* And it depends on nothing else.                                           *)
LEMMA FlattenUnique ==
  ASSUME NEW s, NEW t, NEW n \in Nat, NEW m \in Nat, n <= m,
         NEW f, NEW g, Flattens(f, s, n), Flattens(g, t, m),
         \A i \in 1..n : s[i] = t[i]
  PROVE  \A i \in 1..n : f[i] = g[i]
<1> DEFINE T == {i \in Nat : i \in 1..n => f[i] = g[i]}
<1>1. \A i \in 1..n : /\ f[i] = IF i = 1 THEN s[i] ELSE f[i - 1] \o s[i]
                      /\ g[i] = IF i = 1 THEN t[i] ELSE g[i - 1] \o t[i]
  BY FlattensAt
<1>2. 0 \in T
  OBVIOUS
<1>3. ASSUME NEW i \in Nat, i \in T PROVE i + 1 \in T
  <2>1. SUFFICES ASSUME i + 1 \in 1..n PROVE f[i + 1] = g[i + 1]
    OBVIOUS
  <2>2. i # 0 => f[i] = g[i]
    BY <1>3, <2>1
  <2>3. s[i + 1] = t[i + 1]
    BY <2>1
  <2>4. QED
    <3>1. CASE i = 0
      BY <1>1, <2>1, <2>3, <3>1
    <3>2. CASE i # 0
      <4>1. i + 1 # 1 /\ (i + 1) - 1 = i
        BY <3>2
      <4>2. f[i + 1] = f[i] \o s[i + 1] /\ g[i + 1] = g[i] \o t[i + 1]
        BY <1>1, <2>1, <4>1
      <4>3. QED
        BY <4>2, <2>2, <2>3, <3>2
    <3>3. QED
      BY <3>1, <3>2
<1>4. QED
  <2>1. Nat \subseteq T
    BY <1>2, <1>3, SetInduction
  <2>2. QED
    BY <2>1

(* FlattenSeq is its last value.                                             *)
LEMMA FlattenValue ==
  ASSUME NEW S, NEW s \in Seq(Seq(S)), s # <<>>,
         NEW f, Flattens(f, s, Len(s))
  PROVE  FlattenSeq(s) = f[Len(s)]
<1> DEFINE g == CHOOSE g : Flattens(g, s, Len(s))
<1>1. Len(s) \in Nat \ {0}
  BY EmptySeq
<1>2. Flattens(g, s, Len(s))
  OBVIOUS
<1>3. FlattenSeq(s) = g[Len(s)]
  BY <1>1 DEF FlattenSeq, Flattens
<1>4. \A i \in 1..Len(s) : f[i] = g[i]
  <2> HIDE DEF g
  <2>1. Len(s) \in Nat /\ Len(s) <= Len(s)
    BY <1>1
  <2>2. QED
    BY <1>2, <2>1, FlattenUnique
<1>5. QED
  BY <1>1, <1>3, <1>4

(* Nothing is flattened to nothing.                                          *)
LEMMA FlattenEmpty == FlattenSeq(<<>>) = <<>>
  BY DEF FlattenSeq

(* FlattenSeq returns a sequence.                                            *)
LEMMA FlattenType ==
  ASSUME NEW S, NEW s \in Seq(Seq(S))
  PROVE  FlattenSeq(s) \in Seq(S)
<1>1. CASE s = <<>>
  BY <1>1, FlattenEmpty, EmptySeq
<1>2. CASE s # <<>>
  <2>1. Len(s) \in Nat \ {0} /\ Len(s) <= Len(s)
    BY <1>2, EmptySeq
  <2>2. PICK f \in [1..Len(s) -> Seq(S)] : Flattens(f, s, Len(s))
    BY <2>1, FlattenExists
  <2>3. FlattenSeq(s) = f[Len(s)]
    BY <1>2, <2>2, FlattenValue
  <2>4. Len(s) \in 1..Len(s)
    BY <2>1
  <2>5. QED
    BY <2>3, <2>4
<1>3. QED
  BY <1>1, <1>2

(* A sequence that has one more element has it flattened at the end.         *)
LEMMA FlattenLast ==
  ASSUME NEW S, NEW s, NEW a
  PROVE  /\ s \in Seq(Seq(S)) /\ a \in Seq(Seq(S)) /\ Len(a) = Len(s) + 1
         /\ \A i \in 1..Len(s) : s[i] = a[i]
         => FlattenSeq(a) = FlattenSeq(s) \o a[Len(a)]
<1>0. SUFFICES ASSUME s \in Seq(Seq(S)), a \in Seq(Seq(S)), Len(a) = Len(s) + 1,
                      \A i \in 1..Len(s) : s[i] = a[i]
               PROVE  FlattenSeq(a) = FlattenSeq(s) \o a[Len(a)]
  OBVIOUS
<1>1. PICK n \in Nat, m \in Nat : n = Len(s) /\ m = Len(a)
  BY <1>0, LenProperties
<1>2. n <= m /\ m = n + 1 /\ \A i \in 1..n : s[i] = a[i]
  BY <1>0, <1>1
<1>3. PICK f : f \in [1..m -> Seq(S)] /\ Flattens(f, a, m)
  <2>1. m <= Len(a)
    BY <1>1
  <2>2. \E f \in [1..m -> Seq(S)] : Flattens(f, a, m)
    BY <1>0, <2>1, FlattenExists
  <2>3. QED
    BY <2>2
<1>4. FlattenSeq(a) = f[m]
  <2>1. a # <<>>
    BY <1>0, <1>1, <1>2, EmptySeq
  <2>2. QED
    BY <1>0, <1>1, <1>3, <2>1, FlattenValue
<1>5. f[m] = IF m = 1 THEN a[m] ELSE f[m - 1] \o a[m]
  <2>1. m \in 1..m /\ Flattens(f, a, m)
    BY <1>2, <1>3
  <2>2. QED
    BY <2>1, FlattensAt
<1>6. CASE n = 0
  <2>1. s = <<>>
    BY <1>0, <1>1, <1>6, EmptySeq
  <2>2. a[m] \in Seq(S)
    BY <1>0, <1>1, <1>2, ElementOfSeq
  <2>3. FlattenSeq(s) \o a[m] = a[m]
    BY <2>1, <2>2, FlattenEmpty, ConcatEmptySeq
  <2>4. FlattenSeq(a) = a[m]
    BY <1>2, <1>4, <1>5, <1>6
  <2>5. QED
    BY <1>1, <2>3, <2>4
<1>7. CASE n # 0
  <2>1. s # <<>>
    BY <1>0, <1>1, <1>7, EmptySeq
  <2>2. PICK g : g \in [1..n -> Seq(S)] /\ Flattens(g, s, n)
    <3>1. n <= Len(s)
      BY <1>1
    <3>2. \E g \in [1..n -> Seq(S)] : Flattens(g, s, n)
      BY <1>0, <3>1, FlattenExists
    <3>3. QED
      BY <3>2
  <2>3. FlattenSeq(s) = g[n]
    BY <1>0, <1>1, <2>1, <2>2, FlattenValue
  <2>4. g[n] = f[n]
    <3>1. n <= m
      BY <1>2
    <3>2. \A i \in 1..n : s[i] = a[i]
      BY <1>2
    <3>3. Flattens(f, a, m)
      BY <1>3
    <3>4. Flattens(g, s, n)
      BY <2>2
    <3>5. \A i \in 1..n : g[i] = f[i]
      BY <3>1, <3>2, <3>3, <3>4, FlattenUnique
    <3>6. n \in 1..n
      BY <1>7
    <3>7. QED
      BY <3>5, <3>6
  <2>5. m # 1 /\ m - 1 = n
    BY <1>2, <1>7
  <2>6. f[m] = f[n] \o a[m]
    BY <1>5, <2>5
  <2>7. QED
    BY <1>1, <1>4, <2>3, <2>4, <2>6
<1>8. QED
  BY <1>6, <1>7

(* So FlattenSeq goes on with what is appended.                              *)
LEMMA FlattenAppend ==
  ASSUME NEW S, NEW s \in Seq(Seq(S)), NEW t \in Seq(S)
  PROVE  FlattenSeq(Append(s, t)) = FlattenSeq(s) \o t
<1>1. PICK a \in Seq(Seq(S)) : a = Append(s, t)
  BY AppendProperties
<1>2. Len(a) = Len(s) + 1 /\ a[Len(a)] = t
  BY <1>1, AppendProperties
<1>3. \A i \in 1..Len(s) : s[i] = a[i]
  BY <1>1, AppendProperties
<1>4. FlattenSeq(a) = FlattenSeq(s) \o a[Len(a)]
  BY <1>2, <1>3, FlattenLast
<1>5. QED
  BY <1>1, <1>2, <1>4

(* The same of the first i elements of a sequence.                           *)
LEMMA FlattenNext ==
  ASSUME NEW S, NEW s \in Seq(Seq(S)), NEW i \in 1..Len(s)
  PROVE  /\ SubSeq(s, 1, i) \in Seq(Seq(S)) /\ SubSeq(s, 1, i - 1) \in Seq(Seq(S))
         /\ FlattenSeq(SubSeq(s, 1, i)) = FlattenSeq(SubSeq(s, 1, i - 1)) \o s[i]
<1>1. Len(s) \in Nat /\ \A k \in 1..Len(s) : s[k] \in Seq(S)
  BY LenProperties, ElementOfSeq
<1>2. /\ SubSeq(s, 1, i) \in Seq(Seq(S)) /\ SubSeq(s, 1, i - 1) \in Seq(Seq(S))
  <2>1. /\ 1 \in Int /\ i \in Int /\ i - 1 \in Int
        /\ \A k \in 1..i : s[k] \in Seq(S) /\ \A l \in 1..i - 1 : s[l] \in Seq(S)
    BY <1>1
  <2>2. QED
    BY <2>1, SubSeqProperties
<1>3. SubSeq(s, 1, i) = SubSeq(s, 1, i - 1) \o <<s[i]>>
  <2>1. 1 \in 1..Len(s) /\ i \in 1..Len(s)
    BY <1>1
  <2>2. QED
    BY <2>1, SubSeqRecursiveSecond
<1>4. SubSeq(s, 1, i) = Append(SubSeq(s, 1, i - 1), s[i])
  BY <1>1, <1>2, <1>3, AppendIsConcat
<1>5. QED
  BY <1>1, <1>2, <1>4, FlattenAppend

(* What is flattened first comes first.                                      *)
LEMMA FlattenFirst ==
  ASSUME NEW S, NEW s \in Seq(Seq(S)), NEW m \in 0..Len(s)
  PROVE  \A n \in m..Len(s) :
           LET p == FlattenSeq(SubSeq(s, 1, m))
               q == FlattenSeq(SubSeq(s, 1, n))
           IN  /\ p \in Seq(S) /\ q \in Seq(S)
               /\ Len(p) <= Len(q) /\ \A k \in 1..Len(p) : q[k] = p[k]
<1> DEFINE P(n) == FlattenSeq(SubSeq(s, 1, n))
           T == {n \in Nat : m + n <= Len(s) =>
                   /\ Len(P(m)) <= Len(P(m + n))
                   /\ \A k \in 1..Len(P(m)) : P(m + n)[k] = P(m)[k]}
<1>1. Len(s) \in Nat /\ \A k \in 1..Len(s) : s[k] \in Seq(S)
  BY LenProperties, ElementOfSeq
<1>2. ASSUME NEW n \in 0..Len(s) PROVE P(n) \in Seq(S) /\ Len(P(n)) \in Nat
  <2>1. /\ 1 \in Int /\ n \in Int /\ \A k \in 1..n : s[k] \in Seq(S)
    BY <1>1
  <2>2. SubSeq(s, 1, n) \in Seq(Seq(S))
    BY <2>1, SubSeqProperties
  <2>3. P(n) \in Seq(S)
    BY <2>2, FlattenType
  <2>4. QED
    BY <2>3, LenProperties
<1>3. \A n \in 1..Len(s) : P(n) = P(n - 1) \o s[n]
  BY FlattenNext
<1> HIDE DEF P
<1>4. 0 \in T
  BY <1>2
<1>5. ASSUME NEW n \in Nat, n \in T PROVE n + 1 \in T
  <2>1. SUFFICES ASSUME m + (n + 1) <= Len(s)
                 PROVE  /\ Len(P(m)) <= Len(P(m + (n + 1)))
                        /\ \A k \in 1..Len(P(m)) : P(m + (n + 1))[k] = P(m)[k]
    OBVIOUS
  <2>2. /\ Len(P(m)) <= Len(P(m + n))
        /\ \A k \in 1..Len(P(m)) : P(m + n)[k] = P(m)[k]
    BY <1>1, <1>5, <2>1
  <2>3. P(m + (n + 1)) = P(m + n) \o s[m + (n + 1)]
    <3>1. m + (n + 1) \in 1..Len(s) /\ (m + (n + 1)) - 1 = m + n
      BY <1>1, <2>1
    <3>2. QED
      BY <1>3, <3>1
  <2>4. /\ P(m + n) \in Seq(S) /\ s[m + (n + 1)] \in Seq(S)
        /\ Len(P(m)) \in Nat /\ Len(P(m + n)) \in Nat /\ Len(s[m + (n + 1)]) \in Nat
    <3>1. m + n \in 0..Len(s) /\ m + (n + 1) \in 1..Len(s) /\ m \in 0..Len(s)
      BY <1>1, <2>1
    <3>2. s[m + (n + 1)] \in Seq(S)
      BY <1>1, <3>1
    <3>3. QED
      BY <1>2, <3>1, <3>2, LenProperties
  <2>5. /\ Len(P(m + (n + 1))) = Len(P(m + n)) + Len(s[m + (n + 1)])
        /\ \A k \in 1..Len(P(m + n)) : P(m + (n + 1))[k] = P(m + n)[k]
    <3> DEFINE u == P(m + n)
               v == s[m + (n + 1)]
    <3> HIDE DEF u, v
    <3>1. u \in Seq(S) /\ v \in Seq(S) /\ Len(u) \in Nat /\ Len(v) \in Nat
      BY <2>4 DEF u, v
    <3>2. Len(u \o v) = Len(u) + Len(v) /\ \A k \in 1..Len(u) : (u \o v)[k] = u[k]
      BY <3>1, ConcatProperties
    <3>3. QED
      BY <2>3, <3>2 DEF u, v
  <2>6. QED
    <3> DEFINE x == Len(P(m))
               y == Len(P(m + n))
               z == Len(s[m + (n + 1)])
    <3> HIDE DEF x, y, z
    <3>1. x \in Nat /\ y \in Nat /\ z \in Nat /\ x <= y /\ Len(P(m + (n + 1))) = y + z
      BY <2>2, <2>4, <2>5 DEF x, y, z
    <3>2. x <= Len(P(m + (n + 1))) /\ 1..x \subseteq 1..y
      BY <3>1
    <3>3. QED
      BY <2>2, <2>5, <3>2 DEF x, y
<1>6. Nat \subseteq T
  BY <1>4, <1>5, SetInduction
<1>7. QED
  <2>1. SUFFICES ASSUME NEW n \in m..Len(s)
                 PROVE  /\ P(m) \in Seq(S) /\ P(n) \in Seq(S)
                        /\ Len(P(m)) <= Len(P(n)) /\ \A k \in 1..Len(P(m)) : P(n)[k] = P(m)[k]
    BY DEF P
  <2>2. n - m \in Nat /\ m + (n - m) = n /\ n \in 0..Len(s) /\ n <= Len(s)
    BY <1>1
  <2>3. n - m \in T
    BY <1>6, <2>2
  <2>4. QED
    BY <1>2, <2>2, <2>3

(* Elements that are equal one by one.                                       *)
LEMMA PrefixByElement ==
  ASSUME NEW S, NEW s \in Seq(S), NEW t \in Seq(S)
  PROVE  IsPrefix(s, t) <=> Len(s) <= Len(t) /\ \A k \in 1..Len(s) : s[k] = t[k]
<1>1. Len(s) \in Nat /\ Len(t) \in Nat
  BY LenProperties
<1>2. SUFFICES ASSUME Len(s) <= Len(t)
               PROVE  SubSeq(s, 1, Len(s)) = SubSeq(t, 1, Len(s))
                        <=> \A k \in 1..Len(s) : s[k] = t[k]
  BY DEF IsPrefix
<1>3. \A k \in 1..Len(s) : s[k] \in S /\ t[k] \in S
  BY <1>1, <1>2, ElementOfSeq
<1>4. SubSeq(s, 1, Len(s)) = s
  BY SubSeqFull
<1>5. /\ SubSeq(t, 1, Len(s)) \in Seq(S) /\ Len(SubSeq(t, 1, Len(s))) = Len(s)
      /\ \A k \in 1..Len(s) : SubSeq(t, 1, Len(s))[k] = t[k]
  <2>1. /\ SubSeq(t, 1, Len(s)) \in Seq(S)
        /\ Len(SubSeq(t, 1, Len(s))) = IF 1 <= Len(s) THEN Len(s) - 1 + 1 ELSE 0
        /\ \A k \in 1..Len(s) - 1 + 1 : SubSeq(t, 1, Len(s))[k] = t[1 + k - 1]
    BY <1>1, <1>3, SubSeqProperties
  <2>2. QED
    BY <1>1, <2>1
<1> DEFINE u == SubSeq(t, 1, Len(s))
<1> HIDE DEF u
<1>6. s = u <=> \A k \in 1..Len(s) : s[k] = u[k]
  BY <1>5, SeqEqual DEF u
<1>7. QED
  BY <1>4, <1>5, <1>6 DEF u

(* A function on 1..n is a sequence of length n.                             *)
LEMMA SequenceOfFunction ==
  ASSUME NEW S, NEW n \in Nat, NEW f \in [1..n -> S]
  PROVE  f \in Seq(S) /\ Len(f) = n
<1>1. f \in Seq(S)
  BY SeqDef
<1>2. DOMAIN f = 1..Len(f) /\ Len(f) \in Nat
  BY <1>1, LenProperties
<1>3. DOMAIN f = 1..n
  OBVIOUS
<1>4. QED
  BY <1>1, <1>2, <1>3

(* The first n elements of a sequence are a function on 1..n.                *)
LEMMA FirstElements ==
  ASSUME NEW S, NEW s \in Seq(S), NEW n \in 0..Len(s),
         NEW f \in [1..n -> S], \A i \in 1..n : f[i] = s[i]
  PROVE  SubSeq(s, 1, n) = f
<1>1. Len(s) \in Nat /\ n \in Nat /\ n \in Int /\ 1 \in Int
  BY LenProperties
<1>2. \A i \in 1..n : s[i] \in S
  BY <1>1, ElementOfSeq
<1>3. /\ SubSeq(s, 1, n) \in Seq(S)
      /\ Len(SubSeq(s, 1, n)) = IF 1 <= n THEN n - 1 + 1 ELSE 0
      /\ \A i \in 1..n - 1 + 1 : SubSeq(s, 1, n)[i] = s[1 + i - 1]
  BY <1>1, <1>2, SubSeqProperties
<1>4. f \in Seq(S) /\ Len(f) = n
  BY <1>1, SequenceOfFunction
<1>5. Len(SubSeq(s, 1, n)) = n /\ \A i \in 1..n : SubSeq(s, 1, n)[i] = f[i]
  BY <1>1, <1>3
<1>6. QED
  BY <1>3, <1>4, <1>5, SeqEqual

(* The two parts of a concatenation.                                         *)
LEMMA ConcatParts ==
  ASSUME NEW S, NEW s \in Seq(S), NEW t \in Seq(S)
  PROVE  /\ s \o t \in Seq(S) /\ Len(s) \in Nat /\ Len(t) \in Nat
         /\ Len(s \o t) = Len(s) + Len(t)
         /\ \A k \in 1..Len(s) : (s \o t)[k] = s[k]
         /\ \A x \in 1..Len(t) : (s \o t)[Len(s) + x] = t[x]
<1>1. Len(s) \in Nat /\ Len(t) \in Nat
  BY LenProperties
<1>2. /\ s \o t \in Seq(S) /\ Len(s \o t) = Len(s) + Len(t)
      /\ \A i \in 1..Len(s) + Len(t) :
           (s \o t)[i] = IF i <= Len(s) THEN s[i] ELSE t[i - Len(s)]
  BY ConcatProperties
<1> DEFINE u == s \o t
           m == Len(s)
           n == Len(t)
<1> HIDE DEF u, m, n
<1>3. \A k \in 1..m : u[k] = s[k]
  BY <1>1, <1>2 DEF u, m, n
<1>4. ASSUME NEW x \in 1..n PROVE u[m + x] = t[x]
  <2>1. m + x \in 1..m + n /\ ~(m + x <= m) /\ (m + x) - m = x
    BY <1>1 DEF m, n
  <2>2. u[m + x] = t[(m + x) - m]
    BY <1>2, <2>1 DEF u, m, n
  <2>3. QED
    BY <2>1, <2>2
<1>5. QED
  BY <1>1, <1>2, <1>3, <1>4 DEF u, m, n
=============================================================================
