------------------------- MODULE EventStreamProofs -------------------------
(* Proofs about EventStream, for any users, names, program bits, base and    *)
(* number of frames: the parser keeps its place.                             *)
EXTENDS EventStream, SequenceLemmas, FiniteSetTheorems

----------------------------------------------------------------------------
(* The digit of a number: Digit satisfies the equation it is defined by. *)

\* g is Digit as far as n.
DigitsTo(g, n) ==
    /\ g \in [0..n -> Nat]
    /\ \A k \in 0..n : g[k] = IF k < Base THEN k ELSE g[k \div Base]

(* Dividing by the base makes a number smaller.                              *)
LEMMA DivSmaller ==
  ASSUME NEW k \in Nat, k >= Base
  PROVE  k \div Base \in Nat /\ k \div Base < k
<1>1. Base \in Nat /\ Base >= 2
  BY EventStreamAssumption
<1> DEFINE q == k \div Base
<1>2. q \in Int /\ k = Base * q + (k % Base) /\ (k % Base) \in 0..Base - 1
  BY <1>1
<1>3. q \in Nat
  BY <1>1
<1> HIDE DEF q
<1>4. k > 0 /\ Base * q <= k
  BY <1>1, <1>2, <1>3
<1>5. Base * q >= 2 * q
  BY <1>1, <1>3
<1>6. q < k
  <2> DEFINE p == Base * q
  <2>1. p \in Int /\ p <= k /\ p >= 2 * q
    BY <1>1, <1>3, <1>4, <1>5
  <2> HIDE DEF p
  <2>2. QED
    BY <1>3, <1>4, <2>1
<1>7. QED
  BY <1>3, <1>6 DEF q

(* Its values are settled from below.                                        *)
LEMMA DigitsUnique ==
  ASSUME NEW n \in Nat, NEW m \in Nat, n <= m,
         NEW g, NEW h, DigitsTo(g, n), DigitsTo(h, m)
  PROVE  \A k \in 0..n : g[k] = h[k]
<1> DEFINE T == {k \in 0..n : g[k] # h[k]}
<1>1. SUFFICES ASSUME T # {} PROVE FALSE
  OBVIOUS
<1>2. PICK k \in T : \A j \in T : k <= j
  <2>1. T \subseteq Nat
    OBVIOUS
  <2>2. QED
    BY <1>1, <2>1, LeastNumber
<1>3. k \in 0..n /\ k \in 0..m /\ k \in Nat /\ Base \in Nat
  BY EventStreamAssumption
<1>4. k >= Base
  BY <1>2, <1>3 DEF DigitsTo
<1>5. k \div Base \in 0..n /\ k \div Base < k
  BY <1>3, <1>4, DivSmaller
<1>6. g[k \div Base] = h[k \div Base]
  BY <1>2, <1>3, <1>5
<1>7. g[k] = g[k \div Base] /\ h[k] = h[k \div Base]
  BY <1>3, <1>4 DEF DigitsTo
<1>8. QED
  BY <1>2, <1>6, <1>7

(* And they can be built from below.                                         *)
LEMMA DigitsExist == \A n \in Nat : \E g : DigitsTo(g, n)
<1> DEFINE T == {n \in Nat : \E g : DigitsTo(g, n)}
<1>0. Base \in Nat /\ Base >= 2
  BY EventStreamAssumption
<1>1. 0 \in T
  <2> DEFINE g == [k \in 0..0 |-> 0]
  <2>1. DigitsTo(g, 0)
    BY <1>0 DEF DigitsTo
  <2>2. QED
    BY <2>1
<1>2. ASSUME NEW n \in Nat, n \in T PROVE n + 1 \in T
  <2>1. PICK g : DigitsTo(g, n)
    BY <1>2
  <2> DEFINE v == IF n + 1 < Base THEN n + 1 ELSE g[(n + 1) \div Base]
             h == [k \in 0..n + 1 |-> IF k <= n THEN g[k] ELSE v]
  <2>2. v \in Nat /\ (n + 1 >= Base => (n + 1) \div Base \in 0..n)
    <3>1. CASE n + 1 >= Base
      <4>1. (n + 1) \div Base \in 0..n
        BY <3>1, DivSmaller
      <4>2. g \in [0..n -> Nat]
        BY <2>1 DEF DigitsTo
      <4>3. QED
        BY <1>0, <3>1, <4>1, <4>2
    <3>2. CASE ~(n + 1 >= Base)
      BY <1>0, <3>2
    <3>3. QED
      BY <3>1, <3>2
  <2>3. h[n + 1] = v /\ \A k \in 0..n : h[k] = g[k]
    OBVIOUS
  <2>4. h \in [0..n + 1 -> Nat]
    BY <2>1, <2>2 DEF DigitsTo
  <2> HIDE DEF h
  <2>5. ASSUME NEW k \in 0..n + 1
        PROVE  h[k] = IF k < Base THEN k ELSE h[k \div Base]
    <3>1. CASE k = n + 1
      BY <1>0, <2>2, <2>3, <3>1
    <3>2. CASE k # n + 1
      <4>1. k \in 0..n /\ k \in Nat
        BY <3>2
      <4>2. g[k] = IF k < Base THEN k ELSE g[k \div Base]
        BY <2>1, <4>1 DEF DigitsTo
      <4>3. k >= Base => k \div Base \in 0..n
        BY <4>1, DivSmaller
      <4>4. QED
        BY <1>0, <2>3, <4>1, <4>2, <4>3
    <3>3. QED
      BY <3>1, <3>2
  <2>6. DigitsTo(h, n + 1)
    BY <2>4, <2>5 DEF DigitsTo
  <2>7. QED
    BY <2>6
<1>3. Nat \subseteq T
  BY <1>1, <1>2, SetInduction
<1>4. QED
  BY <1>3

(* So Digit is the leading digit, a number, and a small number itself.       *)
LEMMA DigitDef ==
  ASSUME NEW n \in Nat
  PROVE  /\ Digit[n] \in Nat
         /\ n < Base => Digit[n] = n
<1> DEFINE G(m) == CHOOSE g : DigitsTo(g, m)
           F    == [m \in Nat |-> G(m)[m]]
<1>0. Base \in Nat
  BY EventStreamAssumption
<1>1. \A m \in Nat : DigitsTo(G(m), m)
  BY DigitsExist
<1> HIDE DEF G
<1>2. ASSUME NEW m \in Nat PROVE F[m] = IF m < Base THEN m ELSE F[m \div Base]
  <2>1. m \in 0..m /\ DigitsTo(G(m), m)
    BY <1>1
  <2>2. G(m)[m] = IF m < Base THEN m ELSE G(m)[m \div Base]
    BY <2>1 DEF DigitsTo
  <2>3. ASSUME m >= Base PROVE G(m)[m \div Base] = F[m \div Base]
    <3> DEFINE k == m \div Base
    <3>1. k \in Nat /\ k <= m
      BY <2>3, DivSmaller
    <3> HIDE DEF k
    <3>2. DigitsTo(G(k), k) /\ k \in 0..k
      BY <1>1, <3>1
    <3>3. G(k)[k] = G(m)[k]
      BY <2>1, <3>1, <3>2, DigitsUnique
    <3>4. F[k] = G(k)[k]
      BY <3>1
    <3>5. QED
      BY <3>3, <3>4 DEF k
  <2>4. QED
    BY <1>0, <2>2, <2>3
<1>3. F \in [Nat -> Nat]
  <2>1. ASSUME NEW m \in Nat PROVE G(m)[m] \in Nat
    <3>1. G(m) \in [0..m -> Nat] /\ m \in 0..m
      BY <1>1 DEF DigitsTo
    <3>2. QED
      BY <3>1
  <2>2. QED
    BY <2>1
<1> HIDE DEF F
<1>4. F = [m \in Nat |-> IF m < Base THEN m ELSE F[m \div Base]]
  BY <1>2, <1>3
<1>5. Digit = [m \in Nat |-> IF m < Base THEN m ELSE Digit[m \div Base]]
  BY <1>4 DEF Digit
<1>6. \A m \in Nat : Digit[m] = IF m < Base THEN m ELSE Digit[m \div Base]
  <2> DEFINE D == [m \in Nat |-> IF m < Base THEN m ELSE Digit[m \div Base]]
  <2>1. \A m \in Nat : D[m] = IF m < Base THEN m ELSE Digit[m \div Base]
    OBVIOUS
  <2> HIDE DEF D
  <2>2. QED
    BY <1>5, <2>1 DEF D
<1>7. \A m \in Nat : Digit[m] \in Nat
  <2> DEFINE T == {m \in Nat : Digit[m] \notin Nat}
  <2>1. SUFFICES ASSUME T # {} PROVE FALSE
    OBVIOUS
  <2>2. PICK m \in T : \A k \in T : m <= k
    BY <2>1, LeastNumber
  <2>3. m \in Nat /\ m >= Base /\ Digit[m] = Digit[m \div Base]
    BY <1>0, <1>6, <2>2
  <2>4. m \div Base \in Nat /\ m \div Base < m
    BY <2>3, DivSmaller
  <2>5. m \div Base \in T
    BY <2>2, <2>3, <2>4
  <2>6. QED
    BY <2>2, <2>3, <2>4, <2>5
<1>8. QED
  BY <1>6, <1>7

----------------------------------------------------------------------------
(* Frames, cells and events *)

Frame == [blocks : Blocks, user : User, time : Nat]

\* A cell and what may stand in it.
AnyCell == [kind : {"flag", "count", "length", "time"}, val : Nat]
             \union [kind : {"letter"}, val : User]
             \union [kind : {"block"}, val : Data]

\* What the parser pushes.
Value == Nat \union User \union {Garbled}
Entry == [offset : Nat, data : Data, user : Value, time : Value]

(* The blocks of a list of programs.                                         *)
LEMMA BlocksType ==
  ASSUME NEW b \in Blocks
  PROVE  /\ Len(b) \in Nat /\ b \in [1..Len(b) -> Data] /\ b \in Seq(Data)
         /\ DOMAIN b = 1..Len(b)
<1>1. PICK n \in Sizes : b \in [1..n -> Data]
  BY DEF Blocks
<1>2. n \in Nat
  BY EventStreamAssumption
<1>3. b \in Seq(Data) /\ Len(b) = n
  BY <1>1, <1>2, SequenceOfFunction
<1>4. QED
  BY <1>1, <1>2, <1>3, LenProperties

\* What the cells of a frame are, and where.
Written(f, b) ==
    LET n == Len(f.blocks)
        l == Letters[f.user]
    IN  /\ b \in Seq(AnyCell) /\ Len(b) = n + l + 4
        /\ b[2] = Cell("count", Digit[n])
        /\ \A k \in 1..n : b[2 + k] = Cell("block", f.blocks[k])
        /\ b[3 + n] = Cell("length", l)
        /\ \A x \in 1..l : b[3 + n + x] = Cell("letter", f.user)
        /\ b[4 + n + l] = Cell("time", f.time)

(* build_event puts them there.                                              *)
LEMMA FrameWritten ==
  ASSUME NEW f \in Frame
  PROVE  Written(f, build_event(f))
<1> DEFINE n == Len(f.blocks)
           l == Letters[f.user]
           B == <<Cell("flag", 2), Cell("count", Digit[n])>>
           C == [k \in DOMAIN f.blocks |-> Cell("block", f.blocks[k])]
           D == <<Cell("length", l)>>
           N == Name(f.user)
           E == <<Cell("time", f.time)>>
<1>1. /\ f.blocks \in Blocks /\ f.user \in User /\ f.time \in Nat
      /\ n \in Nat /\ l \in Nat
  BY BlocksType, EventStreamAssumption DEF Frame
<1>2. B \in Seq(AnyCell) /\ Len(B) = 2 /\ B[2] = Cell("count", Digit[n])
  <2>1. Digit[n] \in Nat
    BY <1>1, DigitDef
  <2>2. Cell("flag", 2) \in AnyCell /\ Cell("count", Digit[n]) \in AnyCell
    BY <2>1 DEF Cell, AnyCell
  <2>3. QED
    BY <2>2
<1>3. C \in Seq(AnyCell) /\ Len(C) = n /\ \A k \in 1..n : C[k] = Cell("block", f.blocks[k])
  <2>1. DOMAIN f.blocks = 1..n /\ \A k \in 1..n : f.blocks[k] \in Data
    BY <1>1, BlocksType
  <2>2. C \in [1..n -> AnyCell]
    BY <2>1 DEF Cell, AnyCell
  <2>3. QED
    BY <1>1, <2>1, <2>2, SequenceOfFunction
<1>4. D \in Seq(AnyCell) /\ Len(D) = 1 /\ D[1] = Cell("length", l)
  BY <1>1 DEF Cell, AnyCell
<1>5. N \in Seq(AnyCell) /\ Len(N) = l /\ \A x \in 1..l : N[x] = Cell("letter", f.user)
  <2>1. N \in [1..l -> AnyCell]
    BY <1>1 DEF Name, Cell, AnyCell
  <2>2. QED
    BY <1>1, <2>1, SequenceOfFunction DEF Name
<1>6. E \in Seq(AnyCell) /\ Len(E) = 1 /\ E[1] = Cell("time", f.time)
  BY <1>1 DEF Cell, AnyCell
<1>7. build_event(f) = (((B \o C) \o D) \o N) \o E
  BY DEF build_event
<1> DEFINE X == B \o C
           Y == X \o D
           Z == Y \o N
<1> HIDE DEF B, C, D, N, E, n, l
<1>8. /\ X \in Seq(AnyCell) /\ Len(X) = 2 + n
      /\ X[2] = B[2] /\ \A k \in 1..n : X[2 + k] = C[k]
  <2>1. /\ X \in Seq(AnyCell) /\ Len(X) = Len(B) + Len(C)
        /\ \A k \in 1..Len(B) : X[k] = B[k]
        /\ \A x \in 1..Len(C) : X[Len(B) + x] = C[x]
    <3>1. B \in Seq(AnyCell) /\ C \in Seq(AnyCell)
      BY <1>2, <1>3
    <3>2. QED
      BY <3>1, ConcatParts
  <2> HIDE DEF X
  <2>2. QED
    BY <1>2, <1>3, <2>1
<1> HIDE DEF X
<1>9. /\ Y \in Seq(AnyCell) /\ Len(Y) = 3 + n
      /\ \A k \in 1..2 + n : Y[k] = X[k]
      /\ Y[3 + n] = D[1]
  <2>1. /\ Y \in Seq(AnyCell) /\ Len(Y) = Len(X) + Len(D)
        /\ \A k \in 1..Len(X) : Y[k] = X[k]
        /\ \A x \in 1..Len(D) : Y[Len(X) + x] = D[x]
    <3>1. X \in Seq(AnyCell) /\ D \in Seq(AnyCell)
      BY <1>4, <1>8
    <3>2. QED
      BY <3>1, ConcatParts
  <2> HIDE DEF Y
  <2>2. 1 \in 1..1 /\ (2 + n) + 1 = 3 + n
    BY <1>1
  <2>3. QED
    BY <1>4, <1>8, <2>1, <2>2
<1> HIDE DEF Y
<1>10. /\ Z \in Seq(AnyCell) /\ Len(Z) = 3 + n + l
       /\ \A k \in 1..3 + n : Z[k] = Y[k]
       /\ \A x \in 1..l : Z[3 + n + x] = N[x]
  <2>1. /\ Z \in Seq(AnyCell) /\ Len(Z) = Len(Y) + Len(N)
        /\ \A k \in 1..Len(Y) : Z[k] = Y[k]
        /\ \A x \in 1..Len(N) : Z[Len(Y) + x] = N[x]
    <3>1. Y \in Seq(AnyCell) /\ N \in Seq(AnyCell)
      BY <1>5, <1>9
    <3>2. QED
      BY <3>1, ConcatParts
  <2> HIDE DEF Z
  <2>2. QED
    BY <1>5, <1>9, <2>1
<1>11. /\ build_event(f) \in Seq(AnyCell) /\ Len(build_event(f)) = 4 + n + l
       /\ \A k \in 1..3 + n + l : build_event(f)[k] = Z[k]
       /\ build_event(f)[4 + n + l] = E[1]
  <2> DEFINE b == Z \o E
  <2>0. build_event(f) = b
    BY <1>7 DEF X, Y
  <2> HIDE DEF Z
  <2>1. /\ b \in Seq(AnyCell) /\ Len(b) = Len(Z) + Len(E)
        /\ \A k \in 1..Len(Z) : b[k] = Z[k]
        /\ \A x \in 1..Len(E) : b[Len(Z) + x] = E[x]
    <3>1. Z \in Seq(AnyCell) /\ E \in Seq(AnyCell)
      BY <1>6, <1>10
    <3>2. QED
      BY <3>1, ConcatParts
  <2> HIDE DEF b
  <2>2. 1 \in 1..1 /\ (3 + n + l) + 1 = 4 + n + l
    BY <1>1
  <2>3. QED
    BY <1>6, <1>10, <2>0, <2>1, <2>2
<1> HIDE DEF Z
<1> DEFINE b == build_event(f)
<1> HIDE DEF b
<1>12. /\ 2 \in 1..2 + n /\ 2 \in 1..3 + n /\ 2 \in 1..3 + n + l
       /\ \A k \in 1..n : 2 + k \in 1..2 + n /\ 2 + k \in 1..3 + n /\ 2 + k \in 1..3 + n + l
       /\ 3 + n \in 1..3 + n /\ 3 + n \in 1..3 + n + l
       /\ \A x \in 1..l : 3 + n + x \in 1..3 + n + l
  BY <1>1
<1>13. b[2] = Cell("count", Digit[n])
  BY <1>2, <1>8, <1>9, <1>10, <1>11, <1>12 DEF b
<1>14. \A k \in 1..n : b[2 + k] = Cell("block", f.blocks[k])
  <2>1. \A k \in 1..n : b[2 + k] = C[k]
    BY <1>8, <1>9, <1>10, <1>11, <1>12 DEF b
  <2>2. QED
    BY <1>3, <2>1
<1>15. b[3 + n] = Cell("length", l)
  BY <1>4, <1>9, <1>10, <1>11, <1>12 DEF b
<1>16. \A x \in 1..l : b[3 + n + x] = Cell("letter", f.user)
  BY <1>5, <1>10, <1>11, <1>12 DEF b
<1>17. /\ b \in Seq(AnyCell) /\ Len(b) = n + l + 4
       /\ b[4 + n + l] = Cell("time", f.time)
  BY <1>1, <1>6, <1>11 DEF b
<1>18. QED
  BY <1>13, <1>14, <1>15, <1>16, <1>17 DEF Written, n, l, b

(* A number of frames one after the other.                                   *)
Frames(fs) == [i \in DOMAIN fs |-> build_event(fs[i])]

(* They are sequences of cells, and the reply is they in a row.              *)
LEMMA FramesType ==
  ASSUME NEW fs \in Seq(Frame)
  PROVE  /\ Frames(fs) \in Seq(Seq(AnyCell)) /\ Len(Frames(fs)) = Len(fs)
         /\ \A i \in 1..Len(fs) : Frames(fs)[i] = build_event(fs[i])
         /\ \A n \in 0..Len(fs) : /\ SubSeq(fs, 1, n) \in Seq(Frame)
                                  /\ Stream(SubSeq(fs, 1, n)) = FlattenSeq(SubSeq(Frames(fs), 1, n))
         /\ Stream(fs) = FlattenSeq(SubSeq(Frames(fs), 1, Len(fs)))
<1>1. /\ Len(fs) \in Nat /\ DOMAIN fs = 1..Len(fs)
      /\ \A i \in 1..Len(fs) : fs[i] \in Frame
  BY LenProperties, ElementOfSeq
<1>2. \A i \in 1..Len(fs) : build_event(fs[i]) \in Seq(AnyCell)
  BY <1>1, FrameWritten DEF Written
<1> DEFINE F == [i \in 1..Len(fs) |-> build_event(fs[i])]
<1>3. Frames(fs) = F
  BY <1>1 DEF Frames
<1>4. F \in [1..Len(fs) -> Seq(AnyCell)]
  BY <1>2
<1>5. Frames(fs) \in Seq(Seq(AnyCell)) /\ Len(Frames(fs)) = Len(fs)
  BY <1>1, <1>3, <1>4, SequenceOfFunction
<1>6. ASSUME NEW n \in 0..Len(fs)
      PROVE  /\ SubSeq(fs, 1, n) \in Seq(Frame)
             /\ Stream(SubSeq(fs, 1, n)) = FlattenSeq(SubSeq(Frames(fs), 1, n))
  <2> DEFINE P == SubSeq(fs, 1, n)
             G == [i \in 1..n |-> build_event(P[i])]
  <2>1. /\ P \in Seq(Frame) /\ Len(P) = n /\ \A i \in 1..n : P[i] = fs[i]
    <3>1. \A i \in 1..n : fs[i] \in Frame
      BY <1>1
    <3>2. /\ P \in Seq(Frame)
          /\ Len(P) = IF 1 <= n THEN n - 1 + 1 ELSE 0
          /\ \A i \in 1..n - 1 + 1 : P[i] = fs[1 + i - 1]
      BY <1>1, <3>1, SubSeqProperties
    <3>3. QED
      BY <1>1, <3>2
  <2> HIDE DEF P
  <2>2. DOMAIN P = 1..n
    BY <2>1, LenProperties
  <2>3. Stream(P) = FlattenSeq(G)
    BY <2>2 DEF Stream
  <2>4. \A i \in 1..n : G[i] = Frames(fs)[i]
    BY <1>1, <1>3, <2>1
  <2>5. G \in [1..n -> Seq(AnyCell)]
    BY <1>1, <1>2, <2>1
  <2> HIDE DEF G
  <2>6. SubSeq(Frames(fs), 1, n) = G
    BY <1>5, <2>4, <2>5, FirstElements
  <2>7. QED
    BY <2>1, <2>3, <2>6 DEF P
<1>7. Stream(fs) = FlattenSeq(SubSeq(Frames(fs), 1, Len(fs)))
  BY <1>5, SubSeqFull DEF Stream, Frames
<1>8. QED
  BY <1>1, <1>3, <1>5, <1>6, <1>7

\* The cells of the first n frames.
CellsOf(fs, n) == Len(Stream(SubSeq(fs, 1, n)))

(* Frame i begins where the frames before it end.                            *)
LEMMA StreamFrame ==
  ASSUME NEW fs \in Seq(Frame), NEW i \in 1..Len(fs)
  PROVE  LET b == build_event(fs[i]) IN
         /\ CellsOf(fs, i - 1) \in Nat
         /\ CellsOf(fs, i) = CellsOf(fs, i - 1) + Len(b)
         /\ CellsOf(fs, i) <= Len(Stream(fs))
         /\ \A x \in 1..Len(b) : Stream(fs)[CellsOf(fs, i - 1) + x] = b[x]
<1> DEFINE s == Frames(fs)
           p == FlattenSeq(SubSeq(s, 1, i - 1))
           q == FlattenSeq(SubSeq(s, 1, i))
           r == FlattenSeq(SubSeq(s, 1, Len(fs)))
           b == build_event(fs[i])
<1>1. /\ s \in Seq(Seq(AnyCell)) /\ Len(s) = Len(fs) /\ Len(fs) \in Nat
      /\ s[i] = b /\ b \in Seq(AnyCell)
  <2>1. fs[i] \in Frame
    BY ElementOfSeq
  <2>2. b \in Seq(AnyCell)
    BY <2>1, FrameWritten DEF Written
  <2>3. QED
    BY <2>2, FramesType, LenProperties
<1>2. CellsOf(fs, i - 1) = Len(p) /\ CellsOf(fs, i) = Len(q) /\ Stream(fs) = r
  <2>1. i - 1 \in 0..Len(fs) /\ i \in 0..Len(fs)
    BY <1>1
  <2>2. QED
    BY <2>1, FramesType DEF CellsOf
<1> HIDE DEF s, b
<1>3. SubSeq(s, 1, i - 1) \in Seq(Seq(AnyCell)) /\ q = p \o b
  <2>1. i \in 1..Len(s)
    BY <1>1
  <2>2. QED
    BY <1>1, <2>1, FlattenNext
<1>4. p \in Seq(AnyCell)
  BY <1>3, FlattenType
<1>5. /\ q \in Seq(AnyCell) /\ r \in Seq(AnyCell)
      /\ Len(q) <= Len(r) /\ \A k \in 1..Len(q) : r[k] = q[k]
  <2>1. i \in 0..Len(s) /\ Len(fs) \in i..Len(s)
    BY <1>1
  <2>2. QED
    BY <1>1, <2>1, FlattenFirst
<1> HIDE DEF p, q, r
<1>6. /\ Len(p) \in Nat /\ Len(b) \in Nat /\ Len(q) = Len(p) + Len(b)
      /\ \A x \in 1..Len(b) : q[Len(p) + x] = b[x]
  <2>1. p \in Seq(AnyCell) /\ b \in Seq(AnyCell)
    BY <1>1, <1>4
  <2>2. QED
    BY <1>3, <2>1, ConcatParts
<1>7. \A x \in 1..Len(b) : Len(p) + x \in 1..Len(q)
  BY <1>6
<1>8. QED
  BY <1>2, <1>5, <1>6, <1>7 DEF b

(* So where a frame ends tells how many there are.                           *)
LEMMA CellsGrow ==
  ASSUME NEW fs \in Seq(Frame), NEW m \in 0..Len(fs), NEW n \in 0..Len(fs)
  PROVE  /\ CellsOf(fs, 0) = 0 /\ CellsOf(fs, m) \in Nat /\ CellsOf(fs, n) \in Nat
         /\ m < n => CellsOf(fs, m) < CellsOf(fs, n)
<1> DEFINE s    == Frames(fs)
           P(k) == FlattenSeq(SubSeq(s, 1, k))
<1>1. s \in Seq(Seq(AnyCell)) /\ Len(s) = Len(fs) /\ Len(fs) \in Nat
  BY FramesType, LenProperties
<1>2. \A k \in 0..Len(fs) : CellsOf(fs, k) = Len(P(k))
  BY FramesType DEF CellsOf
<1> HIDE DEF s
<1>3. \A k \in 0..Len(fs) : \A l \in k..Len(fs) :
        P(k) \in Seq(AnyCell) /\ P(l) \in Seq(AnyCell) /\ Len(P(k)) <= Len(P(l))
  BY <1>1, FlattenFirst
<1>4. \A k \in 0..Len(fs) : Len(P(k)) \in Nat
  <2>1. \A k \in 0..Len(fs) : k \in k..Len(fs)
    BY <1>1
  <2>2. \A k \in 0..Len(fs) : P(k) \in Seq(AnyCell)
    BY <1>3, <2>1
  <2> HIDE DEF P
  <2>3. QED
    BY <2>2, LenProperties
<1>5. CellsOf(fs, 0) = 0
  <2>1. SubSeq(s, 1, 0) = <<>>
    BY SubSeqEmpty
  <2>2. 0 \in 0..Len(fs) /\ Len(P(0)) = 0
    <3>1. P(0) = FlattenSeq(<<>>)
      BY <2>1
    <3>2. P(0) = <<>>
      BY <3>1, FlattenEmpty
    <3> HIDE DEF P
    <3>3. QED
      BY <1>1, <3>2
  <2>3. QED
    BY <1>2, <2>2
<1>6. ASSUME m < n PROVE CellsOf(fs, m) < CellsOf(fs, n)
  <2>1. m + 1 \in 1..Len(fs) /\ (m + 1) - 1 = m /\ m + 1 \in 0..Len(fs) /\ n \in (m + 1)..Len(fs)
    BY <1>1, <1>6
  <2>2. CellsOf(fs, m + 1) = CellsOf(fs, m) + Len(build_event(fs[m + 1]))
    BY <2>1, StreamFrame
  <2>3. Len(build_event(fs[m + 1])) \in Nat /\ Len(build_event(fs[m + 1])) >= 4
    <3> DEFINE f == fs[m + 1]
    <3>1. f \in Frame
      BY <2>1, ElementOfSeq
    <3> HIDE DEF f
    <3>2. Len(f.blocks) \in Nat /\ Letters[f.user] \in Nat
      BY <3>1, BlocksType, EventStreamAssumption DEF Frame
    <3>3. Len(build_event(f)) = Len(f.blocks) + Letters[f.user] + 4
      BY <3>1, FrameWritten DEF Written
    <3>4. QED
      BY <3>2, <3>3 DEF f
  <2>4. Len(P(m + 1)) <= Len(P(n))
    BY <1>3, <2>1
  <2> HIDE DEF P
  <2>5. QED
    BY <1>2, <1>4, <2>1, <2>2, <2>3, <2>4
<1>7. QED
  BY <1>2, <1>4, <1>5, <1>6

----------------------------------------------------------------------------
(* What is pushed *)

(* One event for some of the places of a list of blocks.                     *)
LEMMA SomeEvents ==
  ASSUME NEW n \in Nat, NEW W, NEW e \in [1..n -> Entry]
  PROVE  FlattenSeq([k \in 1..n |-> IF k \in W THEN <<e[k]>> ELSE <<>>]) \in Seq(Entry)
<1> DEFINE s == [k \in 1..n |-> IF k \in W THEN <<e[k]>> ELSE <<>>]
<1>1. s \in [1..n -> Seq(Entry)]
  <2>1. ASSUME NEW k \in 1..n PROVE s[k] \in Seq(Entry)
    <3>1. e[k] \in Entry
      OBVIOUS
    <3>2. <<e[k]>> \in Seq(Entry) /\ <<>> \in Seq(Entry)
      BY <3>1
    <3>3. QED
      BY <3>2
  <2>2. QED
    BY <2>1
<1> HIDE DEF s
<1>2. s \in Seq(Seq(Entry))
  BY <1>1, SequenceOfFunction
<1>3. QED
  BY <1>2, FlattenType DEF s

(* Whatever blocks are read, what is pushed is a sequence of events.         *)
LEMMA PushedType ==
  ASSUME NEW n \in Nat, NEW d \in [1..n -> Data], NEW u \in Value, NEW t \in Value
  PROVE  Pushed(d, u, t) \in Seq(Entry)
<1> DEFINE e == [k \in 1..n |-> Event(k, d[k], u, t)]
           W == {k \in 1..n : d[k] # 0 \/ k < 2}
           s == [k \in 1..n |-> IF k \in W THEN <<e[k]>> ELSE <<>>]
<1>1. e \in [1..n -> Entry]
  BY DEF Event, Entry
<1>2. FlattenSeq(s) \in Seq(Entry)
  <2> HIDE DEF e, W
  <2>1. QED
    BY <1>1, SomeEvents
<1>3. s = [k \in DOMAIN d |-> IF d[k] # 0 \/ k < 2 THEN <<Event(k, d[k], u, t)>> ELSE <<>>]
  OBVIOUS
<1>4. Pushed(d, u, t) = FlattenSeq(s)
  BY <1>3 DEF Pushed
<1>5. QED
  BY <1>2, <1>4

(* A frame that is read as it was written is recorded as it should be.       *)
LEMMA PushedEvents ==
  ASSUME NEW f \in Frame
  PROVE  /\ Pushed(f.blocks, f.user, f.time) = Events(f)
         /\ Events(f) \in Seq(Entry)
<1> DEFINE n == Len(f.blocks)
<1>1. n \in Nat /\ f.blocks \in [1..n -> Data] /\ DOMAIN f.blocks = 1..n
  BY BlocksType DEF Frame
<1>2. Pushed(f.blocks, f.user, f.time) = Events(f)
  <2> DEFINE s == [k \in DOMAIN f.blocks |->
                     IF f.blocks[k] # 0 \/ k < 2 THEN <<Event(k, f.blocks[k], f.user, f.time)>>
                     ELSE <<>>]
             r == [k \in DOMAIN f.blocks |->
                     IF k = 1 \/ f.blocks[k] # 0 THEN <<Event(k, f.blocks[k], f.user, f.time)>>
                     ELSE <<>>]
  <2>1. \A k \in DOMAIN f.blocks : k < 2 <=> k = 1
    BY <1>1
  <2>2. s = r
    BY <2>1
  <2>3. Pushed(f.blocks, f.user, f.time) = FlattenSeq(s) /\ Events(f) = FlattenSeq(r)
    BY DEF Pushed, Events
  <2>4. QED
    BY <2>2, <2>3
<1>3. f.user \in Value /\ f.time \in Value
  BY DEF Frame, Value
<1>4. QED
  BY <1>1, <1>2, <1>3, PushedType

\* What the first n frames are on record with.
RecordOf(fs, n) == FlattenSeq([i \in 1..n |-> Events(fs[i])])

(* Every frame adds its events.                                              *)
LEMMA RecordNext ==
  ASSUME NEW fs \in Seq(Frame)
  PROVE  /\ RecordOf(fs, 0) = <<>>
         /\ \A n \in 0..Len(fs) : RecordOf(fs, n) \in Seq(Entry)
         /\ \A n \in 1..Len(fs) : RecordOf(fs, n) = RecordOf(fs, n - 1) \o Events(fs[n])
         /\ \A n \in 0..Len(fs) : \A m \in 0..n : IsPrefix(RecordOf(fs, m), RecordOf(fs, n))
<1> DEFINE s == [i \in 1..Len(fs) |-> Events(fs[i])]
           P(n) == FlattenSeq(SubSeq(s, 1, n))
<1>1. Len(fs) \in Nat /\ \A i \in 1..Len(fs) : fs[i] \in Frame /\ Events(fs[i]) \in Seq(Entry)
  BY LenProperties, ElementOfSeq, PushedEvents
<1>2. s \in Seq(Seq(Entry)) /\ Len(s) = Len(fs) /\ \A i \in 1..Len(fs) : s[i] = Events(fs[i])
  <2>1. s \in [1..Len(fs) -> Seq(Entry)]
    BY <1>1
  <2>2. QED
    BY <1>1, <2>1, SequenceOfFunction
<1>3. ASSUME NEW n \in 0..Len(fs) PROVE RecordOf(fs, n) = P(n)
  <2> DEFINE f == [i \in 1..n |-> Events(fs[i])]
  <2>1. f \in [1..n -> Seq(Entry)]
    BY <1>1
  <2>2. \A i \in 1..n : f[i] = s[i]
    BY <1>1
  <2>3. RecordOf(fs, n) = FlattenSeq(f)
    BY DEF RecordOf
  <2> HIDE DEF f, s
  <2>4. SubSeq(s, 1, n) = f
    BY <1>2, <2>1, <2>2, FirstElements
  <2>5. QED
    BY <2>3, <2>4
<1> HIDE DEF s
<1>4. \A n \in 0..Len(fs) : \A m \in 0..n :
        /\ P(m) \in Seq(Entry) /\ P(n) \in Seq(Entry)
        /\ Len(P(m)) <= Len(P(n)) /\ \A k \in 1..Len(P(m)) : P(n)[k] = P(m)[k]
  <2>1. \A n \in 0..Len(fs) : \A m \in 0..n : m \in 0..Len(s) /\ n \in m..Len(s)
    BY <1>1, <1>2
  <2>2. QED
    BY <1>2, <2>1, FlattenFirst
<1>5. \A n \in 1..Len(fs) : P(n) = P(n - 1) \o Events(fs[n])
  BY <1>2, FlattenNext
<1>6. P(0) = <<>>
  <2>1. SubSeq(s, 1, 0) = <<>>
    BY SubSeqEmpty
  <2>2. P(0) = FlattenSeq(<<>>)
    BY <2>1
  <2>3. QED
    BY <2>2, FlattenEmpty
<1> HIDE DEF P
<1>7. \A n \in 0..Len(fs) : P(n) \in Seq(Entry)
  <2>1. \A n \in 0..Len(fs) : n \in 0..n
    BY <1>1
  <2>2. QED
    BY <1>4, <2>1
<1>8. \A n \in 0..Len(fs) : \A m \in 0..n : IsPrefix(P(m), P(n))
  <2>1. SUFFICES ASSUME NEW n \in 0..Len(fs), NEW m \in 0..n
                 PROVE  IsPrefix(P(m), P(n))
    OBVIOUS
  <2>2. QED
    BY <1>4, PrefixByElement
<1>9. /\ \A n \in 1..Len(fs) : n - 1 \in 0..Len(fs) /\ n \in 0..Len(fs)
      /\ \A n \in 0..Len(fs) : \A m \in 0..n : m \in 0..Len(fs)
      /\ 0 \in 0..Len(fs)
  BY <1>1
<1>10. \A n \in 1..Len(fs) : RecordOf(fs, n) = RecordOf(fs, n - 1) \o Events(fs[n])
  BY <1>3, <1>5, <1>9
<1>11. \A n \in 0..Len(fs) : \A m \in 0..n : IsPrefix(RecordOf(fs, m), RecordOf(fs, n))
  BY <1>3, <1>8, <1>9
<1>12. QED
  BY <1>3, <1>6, <1>7, <1>9, <1>10, <1>11

----------------------------------------------------------------------------
(* The inductive invariant *)

\* Whole and Plain, for given frames and a number of cells that were read.
WholeOf(fs, len) ==
    CHOOSE n \in 0..Len(fs) :
        CellsOf(fs, n) <= len /\ \A m \in (n + 1)..Len(fs) : CellsOf(fs, m) > len
PlainOf(fs, len) ==
    CHOOSE n \in 0..WholeOf(fs, len) :
        /\ \A i \in 1..n : Len(fs[i].blocks) < Base
        /\ n < WholeOf(fs, len) => Len(fs[n + 1].blocks) >= Base

(* What WholeOf chooses exists: that many frames are in what was read.       *)
LEMMA WholeFrames ==
  ASSUME NEW fs \in Seq(Frame), NEW len \in Nat
  PROVE  WholeOf(fs, len) \in 0..Len(fs) /\ CellsOf(fs, WholeOf(fs, len)) <= len
<1> DEFINE c(n) == CellsOf(fs, n)
           W(n) == c(n) <= len /\ \A m \in (n + 1)..Len(fs) : c(m) > len
           T    == {k \in 0..Len(fs) : c(Len(fs) - k) <= len}
<1>1. Len(fs) \in Nat /\ c(0) = 0 /\ \A n \in 0..Len(fs) : c(n) \in Nat
  BY CellsGrow, LenProperties
<1> HIDE DEF c
<1>2. PICK k \in T : \A j \in T : k <= j
  <2>1. T \subseteq Nat /\ T # {}
    <3>1. Len(fs) \in T
      BY <1>1
    <3>2. QED
      BY <3>1
  <2> HIDE DEF T
  <2>2. QED
    BY <2>1, LeastNumber
<1>3. \A m \in (Len(fs) - k + 1)..Len(fs) : c(m) > len
  <2>1. SUFFICES ASSUME NEW m \in (Len(fs) - k + 1)..Len(fs), ~(c(m) > len)
                 PROVE  FALSE
    OBVIOUS
  <2>2. /\ m \in 0..Len(fs) /\ Len(fs) - m \in 0..Len(fs)
        /\ Len(fs) - (Len(fs) - m) = m /\ Len(fs) - m < k
    BY <1>1
  <2>3. Len(fs) - m \in T
    BY <1>1, <2>1, <2>2
  <2>4. QED
    BY <1>1, <1>2, <2>2, <2>3
<1>4. Len(fs) - k \in 0..Len(fs) /\ W(Len(fs) - k)
  BY <1>1, <1>3
<1>5. WholeOf(fs, len) = CHOOSE n \in 0..Len(fs) : W(n)
  BY DEF WholeOf, c
<1> HIDE DEF W
<1>6. WholeOf(fs, len) \in 0..Len(fs) /\ W(WholeOf(fs, len))
  BY <1>4, <1>5
<1>7. QED
  BY <1>6 DEF W, c

(* The plain frames among them were received too and have few blocks.        *)
LEMMA PlainFrames ==
  ASSUME NEW fs \in Seq(Frame), NEW len \in Nat
  PROVE  /\ PlainOf(fs, len) \in 0..Len(fs) /\ CellsOf(fs, PlainOf(fs, len)) <= len
         /\ \A i \in 1..PlainOf(fs, len) : Len(fs[i].blocks) < Base
<1> DEFINE w    == WholeOf(fs, len)
           b(i) == Len(fs[i].blocks)
           P(n) == /\ \A i \in 1..n : b(i) < Base
                   /\ n < w => b(n + 1) >= Base
           T    == {n \in 0..w : n < w => b(n + 1) >= Base}
<1>1. Len(fs) \in Nat /\ w \in 0..Len(fs) /\ CellsOf(fs, w) <= len
  BY WholeFrames, LenProperties
<1>2. Base \in Nat /\ \A i \in 1..Len(fs) : b(i) \in Nat
  <2>1. \A i \in 1..Len(fs) : fs[i] \in Frame
    BY ElementOfSeq
  <2>2. \A i \in 1..Len(fs) : fs[i].blocks \in Blocks
    BY <2>1 DEF Frame
  <2>3. QED
    BY <2>2, BlocksType, EventStreamAssumption
<1>3. PlainOf(fs, len) = CHOOSE n \in 0..w : P(n)
  BY DEF PlainOf
<1> HIDE DEF w, b
<1>4. PICK n \in T : \A m \in T : n <= m
  <2>1. T \subseteq Nat /\ T # {}
    <3>1. w \in Nat
      BY <1>1
    <3>2. w \in 0..w /\ ~(w < w) /\ 0..w \subseteq Nat
      BY <3>1
    <3>3. w \in T
      BY <3>2
    <3>4. QED
      BY <3>2, <3>3
  <2> HIDE DEF T
  <2>2. QED
    BY <2>1, LeastNumber
<1>5. \A i \in 1..n : b(i) < Base
  <2>1. SUFFICES ASSUME NEW i \in 1..n, ~(b(i) < Base) PROVE FALSE
    OBVIOUS
  <2>2. i - 1 \in 0..w /\ (i - 1) + 1 = i /\ i - 1 < n /\ i \in 1..Len(fs)
    BY <1>1
  <2>3. b(i) >= Base
    BY <1>2, <2>1, <2>2
  <2>4. i - 1 \in T
    BY <2>2, <2>3
  <2>5. QED
    BY <1>1, <1>4, <2>2, <2>4
<1>6. n \in 0..w /\ P(n)
  BY <1>5
<1> HIDE DEF P
<1>7. PlainOf(fs, len) \in 0..w /\ P(PlainOf(fs, len))
  BY <1>3, <1>6
<1>8. CellsOf(fs, PlainOf(fs, len)) <= len
  <2> DEFINE p == PlainOf(fs, len)
  <2>1. p \in 0..Len(fs) /\ w \in 0..Len(fs) /\ p <= w
    BY <1>1, <1>7
  <2>2. /\ CellsOf(fs, p) \in Nat /\ CellsOf(fs, w) \in Nat
        /\ p < w => CellsOf(fs, p) < CellsOf(fs, w)
    BY <2>1, CellsGrow
  <2> HIDE DEF p
  <2>3. p = w \/ p < w
    BY <1>1, <2>1
  <2>4. CellsOf(fs, p) <= len
    BY <1>1, <2>2, <2>3
  <2>5. QED
    BY <2>4 DEF p
<1>9. QED
  BY <1>1, <1>7, <1>8 DEF P, b

(* A broken end only adds to what was recorded.                              *)
LEMMA LongerPrefix ==
  ASSUME NEW S, NEW s \in Seq(S), NEW t \in Seq(S), NEW u \in Seq(S), IsPrefix(s, t)
  PROVE  t \o u \in Seq(S) /\ IsPrefix(s, t \o u)
<1>1. /\ t \o u \in Seq(S) /\ Len(t) \in Nat /\ Len(u) \in Nat /\ Len(s) \in Nat
      /\ Len(t \o u) = Len(t) + Len(u) /\ \A k \in 1..Len(t) : (t \o u)[k] = t[k]
  BY ConcatParts, LenProperties
<1>2. Len(s) <= Len(t) /\ \A k \in 1..Len(s) : s[k] = t[k]
  BY PrefixByElement
<1> DEFINE v == t \o u
<1> HIDE DEF v
<1>3. v \in Seq(S) /\ Len(s) <= Len(v) /\ \A k \in 1..Len(s) : s[k] = v[k]
  BY <1>1, <1>2 DEF v
<1>4. IsPrefix(s, v)
  BY <1>3, PrefixByElement
<1>5. QED
  BY <1>3, <1>4 DEF v

(* The variables are well typed.                                             *)
TypeOK ==
    /\ pc \in {"client", "drain", "pop", "parse", "done"} /\ listed \in BOOLEAN
    /\ events \in Seq(Frame) /\ hand \in Seq(Frame) /\ reply \in Seq(Frame)
    /\ pc = "pop" => events # <<>>
    /\ data \in Seq(AnyCell) /\ index \in Nat /\ out \in Seq(Entry)

(* The parser starts with nothing, on the first cells of the reply.          *)
Received ==
    /\ pc \in {"client", "drain", "pop"} => data = <<>> /\ index = 0 /\ out = <<>>
    /\ pc \in {"parse", "done"} =>
          \E k \in 1..Len(Stream(reply)) : data = SubSeq(Stream(reply), 1, k)

(* It stands where a frame begins, and has recorded the frames before, until *)
(* it has passed the last plain one.  (A reply that leads with an empty list *)
(* is read as one event only.)                                               *)
End == PlainOf(reply, Len(data))
AtFrame(j) == index = CellsOf(reply, j) /\ out = RecordOf(reply, j)
Beyond == CellsOf(reply, End) < Len(data) /\ IsPrefix(RecordOf(reply, End), out)
Placed ==
    /\ pc = "parse" /\ ~LeadsWithEmpty =>
          (\E j \in 0..End : AtFrame(j)) \/ (index > 0 /\ Beyond)
    /\ pc = "done" /\ ~LeadsWithEmpty => out = RecordOf(reply, End) \/ Beyond

Inv == TypeOK /\ Received /\ Placed

----------------------------------------------------------------------------
(* What the parser reads *)

(* The cells that were received are the first cells of the reply.            *)
LEMMA StreamRead ==
  ASSUME NEW fs \in Seq(Frame), NEW k \in 1..Len(Stream(fs))
  PROVE  LET d == SubSeq(Stream(fs), 1, k) IN
         /\ d \in Seq(AnyCell) /\ Len(d) = k /\ k \in Nat \ {0}
         /\ \A i \in 1..k : d[i] = Stream(fs)[i]
<1> DEFINE s == Stream(fs)
           d == SubSeq(s, 1, k)
<1>1. s \in Seq(AnyCell)
  <2>1. Stream(fs) = FlattenSeq(Frames(fs)) /\ Frames(fs) \in Seq(Seq(AnyCell))
    BY FramesType DEF Stream, Frames
  <2>2. QED
    BY <2>1, FlattenType
<1> HIDE DEF s
<1>2. /\ Len(s) \in Nat /\ \A i \in 1..Len(s) : s[i] \in AnyCell
      /\ k \in 1..Len(s)
  BY <1>1, LenProperties, ElementOfSeq DEF s
<1>3. 1 \in Int /\ k \in Int /\ \A i \in 1..k : s[i] \in AnyCell
  BY <1>2
<1>4. /\ d \in Seq(AnyCell)
      /\ Len(d) = IF 1 <= k THEN k - 1 + 1 ELSE 0
      /\ \A i \in 1..k - 1 + 1 : d[i] = s[1 + i - 1]
  BY <1>3, SubSeqProperties
<1>5. Len(d) = k /\ k \in Nat \ {0} /\ \A i \in 1..k : d[i] = s[i]
  BY <1>2, <1>4
<1>6. QED
  BY <1>4, <1>5 DEF s

(* A frame that is received whole is there cell by cell.                     *)
LEMMA FrameCells ==
  ASSUME NEW fs \in Seq(Frame), NEW k \in 1..Len(Stream(fs)), NEW d,
         d = SubSeq(Stream(fs), 1, k), NEW j \in 1..Len(fs), CellsOf(fs, j) <= Len(d)
  PROVE  /\ CellsOf(fs, j - 1) \in Nat
         /\ CellsOf(fs, j) = CellsOf(fs, j - 1) + Len(build_event(fs[j]))
         /\ \A x \in 1..Len(build_event(fs[j])) :
              /\ CellsOf(fs, j - 1) + x <= Len(d)
              /\ d[CellsOf(fs, j - 1) + x] = build_event(fs[j])[x]
<1> DEFINE b == build_event(fs[j])
           c == CellsOf(fs, j - 1)
           s == Stream(fs)
<1>1. /\ c \in Nat /\ CellsOf(fs, j) = c + Len(b)
      /\ \A x \in 1..Len(b) : s[c + x] = b[x]
  BY StreamFrame
<1>2. Len(d) = k /\ k \in Nat /\ \A i \in 1..k : d[i] = s[i]
  BY StreamRead
<1>3. Len(b) \in Nat
  <2>1. fs[j] \in Frame
    BY ElementOfSeq
  <2>2. b \in Seq(AnyCell)
    BY <2>1, FrameWritten DEF Written
  <2> HIDE DEF b
  <2>3. QED
    BY <2>2, LenProperties
<1> HIDE DEF b, c, s
<1>4. c + Len(b) <= k
  BY <1>1, <1>2
<1>5. \A x \in 1..Len(b) : c + x \in 1..k
  BY <1>1, <1>2, <1>3, <1>4
<1>6. \A x \in 1..Len(b) : c + x <= Len(d) /\ d[c + x] = b[x]
  BY <1>1, <1>2, <1>5
<1>7. QED
  BY <1>1, <1>6 DEF b, c

(* A cell of a kind is read for what it is.                                  *)
LEMMA CellRead ==
  ASSUME NEW i \in Nat, NEW k, NEW v, i + 1 <= Len(data), data[i + 1] = Cell(k, v),
         Len(data) \in Nat
  PROVE  Is(i, k) /\ data[i + 1].val = v /\ \A junk : At(i, k, junk) = {v}
<1>1. i < Len(data)
  OBVIOUS
<1>2. Is(i, k) /\ data[i + 1].val = v
  BY <1>1 DEF Is, Cell
<1>3. QED
  BY <1>2 DEF At

(* The fields of a frame of n blocks and a name of l letters lie within it.  *)
LEMMA FramePlaces ==
  ASSUME NEW n \in Nat, NEW l \in Nat \ {0}, NEW m, m = n + l + 4
  PROVE  /\ 2 \in 1..m /\ 3 + n \in 1..m /\ 4 + n + l \in 1..m /\ 1 \in 1..m
         /\ \A x \in 1..n : 2 + x \in 1..m
         /\ \A x \in 1..l : 3 + n + x \in 1..m
  OBVIOUS

(* So a plain frame that was received whole is read exactly as it was        *)
(* written, and the next one begins where it ends.                           *)
LEMMA FrameRead ==
  ASSUME TypeOK, Received, pc = "parse",
         NEW j \in 1..End, index = CellsOf(reply, j - 1)
  PROVE  LET f == reply[j]
             n == Len(f.blocks)
             l == Letters[f.user]
         IN  /\ f \in Frame
             /\ index < Len(data)
             /\ Is(index + 1, "count") /\ data[index + 2].val = n
             /\ \A junk : At(index + 1, "count", junk) = {n}
             /\ \A junk : At(index + 2 + n, "length", junk) = {l}
             /\ \A x \in 1..n : At(index + 1 + x, "block", Data) = {f.blocks[x]}
             /\ UserAt(index + 3 + n, l) = f.user
             /\ StampAt(index + 3 + n + l) = f.time
             /\ NextIndex(n, l) = CellsOf(reply, j)
<1> DEFINE f == reply[j]
           n == Len(f.blocks)
           l == Letters[f.user]
           b == build_event(f)
<1>1. reply \in Seq(Frame) /\ Len(reply) \in Nat /\ Len(data) \in Nat /\ index \in Nat
  BY LenProperties DEF TypeOK
<1>2. /\ End \in 0..Len(reply) /\ CellsOf(reply, End) <= Len(data)
      /\ \A i \in 1..End : Len(reply[i].blocks) < Base
  BY <1>1, PlainFrames DEF End
<1>3. j \in 1..Len(reply) /\ n < Base
  BY <1>1, <1>2
<1>4. CellsOf(reply, j) <= Len(data)
  <2>1. /\ CellsOf(reply, j) \in Nat /\ CellsOf(reply, End) \in Nat
        /\ j < End => CellsOf(reply, j) < CellsOf(reply, End)
    <3>1. j \in 0..Len(reply) /\ End \in 0..Len(reply)
      BY <1>1, <1>2
    <3>2. QED
      BY <1>1, <3>1, CellsGrow
  <2>2. j = End \/ j < End
    BY <1>1, <1>2
  <2>3. QED
    BY <1>1, <1>2, <2>1, <2>2
<1>5. PICK k \in 1..Len(Stream(reply)) : data = SubSeq(Stream(reply), 1, k)
  BY DEF Received
<1>6. /\ CellsOf(reply, j) = index + Len(b)
      /\ \A x \in 1..Len(b) : index + x <= Len(data) /\ data[index + x] = b[x]
  BY <1>1, <1>3, <1>4, <1>5, FrameCells
<1>7. f \in Frame
  BY <1>1, <1>3, ElementOfSeq
<1>8. Written(f, b)
  BY <1>7, FrameWritten
<1>9. n \in Nat /\ l \in Nat \ {0} /\ Digit[n] = n /\ f.user \in User
  <2>1. f.blocks \in Blocks /\ f.user \in User
    BY <1>7 DEF Frame
  <2>2. n \in Nat /\ l \in Nat \ {0}
    BY <2>1, BlocksType, EventStreamAssumption
  <2>3. QED
    BY <1>3, <2>1, <2>2, DigitDef
<1>10. /\ Len(b) = n + l + 4
       /\ b[2] = Cell("count", n)
       /\ \A x \in 1..n : b[2 + x] = Cell("block", f.blocks[x])
       /\ b[3 + n] = Cell("length", l)
       /\ \A x \in 1..l : b[3 + n + x] = Cell("letter", f.user)
       /\ b[4 + n + l] = Cell("time", f.time)
  BY <1>8, <1>9 DEF Written
<1> HIDE DEF b, n, l
<1>11. /\ 2 \in 1..Len(b) /\ 3 + n \in 1..Len(b) /\ 4 + n + l \in 1..Len(b) /\ 1 \in 1..Len(b)
       /\ \A x \in 1..n : 2 + x \in 1..Len(b)
       /\ \A x \in 1..l : 3 + n + x \in 1..Len(b)
  <2>1. Len(b) = n + l + 4
    BY <1>10
  <2>2. n \in Nat /\ l \in Nat \ {0}
    BY <1>9
  <2>3. QED
    BY <2>1, <2>2, FramePlaces
<1>12. /\ index + 1 <= Len(data)
       /\ index + 2 <= Len(data) /\ data[index + 2] = Cell("count", n)
       /\ index + (3 + n) <= Len(data) /\ data[index + (3 + n)] = Cell("length", l)
       /\ index + (4 + n + l) <= Len(data) /\ data[index + (4 + n + l)] = Cell("time", f.time)
       /\ \A x \in 1..n : index + (2 + x) <= Len(data) /\ data[index + (2 + x)] = Cell("block", f.blocks[x])
       /\ \A x \in 1..l : index + (3 + n + x) <= Len(data) /\ data[index + (3 + n + x)] = Cell("letter", f.user)
  BY <1>6, <1>10, <1>11
<1> HIDE DEF f
<1>13. /\ Is(index + 1, "count") /\ data[index + 2].val = n
       /\ \A junk : At(index + 1, "count", junk) = {n}
  <2>1. index + 1 \in Nat /\ (index + 1) + 1 = index + 2
    BY <1>1
  <2>2. QED
    BY <1>1, <1>12, <2>1, CellRead
<1>14. \A junk : At(index + 2 + n, "length", junk) = {l}
  <2>1. index + 2 + n \in Nat /\ (index + 2 + n) + 1 = index + (3 + n)
    BY <1>1, <1>9
  <2>2. QED
    BY <1>1, <1>12, <2>1, CellRead
<1>15. ASSUME NEW x \in 1..n PROVE At(index + 1 + x, "block", Data) = {f.blocks[x]}
  <2> DEFINE i == index + 1 + x
  <2>1. i \in Nat /\ i + 1 = index + (2 + x)
    BY <1>1, <1>9
  <2>2. index + (2 + x) <= Len(data) /\ data[index + (2 + x)] = Cell("block", f.blocks[x])
    BY <1>12
  <2> HIDE DEF i
  <2>3. i + 1 <= Len(data) /\ data[i + 1] = Cell("block", f.blocks[x])
    BY <2>1, <2>2
  <2>4. At(i, "block", Data) = {f.blocks[x]}
    BY <1>1, <2>1, <2>3, CellRead
  <2>5. QED
    BY <2>4 DEF i
<1>16. UserAt(index + 3 + n, l) = f.user
  <2> DEFINE i == index + 3 + n
  <2>1. i \in Nat /\ i + 1 = index + (3 + n + 1) /\ 1 \in 1..l
    BY <1>1, <1>9
  <2>2. ASSUME NEW x \in 1..l
        PROVE  Is(i + x - 1, "letter") /\ data[i + x].val = f.user
    <3> DEFINE p == i + x - 1
    <3>1. /\ index \in Nat /\ n \in Nat /\ x \in Nat \ {0}
          /\ i \in Nat /\ i = index + 3 + n
      BY <1>1, <1>9
    <3> HIDE DEF i
    <3>2. p \in Nat /\ p + 1 = index + (3 + n + x) /\ i + x = p + 1
      BY <3>1
    <3>3. /\ index + (3 + n + x) <= Len(data)
          /\ data[index + (3 + n + x)] = Cell("letter", f.user)
      BY <1>12
    <3> HIDE DEF p
    <3>4. p + 1 <= Len(data) /\ data[p + 1] = Cell("letter", f.user)
      BY <3>2, <3>3
    <3>5. Is(p, "letter") /\ data[p + 1].val = f.user
      BY <1>1, <3>2, <3>4, CellRead
    <3>6. QED
      BY <3>2, <3>5 DEF p
  <2>3. data[i + 1].val = f.user
    BY <2>1, <2>2
  <2>4. l = Letters[f.user]
    BY DEF l
  <2> HIDE DEF i
  <2>5. QED
    BY <1>9, <2>2, <2>3, <2>4 DEF UserAt, i
<1>17. StampAt(index + 3 + n + l) = f.time
  <2> DEFINE i == index + 3 + n + l
  <2>1. i \in Nat /\ i + 1 = index + (4 + n + l)
    BY <1>1, <1>9
  <2> HIDE DEF i
  <2>2. At(i, "time", {Garbled}) = {f.time}
    BY <1>1, <1>12, <2>1, CellRead
  <2>3. QED
    BY <2>2 DEF StampAt, i
<1>18. NextIndex(n, l) = CellsOf(reply, j)
  <2>1. CellsOf(reply, j) = index + Len(b) /\ Len(b) = n + l + 4 /\ index \in Nat
    BY <1>1, <1>6, <1>10
  <2>2. n \in Nat /\ l \in Nat
    BY <1>9
  <2>3. QED
    BY <2>1, <2>2 DEF NextIndex
<1>19. index < Len(data)
  BY <1>1, <1>12
<1>20. QED
  BY <1>7, <1>13, <1>14, <1>15, <1>16, <1>17, <1>18, <1>19 DEF n, l, f

(* Whatever is read is a number, a name, a stamp or garbled.                 *)
LEMMA ReadType ==
  ASSUME TypeOK, NEW i \in Nat
  PROVE  /\ At(i, "count", Stray) \subseteq Nat /\ At(i, "length", Stray) \subseteq Nat
         /\ \A n : UserAt(i, n) \in Value /\ StampAt(i) \in Value
<1>1. data \in Seq(AnyCell) /\ Len(data) \in Nat /\ \A k \in 1..Len(data) : data[k] \in AnyCell
  BY LenProperties, ElementOfSeq DEF TypeOK
<1>2. ASSUME NEW k, Is(i, k)
      PROVE  data[i + 1] \in AnyCell /\ data[i + 1].kind = k
  <2>1. i < Len(data) /\ data[i + 1].kind = k
    BY <1>2 DEF Is
  <2>2. i + 1 \in 1..Len(data)
    BY <1>1, <2>1
  <2>3. QED
    BY <1>1, <2>1, <2>2
<1>3. \A c \in AnyCell : /\ c.kind \in {"count", "length", "time"} => c.val \in Nat
                         /\ c.kind = "letter" => c.val \in User
  BY DEF AnyCell
<1>4. Stray \subseteq Nat
  BY EventStreamAssumption
<1>5. At(i, "count", Stray) \subseteq Nat /\ At(i, "length", Stray) \subseteq Nat
  <2>1. ASSUME NEW k \in {"count", "length"} PROVE At(i, k, Stray) \subseteq Nat
    <3>1. CASE Is(i, k)
      <4>1. data[i + 1] \in AnyCell /\ data[i + 1].kind = k
        BY <1>2, <3>1
      <4>2. data[i + 1].val \in Nat
        BY <1>3, <4>1
      <4>3. At(i, k, Stray) = {data[i + 1].val}
        BY <3>1 DEF At
      <4>4. QED
        BY <4>2, <4>3
    <3>2. CASE ~Is(i, k)
      BY <1>4, <3>2 DEF At
    <3>3. QED
      BY <3>1, <3>2
  <2>2. QED
    BY <2>1
<1>6. StampAt(i) \in Value
  <2>1. At(i, "time", {Garbled}) # {} /\ At(i, "time", {Garbled}) \subseteq Nat \union {Garbled}
    BY <1>2, <1>3 DEF At
  <2>2. StampAt(i) \in At(i, "time", {Garbled})
    BY <2>1 DEF StampAt
  <2>3. QED
    BY <2>1, <2>2 DEF Value
<1>7. ASSUME NEW n PROVE UserAt(i, n) \in Value
  <2> DEFINE Spelled(u) == /\ n = Letters[u]
                           /\ \A x \in 1..n : Is(i + x - 1, "letter") /\ data[i + x].val = u
  <2>1. UserAt(i, n) = IF \E u \in User : Spelled(u) THEN data[i + 1].val ELSE Garbled
    BY DEF UserAt
  <2>2. ASSUME NEW u \in User, Spelled(u) PROVE data[i + 1].val = u
    <3>1. n \in Nat \ {0}
      BY <2>2, EventStreamAssumption
    <3>2. 1 \in 1..n
      BY <3>1
    <3>3. QED
      BY <2>2, <3>2
  <2> HIDE DEF Spelled
  <2>3. QED
    BY <2>1, <2>2 DEF Value
<1>8. QED
  BY <1>5, <1>6, <1>7

----------------------------------------------------------------------------
(* The steps *)

(* The client's steps, while nothing has been received.                      *)
LEMMA ClientType ==
  ASSUME TypeOK, Client
  PROVE  /\ events' \in Seq(Frame) /\ reply' \in Seq(Frame) /\ hand' \in Seq(Frame)
         /\ listed' \in BOOLEAN /\ (pc' = "pop" => events' # <<>>)
         /\ pc \in {"client", "drain", "pop"} /\ pc' \in {"client", "drain", "pop"}
         /\ UNCHANGED <<data, index, out>>
<1>1. /\ events \in Seq(Frame) /\ reply \in Seq(Frame) /\ hand \in Seq(Frame)
      /\ Len(events) \in Nat /\ Len(reply) \in Nat
  BY LenProperties DEF TypeOK
<1>2. CASE Gather
  <2>1. PICK b \in Blocks, u \in User :
          events' = Append(events, [blocks |-> b, user |-> u, time |-> Minutes + 1])
    BY <1>2 DEF Gather
  <2>2. Minutes \in Nat
    BY <1>1 DEF Minutes
  <2>3. [blocks |-> b, user |-> u, time |-> Minutes + 1] \in Frame
    BY <2>2 DEF Frame
  <2>4. events' \in Seq(Frame) /\ events' # <<>>
    BY <1>1, <2>1, <2>3, AppendProperties
  <2>5. listed' \in BOOLEAN
    BY <1>2 DEF Gather
  <2>6. QED
    BY <1>1, <1>2, <2>4, <2>5 DEF Gather
<1>3. CASE Sort
  <2> DEFINE R == Range(events)
             D == 1..Cardinality(R)
  <2>1. events' \in [D -> R]
    BY <1>3 DEF Sort, SetToSeqs
  <2>2. R \subseteq Frame /\ events \in Surjection(1..Len(events), R)
    <3>1. DOMAIN events = 1..Len(events) /\ \A k \in 1..Len(events) : events[k] \in Frame
      BY <1>1, LenProperties, ElementOfSeq
    <3>2. events \in [1..Len(events) -> R]
      BY <1>1, <3>1, SeqDef DEF Range
    <3>3. QED
      BY <3>1, <3>2 DEF Range, Surjection
  <2>3. Cardinality(R) \in Nat
    <3>1. IsFiniteSet(R)
      BY <1>1, <2>2, FS_NatSurjection DEF ExistsSurjection
    <3>2. QED
      BY <3>1, FS_CardinalityType
  <2> HIDE DEF R
  <2>4. events' \in [D -> Frame]
    BY <2>1, <2>2
  <2>5. events' \in Seq(Frame)
    BY <2>3, <2>4, SequenceOfFunction
  <2>6. listed' \in BOOLEAN
    BY <1>3 DEF Sort, TypeOK
  <2>7. QED
    BY <1>1, <1>3, <2>5, <2>6 DEF Sort
<1>5. CASE Back
  <2>1. events # <<>> /\ hand' = <<Last(events)>> /\ events' = events
    BY <1>5 DEF Back
  <2>2. Len(events) \in 1..Len(events)
    BY <1>1, <2>1, EmptySeq
  <2>3. Last(events) \in Frame
    BY <1>1, <2>2, ElementOfSeq DEF Last
  <2>4. hand' \in Seq(Frame)
    BY <2>1, <2>3
  <2>5. listed' \in BOOLEAN
    BY <1>5 DEF Back, TypeOK
  <2>6. QED
    BY <1>1, <1>5, <2>1, <2>4, <2>5 DEF Back
<1>4. CASE Send
  <2>1. /\ events # <<>> /\ reply' = reply \o hand /\ events' = Front(events)
    BY <1>4 DEF Send, TypeOK
  <2>2. Len(events) \in 1..Len(events)
    BY <1>1, <2>1, EmptySeq
  <2>3. Front(events) \in Seq(Frame)
    <3>1. \A k \in 1..Len(events) - 1 : events[k] \in Frame
      BY <1>1, ElementOfSeq
    <3>2. 1 \in Int /\ Len(events) - 1 \in Int
      BY <1>1
    <3>3. QED
      BY <3>1, <3>2, SubSeqProperties DEF Front
  <2>4. reply' \in Seq(Frame)
    BY <1>1, <2>1, ConcatProperties
  <2>5. hand' \in Seq(Frame) /\ pc = "pop" /\ pc' = "drain" /\ UNCHANGED <<data, index, out>>
    BY <1>4, EmptySeq DEF Send
  <2>6. listed' \in BOOLEAN
    BY <1>4 DEF Send, TypeOK
  <2>7. QED
    BY <2>1, <2>3, <2>4, <2>5, <2>6
<1>6. QED
  BY <1>2, <1>3, <1>4, <1>5 DEF Client

(* What was recorded of the plain frames is well typed.                      *)
LEMMA EndType ==
  ASSUME TypeOK
  PROVE  /\ reply \in Seq(Frame) /\ Len(reply) \in Nat /\ Len(data) \in Nat
         /\ End \in 0..Len(reply) /\ CellsOf(reply, End) <= Len(data)
         /\ \A j \in 0..Len(reply) : CellsOf(reply, j) \in Nat /\ RecordOf(reply, j) \in Seq(Entry)
         /\ CellsOf(reply, 0) = 0
         /\ \A j \in 0..Len(reply) : \A k \in 0..Len(reply) :
              j < k => CellsOf(reply, j) < CellsOf(reply, k)
<1>1. reply \in Seq(Frame) /\ Len(reply) \in Nat /\ Len(data) \in Nat
  BY LenProperties DEF TypeOK
<1>2. End \in 0..Len(reply) /\ CellsOf(reply, End) <= Len(data)
  BY <1>1, PlainFrames DEF End
<1>3. \A j \in 0..Len(reply) : \A k \in 0..Len(reply) :
        /\ CellsOf(reply, 0) = 0 /\ CellsOf(reply, j) \in Nat
        /\ j < k => CellsOf(reply, j) < CellsOf(reply, k)
  BY <1>1, CellsGrow
<1>4. 0 \in 0..Len(reply)
  BY <1>1
<1>5. QED
  BY <1>1, <1>2, <1>3, <1>4, RecordNext

(* A parser that stands at a frame has come to the end of the plain ones if  *)
(* there is nothing left to read.                                            *)
LEMMA LastFrame ==
  ASSUME TypeOK, NEW j \in 0..End, index = CellsOf(reply, j), index >= Len(data)
  PROVE  j = End
<1>1. /\ End \in 0..Len(reply) /\ Len(reply) \in Nat /\ Len(data) \in Nat
      /\ CellsOf(reply, End) <= Len(data)
      /\ CellsOf(reply, j) \in Nat /\ CellsOf(reply, End) \in Nat
      /\ j < End => CellsOf(reply, j) < CellsOf(reply, End)
  <2>1. End \in 0..Len(reply) /\ Len(reply) \in Nat
    BY EndType
  <2>2. j \in 0..Len(reply)
    BY <2>1
  <2>3. QED
    BY <2>1, <2>2, EndType
<1>2. ~(j < End)
  BY <1>1
<1>3. QED
  BY <1>1, <1>2

(* The invariant holds initially.                                            *)
LEMMA InvInit == Init => Inv
<1> SUFFICES ASSUME Init PROVE Inv
  OBVIOUS
<1>1. <<>> \in Seq(Frame) /\ <<>> \in Seq(AnyCell) /\ <<>> \in Seq(Entry)
  BY EmptySeq
<1>2. QED
  BY <1>1 DEF Init, Inv, TypeOK, Received, Placed

(* The client's steps keep it.                                               *)
LEMMA InvClient == Inv /\ Client => Inv'
<1> SUFFICES ASSUME Inv, Client PROVE Inv'
  OBVIOUS
<1>1. TypeOK /\ Received
  BY DEF Inv
<1>2. /\ events' \in Seq(Frame) /\ reply' \in Seq(Frame) /\ hand' \in Seq(Frame)
      /\ listed' \in BOOLEAN /\ (pc' = "pop" => events' # <<>>)
      /\ pc \in {"client", "drain", "pop"} /\ pc' \in {"client", "drain", "pop"}
      /\ data' = data /\ index' = index /\ out' = out
  BY <1>1, ClientType
<1>3. TypeOK'
  BY <1>1, <1>2 DEF TypeOK
<1>4. Received' /\ Placed'
  BY <1>1, <1>2 DEF Received, Placed
<1>5. QED
  BY <1>3, <1>4 DEF Inv

(* The server receives the first cells of the reply and stands at its first. *)
LEMMA InvReceive == Inv /\ Receive => Inv'
<1> SUFFICES ASSUME Inv, Receive PROVE Inv'
  OBVIOUS
<1>1. TypeOK /\ Received /\ pc = "drain" /\ pc' = "parse"
      /\ UNCHANGED <<listed, events, hand, reply, index, out>>
  BY DEF Inv, Receive, cvars
<1>2. PICK k \in 1..Len(Stream(reply)) : data' = SubSeq(Stream(reply), 1, k)
  BY DEF Receive
<1>3. reply \in Seq(Frame)
  BY <1>1 DEF TypeOK
<1>4. data' \in Seq(AnyCell)
  BY <1>2, <1>3, StreamRead
<1>5. TypeOK'
  BY <1>1, <1>4 DEF TypeOK
<1>6. Received'
  BY <1>1, <1>2 DEF Received
<1>7. Placed'
  <2>1. index' = 0 /\ out' = <<>>
    BY <1>1 DEF Received
  <2>2. End' \in Nat /\ CellsOf(reply, 0) = 0
    <3>1. Len(data') \in Nat /\ Len(reply) \in Nat
      BY <1>3, <1>4, LenProperties
    <3>2. PlainOf(reply, Len(data')) \in 0..Len(reply) /\ 0 \in 0..Len(reply)
      BY <1>3, <3>1, PlainFrames
    <3>3. CellsOf(reply, 0) = 0
      BY <1>3, <3>2, CellsGrow
    <3>4. QED
      BY <1>1, <3>1, <3>2, <3>3 DEF End
  <2>3. RecordOf(reply, 0) = <<>>
    BY <1>3, RecordNext
  <2>4. 0 \in 0..End' /\ AtFrame(0)'
    BY <1>1, <2>1, <2>2, <2>3 DEF AtFrame
  <2>5. QED
    BY <1>1, <2>4 DEF Placed
<1>8. QED
  BY <1>5, <1>6, <1>7 DEF Inv

(* A reply that leads with an empty list is the only one of which the parser *)
(* takes a single event, and it does not take part of a plain frame for one. *)
LEMMA InvParseEmpty == Inv /\ ParseEmpty => Inv'
<1> SUFFICES ASSUME Inv, ParseEmpty PROVE Inv'
  OBVIOUS
<1>1. /\ TypeOK /\ Received /\ pc = "parse" /\ pc' = "done"
      /\ index = 0 /\ Is(1, "count") /\ data[2].val = 0
      /\ listed' = listed /\ events' = events /\ hand' = hand
      /\ reply' = reply /\ data' = data /\ index' = index
  BY DEF Inv, ParseEmpty, cvars
<1>2. PICK n \in At(2, "length", Stray) \union Stray :
        out' = <<Event(1, 0, UserAt(3, n), StampAt(3 + n))>>
  BY DEF ParseEmpty
<1>3. out' \in Seq(Entry)
  <2>1. n \in Nat
    BY <1>1, ReadType, EventStreamAssumption
  <2>2. UserAt(3, n) \in Value /\ StampAt(3 + n) \in Value
    <3>1. 3 \in Nat /\ 3 + n \in Nat
      BY <2>1
    <3>2. QED
      BY <1>1, <3>1, ReadType
  <2>3. Event(1, 0, UserAt(3, n), StampAt(3 + n)) \in Entry
    BY <2>2, EventStreamAssumption DEF Event, Entry
  <2>4. QED
    BY <1>2, <2>3
<1>4. TypeOK' /\ Received'
  BY <1>1, <1>3 DEF TypeOK, Received
<1>5. ASSUME ~LeadsWithEmpty PROVE Beyond'
  <2>1. /\ End \in 0..Len(reply) /\ Len(reply) \in Nat /\ reply \in Seq(Frame)
        /\ CellsOf(reply, 0) = 0
    BY <1>1, EndType
  <2>2. ASSUME End # 0 PROVE FALSE
    <3> DEFINE f == reply[1]
    <3>1. 1 \in 1..End /\ index = CellsOf(reply, 1 - 1) /\ index + 2 = 2
      BY <1>1, <2>1, <2>2
    <3>2. f \in Frame /\ data[index + 2].val = Len(f.blocks)
      BY <1>1, <3>1, FrameRead
    <3>3. f.blocks \in Seq(Data) /\ Len(f.blocks) = 0
      BY <1>1, <3>1, <3>2, BlocksType DEF Frame
    <3>4. f.blocks = <<>>
      BY <3>3, EmptySeq
    <3>5. QED
      BY <1>5, <3>4 DEF LeadsWithEmpty
  <2>3. CellsOf(reply, End) = 0 /\ RecordOf(reply, End) = <<>>
    BY <2>1, <2>2, RecordNext
  <2>4. 0 < Len(data)
    <3>1. 1 < Len(data) /\ Len(data) \in Nat
      BY <1>1, EndType DEF Is
    <3>2. QED
      BY <3>1
  <2>5. IsPrefix(<<>>, out')
    <3> DEFINE e == <<>>
    <3>1. e \in Seq(Entry) /\ Len(e) = 0 /\ Len(out') \in Nat
      BY <1>3, EmptySeq, LenProperties
    <3> HIDE DEF e
    <3>2. Len(e) <= Len(out') /\ \A k \in 1..Len(e) : e[k] = out'[k]
      BY <3>1
    <3>3. IsPrefix(e, out')
      BY <1>3, <3>1, <3>2, PrefixByElement
    <3>4. QED
      BY <3>3 DEF e
  <2>6. End' = End
    BY <1>1 DEF End
  <2>7. QED
    BY <1>1, <2>3, <2>4, <2>5, <2>6 DEF Beyond
<1>6. Placed'
  BY <1>1, <1>5 DEF Placed, LeadsWithEmpty
<1>7. QED
  BY <1>4, <1>6 DEF Inv

(* At a plain frame the parser records the frame and goes to the next one;   *)
(* past the last, or in a broken end, it only adds to what it recorded.      *)
LEMMA InvParseFrame == Inv /\ ParseFrame => Inv'
<1> SUFFICES ASSUME Inv, ParseFrame PROVE Inv'
  OBVIOUS
<1>1. /\ TypeOK /\ Received /\ Placed /\ pc = "parse" /\ index < Len(data)
      /\ pc' = pc /\ listed' = listed /\ events' = events /\ hand' = hand
      /\ reply' = reply /\ data' = data
  BY DEF Inv, ParseFrame, cvars
<1>2. PICK n \in At(index + 1, "count", Stray) :
      \E l \in At(index + 2 + n, "length", Stray) : \E d \in [1..n -> Data] :
        /\ \A k \in 1..n : d[k] \in At(index + 1 + k, "block", Data)
        /\ out' = out \o Pushed(d, UserAt(index + 3 + n, l), StampAt(index + 3 + n + l))
        /\ index' = NextIndex(n, l)
  BY DEF ParseFrame
<1>3. PICK l \in At(index + 2 + n, "length", Stray), d \in [1..n -> Data] :
        /\ \A k \in 1..n : d[k] \in At(index + 1 + k, "block", Data)
        /\ out' = out \o Pushed(d, UserAt(index + 3 + n, l), StampAt(index + 3 + n + l))
        /\ index' = NextIndex(n, l)
  BY <1>2
<1> DEFINE u == UserAt(index + 3 + n, l)
           t == StampAt(index + 3 + n + l)
           p == Pushed(d, u, t)
<1>4. index \in Nat /\ out \in Seq(Entry) /\ n \in Nat /\ l \in Nat
  <2>1. index \in Nat /\ out \in Seq(Entry)
    BY <1>1 DEF TypeOK
  <2>2. n \in Nat
    <3>1. index + 1 \in Nat
      BY <2>1
    <3>2. QED
      BY <1>1, <1>2, <3>1, ReadType
  <2>3. l \in Nat
    <3>1. index + 2 + n \in Nat
      BY <2>1, <2>2
    <3>2. QED
      BY <1>1, <1>3, <3>1, ReadType
  <2>4. QED
    BY <2>1, <2>2, <2>3
<1>5. p \in Seq(Entry)
  <2>1. index + 3 + n \in Nat /\ index + 3 + n + l \in Nat
    BY <1>4
  <2>2. u \in Value /\ t \in Value
    BY <1>1, <2>1, ReadType
  <2> HIDE DEF u, t
  <2>3. QED
    BY <1>3, <1>4, <2>2, PushedType
<1>6. out' = out \o p /\ out' \in Seq(Entry) /\ index' \in Nat /\ index' > 0
  <2>1. out' = out \o p
    BY <1>3
  <2> HIDE DEF p
  <2>2. out \o p \in Seq(Entry)
    BY <1>4, <1>5, ConcatProperties
  <2>3. index' \in Nat /\ index' > 0
    BY <1>3, <1>4 DEF NextIndex
  <2>4. QED
    BY <2>1, <2>2, <2>3
<1>7. TypeOK' /\ Received'
  BY <1>1, <1>6 DEF TypeOK, Received
<1>8. End' = End /\ End \in 0..Len(reply) /\ RecordOf(reply, End) \in Seq(Entry)
  <2>1. End \in 0..Len(reply) /\ RecordOf(reply, End) \in Seq(Entry)
    BY <1>1, EndType
  <2>2. QED
    BY <1>1, <2>1 DEF End
<1>9. ASSUME CellsOf(reply, End) < Len(data), IsPrefix(RecordOf(reply, End), out)
      PROVE  Beyond'
  <2> HIDE DEF p
  <2>1. IsPrefix(RecordOf(reply, End), out \o p)
    BY <1>4, <1>5, <1>8, <1>9, LongerPrefix
  <2>2. QED
    BY <1>1, <1>6, <1>8, <1>9, <2>1 DEF Beyond
<1>10. ASSUME NEW j \in 0..End, AtFrame(j)
       PROVE  (\E m \in 0..End : AtFrame(m)') \/ Beyond'
  <2>1. index = CellsOf(reply, j) /\ out = RecordOf(reply, j) /\ Len(reply) \in Nat
    BY <1>1, <1>10, EndType DEF AtFrame
  <2>2. CASE j = End
    <3>1. IsPrefix(out, out)
      BY <1>4, PrefixByElement, LenProperties
    <3>2. QED
      BY <1>1, <1>9, <2>1, <2>2, <3>1
  <2>3. CASE j # End
    <3> DEFINE m == j + 1
               f == reply[m]
    <3>1. m \in 1..End /\ m - 1 = j /\ m \in 0..End /\ m \in 1..Len(reply)
      BY <1>8, <2>1, <2>3
    <3> HIDE DEF m
    <3>2. /\ f \in Frame
          /\ At(index + 1, "count", Stray) = {Len(f.blocks)}
          /\ At(index + 2 + Len(f.blocks), "length", Stray) = {Letters[f.user]}
          /\ \A x \in 1..Len(f.blocks) : At(index + 1 + x, "block", Data) = {f.blocks[x]}
          /\ UserAt(index + 3 + Len(f.blocks), Letters[f.user]) = f.user
          /\ StampAt(index + 3 + Len(f.blocks) + Letters[f.user]) = f.time
          /\ NextIndex(Len(f.blocks), Letters[f.user]) = CellsOf(reply, m)
      <4>1. index = CellsOf(reply, m - 1)
        BY <2>1, <3>1
      <4>2. QED
        BY <1>1, <3>1, <4>1, FrameRead
    <3> HIDE DEF f
    <3>3. n = Len(f.blocks)
      BY <1>2, <3>2
    <3>4. l = Letters[f.user]
      BY <1>3, <3>2, <3>3
    <3>5. d = f.blocks
      <4> DEFINE g == f.blocks
                 D == 1..n
      <4>1. g \in [D -> Data]
        BY <3>2, <3>3, BlocksType DEF Frame
      <4>2. \A k \in D : d[k] = g[k]
        BY <1>3, <3>2, <3>3
      <4>3. d \in [D -> Data]
        BY <1>3
      <4> HIDE DEF g, D
      <4>4. d = g
        <5>1. d = [k \in D |-> d[k]]
          BY <4>3
        <5>2. g = [k \in D |-> g[k]]
          BY <4>1
        <5>3. [k \in D |-> d[k]] = [k \in D |-> g[k]]
          BY <4>2
        <5>4. QED
          BY <5>1, <5>2, <5>3
      <4>5. QED
        BY <4>4 DEF g
    <3>6. u = f.user /\ t = f.time
      BY <3>2, <3>3, <3>4
    <3>7. p = Events(f)
      BY <3>2, <3>5, <3>6, PushedEvents
    <3>8. out' = RecordOf(reply, m)
      <4>1. RecordOf(reply, m) = RecordOf(reply, m - 1) \o Events(reply[m])
        BY <1>1, <3>1, RecordNext DEF TypeOK
      <4>2. QED
        BY <1>6, <2>1, <3>1, <3>7, <4>1 DEF f
    <3>9. index' = CellsOf(reply, m)
      BY <1>3, <3>2, <3>3, <3>4
    <3>10. AtFrame(m)'
      BY <1>1, <3>8, <3>9 DEF AtFrame
    <3>11. QED
      BY <3>1, <3>10
  <2>4. QED
    BY <2>2, <2>3
<1>11. ASSUME ~LeadsWithEmpty
       PROVE  (\E m \in 0..End' : AtFrame(m)') \/ (index' > 0 /\ Beyond')
  <2>1. (\E j \in 0..End : AtFrame(j)) \/ Beyond
    BY <1>1, <1>11 DEF Placed
  <2>2. CASE Beyond
    BY <1>6, <1>9, <2>2 DEF Beyond
  <2>3. CASE \E j \in 0..End : AtFrame(j)
    BY <1>6, <1>8, <1>10, <2>3
  <2>4. QED
    BY <2>1, <2>2, <2>3
<1>12. Placed'
  BY <1>1, <1>11 DEF Placed, LeadsWithEmpty
<1>13. QED
  BY <1>7, <1>12 DEF Inv

(* It is done when it has come to the end of what it received.               *)
LEMMA InvParseEnd == Inv /\ ParseEnd => Inv'
<1> SUFFICES ASSUME Inv, ParseEnd PROVE Inv'
  OBVIOUS
<1>1. /\ TypeOK /\ Received /\ Placed /\ pc = "parse" /\ pc' = "done" /\ index >= Len(data)
      /\ listed' = listed /\ events' = events /\ hand' = hand
      /\ reply' = reply /\ data' = data /\ index' = index /\ out' = out
  BY DEF Inv, ParseEnd, cvars
<1>2. TypeOK' /\ Received'
  BY <1>1 DEF TypeOK, Received
<1>3. ASSUME ~LeadsWithEmpty PROVE out = RecordOf(reply, End) \/ Beyond
  <2>1. (\E j \in 0..End : AtFrame(j)) \/ Beyond
    BY <1>1, <1>3 DEF Placed
  <2>2. ASSUME NEW j \in 0..End, AtFrame(j) PROVE out = RecordOf(reply, End)
    <3>1. index = CellsOf(reply, j) /\ out = RecordOf(reply, j)
      BY <2>2 DEF AtFrame
    <3>2. j = End
      BY <1>1, <3>1, LastFrame
    <3>3. QED
      BY <3>1, <3>2
  <2>3. QED
    BY <2>1, <2>2
<1>4. End' = End /\ (Beyond' <=> Beyond)
  BY <1>1 DEF End, Beyond
<1>5. Placed'
  BY <1>1, <1>3, <1>4 DEF Placed, LeadsWithEmpty
<1>6. QED
  BY <1>2, <1>5 DEF Inv

(* So it holds of every behaviour.                                           *)
LEMMA InvAlways == Spec => []Inv
<1>1. Inv /\ UNCHANGED vars => Inv'
  BY DEF vars, cvars, Inv, TypeOK, Received, Placed, LeadsWithEmpty, AtFrame, Beyond, End
<1>2. Inv /\ [Next]_vars => Inv'
  BY <1>1, InvClient, InvReceive, InvParseEmpty, InvParseFrame, InvParseEnd DEF Next, Parse
<1>3. QED
  BY InvInit, <1>2, PTL DEF Spec

----------------------------------------------------------------------------
(* What follows *)

(* The variables of build_event, get_current_event and parse_event_block     *)
(* have their types, whatever is read past a broken end.                     *)
THEOREM StreamTypes == Spec => []TypeOK
<1>1. Inv => TypeOK
  BY DEF Inv
<1>2. QED
  BY InvAlways, <1>1, PTL

(* parse_event_block keeps its place, for any users and lengths of names,    *)
(* any program bits, any base and any number of frames, wherever the         *)
(* connection broke: every plain frame that arrived whole is recorded        *)
(* exactly, and a broken end comes after all of them.                        *)
THEOREM StreamFaithful == Spec => []Faithful
<1>1. Inv => Faithful
  <2>1. SUFFICES ASSUME Inv, pc \in {"parse", "done"}, ~LeadsWithEmpty
                 PROVE  \/ out = Recorded(Plain)
                        \/ pc = "parse" /\ IsPrefix(out, Recorded(Plain))
                        \/ Cells(Plain) < Len(data) /\ IsPrefix(Recorded(Plain), out)
    BY DEF Faithful
  <2>2. TypeOK /\ Placed
    BY <2>1 DEF Inv
  <2>3. Plain = End
    <3>1. Whole = WholeOf(reply, Len(data))
      BY DEF Whole, WholeOf, Cells, CellsOf
    <3>2. QED
      BY <3>1 DEF Plain, PlainOf, End
  <2>4. Recorded(End) = RecordOf(reply, End) /\ Cells(End) = CellsOf(reply, End)
    BY DEF Recorded, RecordOf, Cells, CellsOf
  <2>5. CASE Beyond
    BY <2>3, <2>4, <2>5 DEF Beyond
  <2>6. CASE pc = "done"
    BY <2>1, <2>2, <2>3, <2>4, <2>5, <2>6 DEF Placed
  <2>7. ASSUME pc = "parse", NEW j \in 0..End, AtFrame(j)
        PROVE  IsPrefix(out, RecordOf(reply, End))
    <3>1. End \in 0..Len(reply) /\ reply \in Seq(Frame) /\ out = RecordOf(reply, j)
      BY <2>2, <2>7, EndType DEF AtFrame
    <3>2. QED
      BY <2>7, <3>1, RecordNext
  <2>8. CASE pc = "parse"
    BY <2>1, <2>2, <2>3, <2>4, <2>5, <2>7, <2>8 DEF Placed
  <2>9. QED
    BY <2>1, <2>6, <2>8
<1>2. QED
  BY InvAlways, <1>1, PTL
=============================================================================
