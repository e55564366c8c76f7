---------------------------- MODULE RecordProofs -----------------------------
(***************************************************************************)
(* What the codecs of hotline/protocol keep of a message, for bytes of any *)
(* width and messages of any content and length.                           *)
(*                                                                         *)
(* A decoder reads numbers and runs of bytes from offsets, an encoder      *)
(* joins them; both are folds and concatenations over sequences.  The      *)
(* lemmas say what a number is made of, where in a joined sequence a part  *)
(* is found again, and that the parts of a sequence, joined, are the       *)
(* sequence.  With them each kind of record is shown to be returned by its *)
(* decoder as it was encoded, to be made again of what was decoded, and    *)
(* not to be accepted when it was cut.  The theorems follow by an          *)
(* invariant of the way of a message: what the decoder is given was        *)
(* encoded, cut or changed, and what it returned is what it made of that.  *)
(***************************************************************************)
EXTENDS Codecs, FiniteSetTheorems, SequenceTheorems, WellFoundedInduction, TLAPS

\* A byte has one to eight bits, which is all that is used of Base.
LEMMA Bases ==
  /\ Base \in {2, 4, 8, 16, 32, 64, 128, 256}
  /\ Base^2 = Base * Base
  /\ Base^4 = Base * Base * Base * Base
<1>1. PICK n \in 1..8 : Base = 2^n
  BY BaseAssumption
<1>2. n = 1 \/ n = 2 \/ n = 3 \/ n = 4 \/ n = 5 \/ n = 6 \/ n = 7 \/ n = 8
  OBVIOUS
<1>3. CASE n = 1
  <2>1. Base = 2^1
    BY <1>1, <1>3, Zenon
  <2>2. Base = 2
    BY <2>1
  <2>3. Base^2 = 2^2 /\ Base^4 = 2^4
    BY <2>2, Zenon
  <2>. QED BY <2>2, <2>3
<1>4. CASE n = 2
  <2>1. Base = 2^2
    BY <1>1, <1>4, Zenon
  <2>2. Base = 4
    BY <2>1
  <2>3. Base^2 = 4^2 /\ Base^4 = 4^4
    BY <2>2, Zenon
  <2>. QED BY <2>2, <2>3
<1>5. CASE n = 3
  <2>1. Base = 2^3
    BY <1>1, <1>5, Zenon
  <2>2. Base = 8
    BY <2>1
  <2>3. Base^2 = 8^2 /\ Base^4 = 8^4
    BY <2>2, Zenon
  <2>. QED BY <2>2, <2>3
<1>6. CASE n = 4
  <2>1. Base = 2^4
    BY <1>1, <1>6, Zenon
  <2>2. Base = 16
    BY <2>1
  <2>3. Base^2 = 16^2 /\ Base^4 = 16^4
    BY <2>2, Zenon
  <2>. QED BY <2>2, <2>3
<1>7. CASE n = 5
  <2>1. Base = 2^5
    BY <1>1, <1>7, Zenon
  <2>2. Base = 32
    BY <2>1
  <2>3. Base^2 = 32^2 /\ Base^4 = 32^4
    BY <2>2, Zenon
  <2>. QED BY <2>2, <2>3
<1>8. CASE n = 6
  <2>1. Base = 2^6
    BY <1>1, <1>8, Zenon
  <2>2. Base = 64
    BY <2>1
  <2>3. Base^2 = 64^2 /\ Base^4 = 64^4
    BY <2>2, Zenon
  <2>. QED BY <2>2, <2>3
<1>9. CASE n = 7
  <2>1. Base = 2^7
    BY <1>1, <1>9, Zenon
  <2>2. Base = 128
    BY <2>1
  <2>3. Base^2 = 128^2 /\ Base^4 = 128^4
    BY <2>2, Zenon
  <2>. QED BY <2>2, <2>3
<1>10. CASE n = 8
  <2>1. Base = 2^8
    BY <1>1, <1>10, Zenon
  <2>2. Base = 256
    BY <2>1
  <2>3. Base^2 = 256^2 /\ Base^4 = 256^4
    BY <2>2, Zenon
  <2>. QED BY <2>2, <2>3
<1>. QED BY <1>2, <1>3, <1>4, <1>5, <1>6, <1>7, <1>8, <1>9, <1>10

-----------------------------------------------------------------------------
(* Number() adds up bytes from the first to the last.  The fold is a       *)
(* recursive function of the positions gone through; that there is one is  *)
(* shown for sets of at most n positions, for every n.                     *)

\* A set of naturals that is not empty has a least member.
LEMMA LeastNatural ==
  ASSUME NEW S \in SUBSET Nat, S # {}
  PROVE  \E d \in S : \A e \in S : d <= e
<1> DEFINE Less == {ss \in Nat \X Nat : ss[1] < ss[2]}
<1>1. IsWellFoundedOn(Less, Nat)
  BY NatLessThanWellFounded DEF OpToRel
<1>2. \E d \in S : \A e \in S : ~ (<<e, d>> \in Less)
  <2> HIDE DEF Less
  <2>. QED BY <1>1, WFMin
<1>3. PICK d \in S : \A e \in S : ~ (<<e, d>> \in Less)
  BY <1>2
<1>4. ASSUME NEW e \in S
      PROVE  d <= e
  <2>1. d \in Nat /\ e \in Nat
    OBVIOUS
  <2>2. ~ (e < d)
    BY <1>3, <2>1, Zenon
  <2>. QED BY <2>1, <2>2
<1>. QED BY <1>4

LEMMA MaxOf ==
  ASSUME NEW n \in Nat, NEW T \in SUBSET (1..n), T # {}
  PROVE  Max(T) \in T /\ \A x \in T : Max(T) >= x
<1> DEFINE Below == {k \in Nat : \E x \in T : k = n - x}
<1>1. Below \in SUBSET Nat /\ Below # {}
  <2>1. PICK x \in T : TRUE
    OBVIOUS
  <2>2. n - x \in Below
    OBVIOUS
  <2>. QED BY <2>2
<1>2. PICK k \in Below : \A l \in Below : k <= l
  BY <1>1, LeastNatural
<1>3. PICK x \in T : k = n - x
  OBVIOUS
<1>4. ASSUME NEW y \in T
      PROVE  x >= y
  <2>1. n - y \in Below
    OBVIOUS
  <2>2. k <= n - y
    BY <1>2, <2>1
  <2>. QED BY <1>3, <2>2
<1>. QED BY <1>4 DEF Max

\* Some of the positions of s.
LEMMA Positions ==
  ASSUME NEW s \in Seq(Int), NEW T \in SUBSET DOMAIN s
  PROVE  /\ IsFiniteSet(T) /\ Cardinality(T) \in Nat /\ Cardinality(T) <= Len(s)
         /\ T # {} => Max(T) \in T
<1>1. DOMAIN s = 1..Len(s) /\ Len(s) \in Nat
  OBVIOUS
<1>2. IsFiniteSet(1..Len(s)) /\ Cardinality(1..Len(s)) = Len(s)
  <2>1. /\ IsFiniteSet(1..Len(s))
        /\ Cardinality(1..Len(s)) = IF 1 > Len(s) THEN 0 ELSE Len(s) - 1 + 1
    BY <1>1, FS_Interval
  <2>. QED BY <1>1, <2>1
<1>3. IsFiniteSet(T) /\ Cardinality(T) <= Len(s)
  BY <1>1, <1>2, FS_Subset
<1>4. Cardinality(T) \in Nat
  BY <1>3, FS_CardinalityType
<1>5. T # {} => Max(T) \in T
  BY <1>1, MaxOf
<1>. QED BY <1>3, <1>4, <1>5

\* One more position.
Step(s, g) ==
  [T \in SUBSET DOMAIN s |-> IF T = {} THEN 0 ELSE g[T \ {Max(T)}] * Base + s[Max(T)]]

\* The function that Number() is the value of at all positions.
Folded(s) == CHOOSE g : g = Step(s, g)

LEMMA NumberIsFolded ==
  ASSUME NEW s
  PROVE  Number(s) = Folded(s)[DOMAIN s]
BY Zenon DEF Number, Folded, Step, FoldLeft, MapThenFoldSet

\* g is right for the sets of at most k positions.
Right(s, g, k) == \A T \in SUBSET DOMAIN s : Cardinality(T) <= k => g[T] = Step(s, g)[T]

LEMMA RightStep ==
  ASSUME NEW s \in Seq(Int), NEW k \in Nat, NEW g, Right(s, g, k)
  PROVE  Right(s, Step(s, g), k + 1)
<1> DEFINE h == Step(s, g)
<1> SUFFICES ASSUME NEW T \in SUBSET DOMAIN s, Cardinality(T) <= k + 1
             PROVE  h[T] = Step(s, h)[T]
  BY DEF Right
<1>1. DOMAIN s = 1..Len(s) /\ Len(s) \in Nat
  OBVIOUS
<1>2. CASE T = {}
  BY <1>2 DEF Step
<1>3. CASE T # {}
  <2> DEFINE U == T \ {Max(T)}
  <2>1. IsFiniteSet(T) /\ Max(T) \in T
    BY <1>3, Positions
  <2>2. Cardinality(T) \in Nat /\ Cardinality(U) = Cardinality(T) - 1
    BY <2>1, FS_CardinalityType, FS_RemoveElement
  <2>3. U \in SUBSET DOMAIN s /\ Cardinality(U) <= k
    BY <2>2
  <2>4. g[U] = h[U]
    BY <2>3 DEF Right
  <2> HIDE DEF h, U
  <2>5. Step(s, h)[T] = h[U] * Base + s[Max(T)] /\ Step(s, g)[T] = g[U] * Base + s[Max(T)]
    BY <1>3 DEF Step, U
  <2>. QED BY <2>4, <2>5 DEF h
<1>. QED BY <1>2, <1>3

LEMMA FoldedStep ==
  ASSUME NEW s \in Seq(Int)
  PROVE  Folded(s) = Step(s, Folded(s))
<1> DEFINE Wrong == {k \in Nat : \A g : ~ Right(s, g, k)}
<1>1. Wrong = {}
  <2> SUFFICES ASSUME Wrong # {}
               PROVE  FALSE
    OBVIOUS
  <2>1. PICK k \in Wrong : \A l \in Wrong : k <= l
    BY LeastNatural
  <2>2. CASE k = 0
    <3> DEFINE g == [T \in SUBSET DOMAIN s |-> 0]
    <3>1. ASSUME NEW T \in SUBSET DOMAIN s, Cardinality(T) <= 0
          PROVE  g[T] = Step(s, g)[T]
      <4>1. IsFiniteSet(T) /\ Cardinality(T) \in Nat
        BY Positions
      <4>2. T = {}
        BY <3>1, <4>1, FS_EmptySet
      <4>. QED BY <4>2 DEF Step
    <3>2. Right(s, g, 0)
      BY <3>1 DEF Right
    <3>. QED BY <2>2, <3>2
  <2>3. CASE k # 0
    <3>1. k - 1 \in Nat /\ ~ (k <= k - 1) /\ (k - 1) + 1 = k
      BY <2>3
    <3>2. PICK g : Right(s, g, k - 1)
      BY <2>1, <3>1
    <3>3. Right(s, Step(s, g), k)
      BY <3>1, <3>2, RightStep
    <3>. QED BY <3>3
  <2>. QED BY <2>2, <2>3
<1>2. PICK g : Right(s, g, Len(s))
  <2>1. Len(s) \in Nat
    OBVIOUS
  <2>. QED BY <1>1, <2>1
<1>3. \A T \in SUBSET DOMAIN s : Step(s, g)[T] = Step(s, Step(s, g))[T]
  <2> SUFFICES ASSUME NEW T \in SUBSET DOMAIN s
               PROVE  Step(s, g)[T] = Step(s, Step(s, g))[T]
    OBVIOUS
  <2>1. Cardinality(T) \in Nat /\ Cardinality(T) <= Len(s) /\ Len(s) \in Nat
    BY Positions
  <2>2. Right(s, Step(s, g), Len(s) + 1)
    BY <1>2, RightStep
  <2>3. Cardinality(T) <= Len(s) + 1
    BY <2>1
  <2>. QED BY <2>2, <2>3 DEF Right
<1>4. \A h : DOMAIN Step(s, h) = SUBSET DOMAIN s
  BY DEF Step
<1>5. Step(s, g) = Step(s, Step(s, g))
  BY <1>3, <1>4 DEF Step
<1>. QED BY <1>5 DEF Folded

\* The number that the first k bytes of s are.
Upto(s, k) == Folded(s)[1..k]

\* The bytes before the last one weigh Base times as much as it.
LEMMA UptoNext ==
  ASSUME NEW s \in Seq(Int), NEW k \in Nat, NEW l \in Nat, l = k + 1, l <= Len(s)
  PROVE  Upto(s, l) = Upto(s, k) * Base + s[l]
<1>1. 1..l \in SUBSET DOMAIN s /\ 1..l # {}
  <2>1. Len(s) \in Nat /\ DOMAIN s = 1..Len(s)
    OBVIOUS
  <2>2. \A i \in 1..l : i \in 1..Len(s)
    BY <2>1
  <2>3. l \in 1..l
    OBVIOUS
  <2>. QED BY <2>1, <2>2, <2>3
<1>2. Max(1..l) = l /\ (1..l) \ {l} = 1..k
  <2>1. l \in 1..l /\ 1..l \in SUBSET (1..l)
    OBVIOUS
  <2>2. Max(1..l) \in 1..l /\ \A x \in 1..l : Max(1..l) >= x
    BY <1>1, <2>1, MaxOf
  <2>. QED BY <2>1, <2>2
<1>3. Folded(s)[1..l] = Step(s, Folded(s))[1..l]
  BY FoldedStep
<1>. QED BY <1>1, <1>2, <1>3 DEF Step, Upto

LEMMA UptoNone ==
  ASSUME NEW s \in Seq(Int)
  PROVE  Upto(s, 0) = 0
<1>1. 1..0 = {} /\ {} \in SUBSET DOMAIN s
  OBVIOUS
<1>2. Folded(s)[{}] = Step(s, Folded(s))[{}]
  BY FoldedStep
<1>. QED BY <1>1, <1>2 DEF Step, Upto

LEMMA UptoAll ==
  ASSUME NEW s \in Seq(Int)
  PROVE  Number(s) = Upto(s, Len(s))
<1>1. DOMAIN s = 1..Len(s)
  OBVIOUS
<1>. QED BY <1>1, NumberIsFolded DEF Upto

LEMMA NumberOfTwo ==
  ASSUME NEW s \in Seq(Int), Len(s) = 2
  PROVE  Number(s) = s[1] * Base + s[2]
<1>1. Number(s) = Upto(s, 2)
  BY UptoAll
<1>2. Upto(s, 2) = Upto(s, 1) * Base + s[2]
  <2>1. 2 = 1 + 1 /\ 2 <= Len(s)
    OBVIOUS
  <2>. QED BY <2>1, UptoNext
<1>3. Upto(s, 1) = Upto(s, 0) * Base + s[1]
  <2>1. 1 = 0 + 1 /\ 1 <= Len(s)
    OBVIOUS
  <2>. QED BY <2>1, UptoNext
<1>4. s[1] \in Int /\ 0 * Base = 0
  BY Bases
<1>5. Upto(s, 1) = s[1]
  BY <1>3, <1>4, UptoNone
<1>. QED BY <1>1, <1>2, <1>5

LEMMA NumberOfFour ==
  ASSUME NEW s \in Seq(Int), Len(s) = 4
  PROVE  Number(s) = ((s[1] * Base + s[2]) * Base + s[3]) * Base + s[4]
<1>1. Number(s) = Upto(s, 4)
  BY UptoAll
<1>2. Upto(s, 4) = Upto(s, 3) * Base + s[4]
  <2>1. 4 = 3 + 1 /\ 4 <= Len(s)
    OBVIOUS
  <2>. QED BY <2>1, UptoNext
<1>3. Upto(s, 3) = Upto(s, 2) * Base + s[3]
  <2>1. 3 = 2 + 1 /\ 3 <= Len(s)
    OBVIOUS
  <2>. QED BY <2>1, UptoNext
<1>4. Upto(s, 2) = Upto(s, 1) * Base + s[2]
  <2>1. 2 = 1 + 1 /\ 2 <= Len(s)
    OBVIOUS
  <2>. QED BY <2>1, UptoNext
<1>5. Upto(s, 1) = Upto(s, 0) * Base + s[1]
  <2>1. 1 = 0 + 1 /\ 1 <= Len(s)
    OBVIOUS
  <2>. QED BY <2>1, UptoNext
<1>6. s[1] \in Int /\ 0 * Base = 0
  BY Bases
<1>7. Upto(s, 1) = s[1]
  BY <1>5, <1>6, UptoNone
<1>. QED BY <1>1, <1>2, <1>3, <1>4, <1>7

-----------------------------------------------------------------------------
(* Words of two and of four bytes.                                         *)

LEMMA Limits ==
  /\ MaxU8 = Base - 1 /\ MaxU16 = Base * Base - 1 /\ MaxU32 = Base * Base * Base * Base - 1
  /\ Base \in Nat /\ Base >= 2
BY Bases DEF MaxU8, MaxU16, MaxU32

LEMMA BytesAreNumbers ==
  ASSUME NEW s \in Seq(Byte)
  PROVE  s \in Seq(Int) /\ \A i \in 1..Len(s) : s[i] \in 0..(Base - 1)
<1>1. Byte = 0..(Base - 1) /\ Byte \subseteq Int
  BY Limits DEF Byte
<1>2. s \in Seq(Int)
  BY <1>1, SeqMonotonic
<1>3. \A i \in 1..Len(s) : s[i] \in Byte
  BY ElementOfSeq
<1>. QED BY <1>1, <1>2, <1>3

\* Two digits, of which the upper may be any number.
LEMMA Digits ==
  ASSUME NEW a \in Nat, NEW b \in 0..(Base - 1)
  PROVE  (a * Base + b) \div Base = a /\ (a * Base + b) % Base = b
<1>1. Base = 2 \/ Base = 4 \/ Base = 8 \/ Base = 16 \/ Base = 32 \/ Base = 64 \/ Base = 128
      \/ Base = 256
  BY Bases
<1>. QED BY <1>1

LEMMA Divided ==
  ASSUME NEW v \in Nat
  PROVE  /\ v \div Base \in Nat /\ v % Base \in 0..(Base - 1)
         /\ v = (v \div Base) * Base + (v % Base)
<1>1. Base = 2 \/ Base = 4 \/ Base = 8 \/ Base = 16 \/ Base = 32 \/ Base = 64 \/ Base = 128
      \/ Base = 256
  BY Bases
<1>. QED BY <1>1

LEMMA OneDigit ==
  ASSUME NEW a \in 0..(Base - 1)
  PROVE  a % Base = a
<1>1. Base = 2 \/ Base = 4 \/ Base = 8 \/ Base = 16 \/ Base = 32 \/ Base = 64 \/ Base = 128
      \/ Base = 256
  BY Bases
<1>. QED BY <1>1

\* Four digits make a number that a word of four bytes has room for.
LEMMA FourDigits ==
  ASSUME NEW a \in 0..(Base - 1), NEW b \in 0..(Base - 1),
         NEW c \in 0..(Base - 1), NEW d \in 0..(Base - 1)
  PROVE  /\ a * Base + b \in Nat
         /\ (a * Base + b) * Base + c \in Nat
         /\ ((a * Base + b) * Base + c) * Base + d \in 0..MaxU32
<1>1. Base = 2 \/ Base = 4 \/ Base = 8 \/ Base = 16 \/ Base = 32 \/ Base = 64 \/ Base = 128
      \/ Base = 256
  BY Bases
<1>. QED BY <1>1, Limits

LEMMA PairsJoined ==
  ASSUME NEW S, NEW a \in S, NEW b \in S, NEW c \in S, NEW d \in S
  PROVE  <<a, b>> \o <<c, d>> = <<a, b, c, d>>
<1> DEFINE u == <<a, b>>
           v == <<c, d>>
           w == u \o v
<1>1. /\ u \in Seq(S) /\ Len(u) = 2 /\ u[1] = a /\ u[2] = b
      /\ v \in Seq(S) /\ Len(v) = 2 /\ v[1] = c /\ v[2] = d
  OBVIOUS
<1> HIDE DEF u, v
<1>2. /\ w \in Seq(S) /\ Len(w) = 4
      /\ \A i \in 1..4 : w[i] = IF i <= 2 THEN u[i] ELSE v[i - 2]
  <2>1. /\ w \in Seq(S) /\ Len(w) = Len(u) + Len(v)
        /\ \A i \in 1..(Len(u) + Len(v)) : w[i] = IF i <= Len(u) THEN u[i] ELSE v[i - Len(u)]
    BY <1>1, ConcatProperties
  <2> HIDE DEF w
  <2>. QED BY <1>1, <2>1
<1> HIDE DEF w
<1>3. w[1] = a /\ w[2] = b /\ w[3] = c /\ w[4] = d
  BY <1>1, <1>2
<1>4. w = <<w[1], w[2], w[3], w[4]>>
  BY <1>2
<1>5. w = <<a, b, c, d>>
  BY <1>3, <1>4
<1>. QED BY <1>5 DEF w, u, v

LEMMA TwoBytes ==
  ASSUME NEW s \in Seq(Byte), Len(s) = 2
  PROVE  s \in Seq(Int) /\ s[1] \in 0..(Base - 1) /\ s[2] \in 0..(Base - 1)
<1>1. 1 \in 1..Len(s) /\ 2 \in 1..Len(s)
  OBVIOUS
<1>. QED BY <1>1, BytesAreNumbers

LEMMA FourBytes ==
  ASSUME NEW s \in Seq(Byte), Len(s) = 4
  PROVE  /\ s \in Seq(Int) /\ s[1] \in 0..(Base - 1) /\ s[2] \in 0..(Base - 1)
         /\ s[3] \in 0..(Base - 1) /\ s[4] \in 0..(Base - 1)
<1>1. 1 \in 1..Len(s) /\ 2 \in 1..Len(s) /\ 3 \in 1..Len(s) /\ 4 \in 1..Len(s)
  OBVIOUS
<1>. QED BY <1>1, BytesAreNumbers

\* What U16() writes are two bytes, of which Number() reads what they hold.
LEMMA WordWritten ==
  ASSUME NEW v \in Nat
  PROVE  /\ U16(v) \in Seq(Byte) /\ Len(U16(v)) = 2
         /\ v <= MaxU16 => Number(U16(v)) = v
<1> DEFINE s == U16(v)
           q == v \div Base
<1>1. q \in Nat /\ q % Base \in 0..(Base - 1) /\ v % Base \in 0..(Base - 1)
  BY Divided
<1>2. s = <<q % Base, v % Base>>
  BY DEF U16
<1>3. s \in Seq(Byte) /\ Len(s) = 2 /\ s[1] = q % Base /\ s[2] = v % Base
  BY <1>1, <1>2, Limits DEF Byte
<1>4. ASSUME v <= MaxU16
      PROVE  Number(s) = v
  <2>1. q % Base = q
    <3>1. v < Base * Base
      BY <1>4, Limits
    <3>2. q < Base
      BY <3>1, Bases
    <3>. QED BY <1>1, <3>2, Bases
  <2>2. v = q * Base + (v % Base)
    BY Divided
  <2> HIDE DEF s, q
  <2>3. s \in Seq(Int)
    BY <1>3, BytesAreNumbers
  <2>4. Number(s) = s[1] * Base + s[2]
    BY <1>3, <2>3, NumberOfTwo
  <2>. QED BY <1>3, <2>1, <2>2, <2>4
<1>. QED BY <1>3, <1>4

\* What Number() reads of two bytes is a number that U16() writes as they were.
LEMMA WordRead ==
  ASSUME NEW s \in Seq(Byte), Len(s) = 2
  PROVE  Number(s) \in 0..MaxU16 /\ U16(Number(s)) = s
<1>1. s \in Seq(Int) /\ s[1] \in 0..(Base - 1) /\ s[2] \in 0..(Base - 1)
  BY TwoBytes
<1>2. Number(s) = s[1] * Base + s[2]
  BY <1>1, NumberOfTwo
<1>3. Number(s) \div Base = s[1] /\ Number(s) % Base = s[2]
  BY <1>1, <1>2, Digits
<1>4. Number(s) \in 0..MaxU16
  BY <1>1, <1>2, Limits, Bases
<1>5. s[1] % Base = s[1]
  BY <1>1, OneDigit
<1>6. s = <<s[1], s[2]>>
  OBVIOUS
<1>. QED BY <1>3, <1>4, <1>5, <1>6 DEF U16

\* U32() is four digits.
LEMMA LongDigits ==
  ASSUME NEW v \in Nat
  PROVE  LET q == v \div Base
             r == q \div Base
             t == r \div Base
         IN  U32(v) = <<t % Base, r % Base, q % Base, v % Base>>
<1> DEFINE q == v \div Base
           r == q \div Base
<1>1. Base^2 = Base * Base /\ v \div (Base * Base) = r
  BY Bases
<1>2. U16(v \div Base^2) = <<(r \div Base) % Base, r % Base>>
  BY <1>1 DEF U16
<1>3. U16(v) = <<q % Base, v % Base>>
  BY DEF U16
<1>4. U32(v) = U16(v \div Base^2) \o U16(v)
  BY DEF U32
<1> HIDE DEF q, r
<1>5. U32(v) = <<(r \div Base) % Base, r % Base, q % Base, v % Base>>
  <2>1. q \in Nat /\ r \in Nat /\ r \div Base \in Nat
    BY Divided DEF q, r
  <2>2. /\ (r \div Base) % Base \in Int /\ r % Base \in Int
        /\ q % Base \in Int /\ v % Base \in Int
    BY <2>1, Divided
  <2>3. <<(r \div Base) % Base, r % Base>> \o <<q % Base, v % Base>>
          = <<(r \div Base) % Base, r % Base, q % Base, v % Base>>
    BY <2>2, PairsJoined
  <2>. QED BY <1>2, <1>3, <1>4, <2>3, Zenon
<1>. QED BY <1>5 DEF q, r

LEMMA LongWritten ==
  ASSUME NEW v \in Nat
  PROVE  /\ U32(v) \in Seq(Byte) /\ Len(U32(v)) = 4
         /\ v <= MaxU32 => Number(U32(v)) = v
<1> DEFINE s == U32(v)
           q == v \div Base
           r == q \div Base
           t == r \div Base
<1>1. /\ q \in Nat /\ r \in Nat /\ t \in Nat
      /\ v % Base \in 0..(Base - 1) /\ q % Base \in 0..(Base - 1)
      /\ r % Base \in 0..(Base - 1) /\ t % Base \in 0..(Base - 1)
  BY Divided
<1>2. s = <<t % Base, r % Base, q % Base, v % Base>>
  BY LongDigits
<1>3. v = q * Base + (v % Base) /\ q = r * Base + (q % Base) /\ r = t * Base + (r % Base)
  BY <1>1, Divided
<1>4. v <= MaxU32 => t % Base = t
  <2> SUFFICES ASSUME v <= MaxU32
               PROVE  t % Base = t
    OBVIOUS
  <2>1. v < Base * Base * Base * Base
    BY Limits
  <2> HIDE DEF q, r, t
  <2>2. t < Base
    BY <1>1, <1>3, <2>1, Bases
  <2>. QED BY <1>1, <2>2, Bases
<1> HIDE DEF s, q, r, t
<1>5. /\ s \in Seq(Byte) /\ Len(s) = 4
      /\ s[1] = t % Base /\ s[2] = r % Base /\ s[3] = q % Base /\ s[4] = v % Base
  BY <1>1, <1>2, Limits DEF Byte
<1>6. ASSUME v <= MaxU32
      PROVE  Number(s) = v
  <2>1. s \in Seq(Int)
    BY <1>5, BytesAreNumbers
  <2>2. Number(s) = ((s[1] * Base + s[2]) * Base + s[3]) * Base + s[4]
    BY <1>5, <2>1, NumberOfFour
  <2>3. s[1] * Base + s[2] = r
    BY <1>3, <1>4, <1>5, <1>6
  <2>4. r * Base + s[3] = q /\ q * Base + s[4] = v
    BY <1>3, <1>5
  <2>. QED BY <2>2, <2>3, <2>4
<1>. QED BY <1>5, <1>6 DEF s

LEMMA LongRead ==
  ASSUME NEW s \in Seq(Byte), Len(s) = 4
  PROVE  Number(s) \in 0..MaxU32 /\ U32(Number(s)) = s
<1> DEFINE r == s[1] * Base + s[2]
           q == r * Base + s[3]
           v == q * Base + s[4]
<1>1. /\ s \in Seq(Int) /\ s[1] \in 0..(Base - 1) /\ s[2] \in 0..(Base - 1)
      /\ s[3] \in 0..(Base - 1) /\ s[4] \in 0..(Base - 1)
  BY FourBytes
<1>2. Number(s) = v
  BY <1>1, NumberOfFour
<1>3. r \in Nat /\ q \in Nat
  BY <1>1, FourDigits
<1>4. v \in 0..MaxU32 /\ v \in Nat
  BY <1>1, FourDigits
<1>5. r \div Base = s[1] /\ r % Base = s[2]
  BY <1>1, Digits
<1> HIDE DEF r
<1>6. q \div Base = r /\ q % Base = s[3]
  BY <1>1, <1>3, Digits
<1> HIDE DEF q
<1>7. v \div Base = q /\ v % Base = s[4]
  BY <1>1, <1>3, Digits
<1>8. s[1] % Base = s[1]
  BY <1>1, OneDigit
<1> HIDE DEF v
<1>9. U32(v) = <<s[1], s[2], s[3], s[4]>>
  BY <1>4, <1>5, <1>6, <1>7, <1>8, LongDigits
<1>10. s = <<s[1], s[2], s[3], s[4]>>
  OBVIOUS
<1>. QED BY <1>2, <1>4, <1>9, <1>10

-----------------------------------------------------------------------------
(* The blocks of a digest.                                                 *)

LEMMA DivisionExact ==
  ASSUME NEW b \in Nat \ {0}, NEW a \in Int
  PROVE  /\ a \div b \in Int /\ a % b \in 0..(b - 1)
         /\ a = (b * (a \div b)) + (a % b)
  BY SMT

LEMMA DivisionNat ==
  ASSUME NEW b \in Nat \ {0}, NEW a \in Nat
  PROVE  a \div b \in Nat
<1> DEFINE d == a \div b
           r == a % b
<1>1. d \in Int /\ r \in 0..(b - 1) /\ b * d + r = a
  BY DivisionExact
<1> HIDE DEF d, r
<1>2. CASE d <= -1
  <2>1. b * d <= b * (-1)
    BY <1>1, <1>2
  <2>. QED BY <1>1, <2>1
<1>. QED BY <1>1, <1>2 DEF d

LEMMA WholeMultiple ==
  ASSUME NEW b \in Nat \ {0}, NEW q \in Int
  PROVE  (b * q) % b = 0
<1>1. 0 \in 0..(b - 1) /\ b * q + 0 = b * q
  OBVIOUS
<1>2. ASSUME NEW r \in 0..(b - 1)
      PROVE  (b * q + r) % b = r
  BY SMT
<1>3. (b * q + 0) % b = 0
  BY <1>1, <1>2
<1>. QED BY <1>1, <1>3

LEMMA Joined ==
  ASSUME NEW u \in Seq(Byte), NEW v \in Seq(Byte)
  PROVE  u \o v \in Seq(Byte) /\ Len(u \o v) = Len(u) + Len(v) /\ Len(u) \in Nat /\ Len(v) \in Nat
BY ConcatProperties

\* The length of a message takes eight bytes, whatever it is.
LEMMA EightBytes ==
  ASSUME NEW v \in Nat
  PROVE  /\ U64(v) \in Seq(Byte) /\ Len(U64(v)) = 8
         /\ Reverse(U64(v)) \in Seq(Byte) /\ Len(Reverse(U64(v))) = 8
<1> DEFINE w == U64(v)
<1>1. v \div Base^4 \in Nat
  <2>1. Base^4 \in Nat \ {0}
    BY Bases
  <2>. QED BY <2>1, DivisionNat
<1>2. w = U32(v \div Base^4) \o U32(v)
  BY DEF U64
<1>3. w \in Seq(Byte) /\ Len(w) = 8
  <2> DEFINE upper == U32(v \div Base^4)
             lower == U32(v)
  <2>1. lower \in Seq(Byte) /\ Len(lower) = 4 /\ upper \in Seq(Byte) /\ Len(upper) = 4
    BY <1>1, LongWritten
  <2>2. w = upper \o lower
    BY <1>2
  <2> HIDE DEF w, upper, lower
  <2>3. w \in Seq(Byte) /\ Len(w) = Len(upper) + Len(lower)
    BY <2>1, <2>2, Joined
  <2>. QED BY <2>1, <2>3
<1> HIDE DEF w
<1>4. Reverse(w) = [i \in 1..8 |-> w[(8 - i) + 1]]
  BY <1>3 DEF Reverse
<1>5. \A i \in 1..8 : w[(8 - i) + 1] \in Byte
  <2>1. \A j \in 1..Len(w) : w[j] \in Byte
    BY <1>3, ElementOfSeq
  <2>2. \A i \in 1..8 : (8 - i) + 1 \in 1..8
    OBVIOUS
  <2>. QED BY <1>3, <2>1, <2>2
<1>. QED BY <1>3, <1>4, <1>5 DEF w

LEMMA ZerosTyped ==
  ASSUME NEW n \in Nat
  PROVE  Zeros(n) \in Seq(Byte) /\ Len(Zeros(n)) = n
BY Limits DEF Zeros, Byte

\* The mark and the zeros leave room for the length and fill the block with it.
LEMMA MarkedLength ==
  ASSUME NEW message \in Seq(Byte)
  PROVE  /\ Marked(message) \in Seq(Byte)
         /\ (Len(Marked(message)) + 8) % BlockSize = 0
         /\ Len(Marked(message)) + 8 - BlockSize < Len(message) + 9
<1> DEFINE n == Len(message)
           b == BlockSize
           left == n % b
           q == n \div b
           zeros == b - 9 - left + IF left + 1 > b - 8 THEN b ELSE 0
           mark == <<Base \div 2>>
           blocks == IF left + 1 > b - 8 THEN q + 2 ELSE q + 1
<1>1. b \in Nat \ {0} /\ b > 8 /\ n \in Nat
  BY BlockAssumption
<1>2. left \in 0..(b - 1) /\ q \in Int /\ n = (b * q) + left
  BY <1>1, DivisionExact
<1> HIDE DEF n, b, left, q
<1>3. zeros \in Nat /\ blocks \in Int
  BY <1>1, <1>2
<1>4. n + 1 + zeros + 8 = b * blocks
  <2>1. b * (q + 1) = b * q + b /\ b * (q + 2) = b * q + b + b
    BY <1>1, <1>2
  <2>. QED BY <1>1, <1>2, <2>1
<1>5. n + 1 + zeros + 8 - b < n + 9
  BY <1>1, <1>2
<1>6. mark \in Seq(Byte) /\ Len(mark) = 1
  <2>1. Base \div 2 \in Byte
    BY Bases, Limits DEF Byte
  <2>. QED BY <2>1
<1> HIDE DEF mark, zeros, blocks
<1>7. Marked(message) = message \o mark \o Zeros(zeros)
  BY DEF Marked, ZerosAfter, mark, zeros, left, n, b
<1>8. message \o mark \in Seq(Byte) /\ Len(message \o mark) = n + 1
  BY <1>6, Joined DEF n
<1>9. Zeros(zeros) \in Seq(Byte) /\ Len(Zeros(zeros)) = zeros
  BY <1>3, ZerosTyped
<1>10. Marked(message) \in Seq(Byte) /\ Len(Marked(message)) = n + 1 + zeros
  BY <1>7, <1>8, <1>9, Joined
<1>11. (b * blocks) % b = 0
  BY <1>1, <1>3, WholeMultiple
<1>. QED BY <1>4, <1>5, <1>10, <1>11 DEF n, b

\* Of both algorithms, and of every message.
LEMMA PaddedToBlocks ==
  ASSUME NEW message \in Seq(Byte),
         NEW padded, padded = Md5Blocks(message) \/ padded = Sha1Blocks(message)
  PROVE  /\ Len(padded) % BlockSize = 0
         /\ Len(padded) - BlockSize < Len(message) + 9
<1> DEFINE length == BitLength(message)
<1>1. length \in Nat
  <2>1. ByteBits \in 1..8
    BY BaseAssumption DEF ByteBits
  <2>2. Len(message) \in Nat
    OBVIOUS
  <2>. QED BY <2>1, <2>2 DEF BitLength
<1> HIDE DEF length
<1>2. \E tail \in Seq(Byte) : Len(tail) = 8 /\ padded = Marked(message) \o tail
  BY <1>1, EightBytes DEF Md5Blocks, Sha1Blocks, length
<1> DEFINE n == Len(padded)
           m == Len(Marked(message))
<1>3. n = m + 8 /\ m \in Nat
  BY <1>2, MarkedLength, Joined
<1>4. (m + 8) % BlockSize = 0 /\ m + 8 - BlockSize < Len(message) + 9
  BY MarkedLength
<1> HIDE DEF n, m
<1>5. n % BlockSize = 0 /\ n - BlockSize < Len(message) + 9
  BY <1>3, <1>4, BlockAssumption
<1>. QED BY <1>5 DEF n

-----------------------------------------------------------------------------
(* A message on its way.                                                   *)

(* What the decoder is given of any message is its encoding until the way  *)
(* damages it, and what it returned was returned for these very bytes.     *)
OneMessage ==
  /\ sample \in Samples
  /\ damage \in {"unsent", "refused"} => got = NotYet
  /\ damage = "none" => Encode(kind, value).ok /\ bytes = Encode(kind, value).value
  /\ got # NotYet => got = Decode(kind, bytes)

LEMMA NotYetIs == ~ NotYet.ok
BY DEF NotYet, Fail

LEMMA InitMessage == Init => OneMessage
BY Zenon DEF Init, OneMessage

LEMMA StepMessage == OneMessage /\ [Next]_vars => OneMessage'
<1> SUFFICES ASSUME OneMessage, [Next]_vars
             PROVE  OneMessage'
  OBVIOUS
<1>1. sample' = sample
  BY DEF Next, Send, Receive, Change, Grow, Cut, vars
<1>2. kind' = kind /\ value' = value
  BY <1>1 DEF kind, value
<1>3. CASE Send
  <2> DEFINE e == Encode(kind, value)
  <2>1. /\ damage' = IF e.ok THEN "none" ELSE "refused"
        /\ bytes' = IF e.ok THEN e.value ELSE << >>
        /\ got' = got /\ got = NotYet
    BY <1>3 DEF Send, OneMessage
  <2> HIDE DEF e
  <2>2. damage' = "none" => e.ok /\ bytes' = e.value
    BY <2>1
  <2>. QED BY <1>1, <1>2, <2>1, <2>2 DEF OneMessage, NotYet, e
<1>4. CASE Receive
  <2>1. /\ got' = Decode(kind, bytes) /\ bytes' = bytes /\ damage' = damage
        /\ damage \notin {"unsent", "refused"}
    BY <1>4 DEF Receive, OnItsWay
  <2>. QED BY <1>1, <1>2, <2>1 DEF OneMessage, NotYet
<1>5. CASE Change
  <2>1. got' = NotYet /\ damage' = "changed"
    BY <1>5 DEF Change, OnItsWay
  <2>. QED BY <1>1, <2>1 DEF OneMessage, NotYet
<1>6. CASE Grow
  <2>1. got' = NotYet /\ damage' = "grown"
    BY <1>6 DEF Grow, OnItsWay
  <2>. QED BY <1>1, <2>1 DEF OneMessage, NotYet
<1>7. CASE Cut
  <2>1. got' = NotYet /\ damage' = "cut"
    BY <1>7 DEF Cut
  <2>. QED BY <1>1, <2>1 DEF OneMessage, NotYet
<1>8. CASE UNCHANGED vars
  BY <1>1, <1>2, <1>8 DEF vars, OneMessage, NotYet
<1>. QED BY <1>3, <1>4, <1>5, <1>6, <1>7, <1>8 DEF Next

LEMMA MessageOnItsWay == Spec => []OneMessage
BY InitMessage, StepMessage, PTL DEF Spec

\* What came back whole was decoded from what was encoded.
LEMMA CameBack ==
  ASSUME OneMessage, damage = "none", got # NotYet
  PROVE  Encode(kind, value).ok /\ got = Decode(kind, Encode(kind, value).value)
BY DEF OneMessage

\* A digest is taken of as few blocks as hold the message, the mark and the
\* length (md5.cpp, sha1.cpp), for every length of the message and every size
\* of block that has room for them.
THEOREM DigestsPadToFewestBlocks == Spec => []FewestBlocks
<1>1. OneMessage => FewestBlocks
  <2> SUFFICES ASSUME OneMessage, kind \in {"md5", "sha1"}, damage = "none"
               PROVE  /\ Len(bytes) % BlockSize = 0
                      /\ Len(bytes) - BlockSize < Len(value) + 9
    BY DEF FewestBlocks, Digested
  <2>1. value \in Seq(Byte)
    <3>1. value \in Holds(kind)
      BY HoldsAssumption, Zenon DEF OneMessage, kind, value
    <3>2. Holds(kind) = Digestible
      BY DEF Holds
    <3>. QED BY <3>1, <3>2 DEF Digestible
  <2>2. bytes = Md5Blocks(value) \/ bytes = Sha1Blocks(value)
    <3>1. CASE kind = "md5"
      BY <3>1 DEF OneMessage, Encode, Good
    <3>2. CASE kind = "sha1"
      BY <3>2 DEF OneMessage, Encode, Good
    <3>. QED BY <3>1, <3>2
  <2>. QED BY <2>1, <2>2, PaddedToBlocks
<1>. QED BY MessageOnItsWay, <1>1, PTL

-----------------------------------------------------------------------------
(* What an entry of an archive is expanded to.                             *)

LEMMA DecompressedWhole ==
  ASSUME NEW entry, NEW success \in BOOLEAN, NEW held \in Seq(Byte),
         NEW inflated, inflated = [ok |-> success, bytes |-> held],
         Decompress(entry, inflated).ok
  PROVE  /\ Decompress(entry, inflated).value \in {entry.payload, inflated.bytes}
         /\ Len(Decompress(entry, inflated).value) = entry.decompressed_size
<1> DEFINE out == Decompress(entry, inflated)
           size == entry.decompressed_size
<1>1. CASE entry.compression_type = RawTag
  <2>1. Len(entry.payload) = size /\ out = Good(entry.payload)
    BY <1>1 DEF Decompress, Fail
  <2>. QED BY <2>1 DEF Good
<1>2. CASE entry.compression_type # RawTag
  <2>1. FullyInflated(inflated, size)
        /\ out = Good(inflated.bytes \o Zeros(size - Len(inflated.bytes)))
    BY <1>2 DEF Decompress, Fail
  <2>2. inflated.bytes = held /\ Len(held) = size /\ Len(held) \in Nat
    BY <2>1 DEF FullyInflated
  <2>3. size - Len(held) = 0
    BY <2>2
  <2>4. Zeros(0) = <<>>
    BY DEF Zeros
  <2>5. held \o <<>> = held
    BY ConcatEmptySeq
  <2>6. out = Good(held)
    BY <2>1, <2>2, <2>3, <2>4, <2>5
  <2>. QED BY <2>2, <2>6 DEF Good
<1>. QED BY <1>1, <1>2

\* decompress_archive_entry() makes up nothing: what it returns for an entry
\* is what the payload holds or what zlib made of it, and of the size that the
\* entry says, whatever archive was read and however much zlib inflated.
THEOREM NothingIsMadeUp == Spec => []NothingMadeUp
<1>1. NothingMadeUp
  <2> SUFFICES ASSUME NEW i \in 1..Len(got.value.entries), NEW success \in BOOLEAN,
                      NEW n \in 0..Len(Inflatable)
               PROVE  LET entry    == got.value.entries[i]
                          inflated == [ok |-> success, bytes |-> First(Inflatable, n)]
                          out      == Decompress(entry, inflated)
                      IN  n <= entry.decompressed_size /\ out.ok =>
                            /\ out.value \in {entry.payload, inflated.bytes}
                            /\ Len(out.value) = entry.decompressed_size
    BY DEF NothingMadeUp
  <2> DEFINE entry    == got.value.entries[i]
             held     == First(Inflatable, n)
             inflated == [ok |-> success, bytes |-> held]
  <2>1. held \in Seq(Byte)
    <3>1. Inflatable \in Seq(Byte) /\ n \in Int /\ 1 \in Int
      BY InflatableAssumption DEF Byte
    <3>2. \A j \in 1..n : Inflatable[j] \in Byte
      BY <3>1
    <3>. QED BY <3>1, <3>2, SubSeqProperties DEF First
  <2> HIDE DEF entry, held
  <2>2. Decompress(entry, inflated).ok =>
          /\ Decompress(entry, inflated).value \in {entry.payload, inflated.bytes}
          /\ Len(Decompress(entry, inflated).value) = entry.decompressed_size
    BY <2>1, DecompressedWhole
  <2>. QED BY <2>2 DEF entry, held
<1>. QED BY <1>1, PTL

-----------------------------------------------------------------------------
(* Parts of a run of bytes.                                                *)

LEMMA Part ==
  ASSUME NEW s \in Seq(Byte), NEW o \in Nat, NEW n \in Nat, o + n <= Len(s)
  PROVE  /\ At(s, o, n) \in Seq(Byte) /\ Len(At(s, o, n)) = n
         /\ \A i \in 1..n : At(s, o, n)[i] = s[o + i]
<1>1. \A i \in (o + 1)..(o + n) : s[i] \in Byte
  <2>1. \A i \in 1..Len(s) : s[i] \in Byte
    BY ElementOfSeq
  <2>2. Len(s) \in Nat
    OBVIOUS
  <2>. QED BY <2>1, <2>2
<1> DEFINE m == o + 1
           k == o + n
<1>2. m \in Int /\ k \in Int
  OBVIOUS
<1>3. /\ At(s, o, n) \in Seq(Byte)
      /\ Len(At(s, o, n)) = IF m <= k THEN k - m + 1 ELSE 0
      /\ \A i \in 1..(k - m + 1) : At(s, o, n)[i] = s[m + i - 1]
  BY <1>1, <1>2, SubSeqProperties DEF At
<1>4. k - m + 1 = n /\ (m <= k <=> n > 0) /\ \A i \in 1..n : m + i - 1 = o + i
  OBVIOUS
<1> HIDE DEF m, k
<1>. QED BY <1>3, <1>4

LEMMA SameRun ==
  ASSUME NEW s \in Seq(Byte), NEW t \in Seq(Byte), Len(s) = Len(t),
         \A i \in 1..Len(s) : s[i] = t[i]
  PROVE  s = t
OBVIOUS

LEMMA PartsMeet ==
  ASSUME NEW s \in Seq(Byte), NEW o \in Nat, NEW n \in Nat, NEW l \in Nat,
         o + n = l, l <= Len(s)
  PROVE  At(s, 0, o) \o At(s, o, n) = At(s, 0, l)
<1>1. Len(s) \in Nat
  OBVIOUS
<1>2. 1 \in 1..Len(s) + 1 /\ o \in (1 - 1)..Len(s) /\ l \in o..Len(s)
  BY <1>1
<1>3. SubSeq(s, 1, o) \o SubSeq(s, o + 1, l) = SubSeq(s, 1, l)
  BY <1>2, ConcatAdjacentSubSeq
<1>4. 0 + 1 = 1 /\ 0 + o = o /\ 0 + l = l
  OBVIOUS
<1>. QED BY <1>3, <1>4 DEF At

LEMMA AllOfIt ==
  ASSUME NEW s \in Seq(Byte)
  PROVE  At(s, 0, Len(s)) = s
<1>1. 0 + 1 = 1 /\ 0 + Len(s) = Len(s)
  OBVIOUS
<1>. QED BY <1>1, SubSeqFull DEF At

\* w begins with u.
Continues(w, u) ==
  \A o \in Nat, n \in Nat : o + n <= Len(u) => At(w, o, n) = At(u, o, n)

LEMMA Appended ==
  ASSUME NEW u \in Seq(Byte), NEW v \in Seq(Byte), NEW w, w = u \o v
  PROVE  /\ w \in Seq(Byte) /\ Len(w) = Len(u) + Len(v)
         /\ At(w, Len(u), Len(v)) = v /\ Continues(w, u)
<1>1. /\ w \in Seq(Byte) /\ Len(w) = Len(u) + Len(v) /\ Len(u) \in Nat /\ Len(v) \in Nat
      /\ \A i \in 1..Len(u) + Len(v) : w[i] = IF i <= Len(u) THEN u[i] ELSE v[i - Len(u)]
  BY ConcatProperties
<1>2. At(w, Len(u), Len(v)) = v
  <2> DEFINE x == At(w, Len(u), Len(v))
  <2> DEFINE o == Len(u)
             n == Len(v)
  <2>5. o \in Nat /\ n \in Nat /\ o + n <= Len(w)
    BY <1>1
  <2> HIDE DEF o, n
  <2>1. At(w, o, n) \in Seq(Byte) /\ Len(At(w, o, n)) = n
        /\ \A i \in 1..n : At(w, o, n)[i] = w[o + i]
    BY <1>1, <2>5, Part
  <2>2. \A i \in 1..n : x[i] = v[i]
    <3>1. \A i \in 1..n : o + i \in 1..(o + n) /\ ~ (o + i <= o) /\ (o + i) - o = i
      BY <2>5
    <3>2. \A i \in 1..n : w[o + i] = v[i]
      BY <1>1, <3>1 DEF o, n
    <3>. QED BY <2>1, <3>2 DEF o, n
  <2>4. x \in Seq(Byte) /\ Len(x) = Len(v)
    BY <2>1 DEF o, n
  <2> HIDE DEF x
  <2>3. x = v
    BY <2>2, <2>4, SameRun DEF n
  <2>. QED BY <2>3 DEF x
<1>3. Continues(w, u)
  <2> SUFFICES ASSUME NEW o \in Nat, NEW n \in Nat, o + n <= Len(u)
               PROVE  At(w, o, n) = At(u, o, n)
    BY DEF Continues
  <2> DEFINE x == At(w, o, n)
             y == At(u, o, n)
  <2>6. o + n <= Len(w)
    BY <1>1
  <2>1. x \in Seq(Byte) /\ Len(x) = n /\ \A i \in 1..n : x[i] = w[o + i]
    BY <1>1, <2>6, Part
  <2>2. y \in Seq(Byte) /\ Len(y) = n /\ \A i \in 1..n : y[i] = u[o + i]
    BY <1>1, Part
  <2>3. \A i \in 1..n : x[i] = y[i]
    <3>1. \A i \in 1..n : o + i \in 1..Len(u) + Len(v) /\ o + i <= Len(u)
      BY <1>1
    <3>2. \A i \in 1..n : w[o + i] = u[o + i]
      BY <1>1, <3>1
    <3>. QED BY <2>1, <2>2, <3>2
  <2> HIDE DEF x, y
  <2>4. x = y
    BY <2>1, <2>2, <2>3, SameRun
  <2>. QED BY <2>4 DEF x, y
<1>. QED BY <1>1, <1>2, <1>3

LEMMA WordAppended ==
  ASSUME NEW u \in Seq(Byte), NEW v \in Word
  PROVE  /\ u \o U16(v) \in Seq(Byte) /\ Len(u \o U16(v)) = Len(u) + 2
         /\ Read(u \o U16(v), Len(u), 2) = v /\ Continues(u \o U16(v), u)
<1>1. v \in Nat /\ v <= MaxU16
  BY Limits DEF Word
<1> DEFINE x == U16(v)
           w == u \o x
<1>2. x \in Seq(Byte) /\ Len(x) = 2 /\ Number(x) = v
  BY <1>1, WordWritten
<1> HIDE DEF x
<1>3. w \in Seq(Byte) /\ Len(w) = Len(u) + Len(x) /\ At(w, Len(u), Len(x)) = x /\ Continues(w, u)
  BY <1>2, Appended
<1> HIDE DEF w
<1>4. w \in Seq(Byte) /\ Len(w) = Len(u) + 2 /\ Read(w, Len(u), 2) = v /\ Continues(w, u)
  BY <1>2, <1>3 DEF Read
<1>. QED BY <1>4 DEF w, x

LEMMA LongAppended ==
  ASSUME NEW u \in Seq(Byte), NEW v \in Long
  PROVE  /\ u \o U32(v) \in Seq(Byte) /\ Len(u \o U32(v)) = Len(u) + 4
         /\ Read(u \o U32(v), Len(u), 4) = v /\ Continues(u \o U32(v), u)
<1>1. v \in Nat /\ v <= MaxU32
  BY Limits DEF Long
<1> DEFINE x == U32(v)
           w == u \o x
<1>2. x \in Seq(Byte) /\ Len(x) = 4 /\ Number(x) = v
  BY <1>1, LongWritten
<1> HIDE DEF x
<1>3. w \in Seq(Byte) /\ Len(w) = Len(u) + Len(x) /\ At(w, Len(u), Len(x)) = x /\ Continues(w, u)
  BY <1>2, Appended
<1> HIDE DEF w
<1>4. w \in Seq(Byte) /\ Len(w) = Len(u) + 4 /\ Read(w, Len(u), 4) = v /\ Continues(w, u)
  BY <1>2, <1>3 DEF Read
<1>. QED BY <1>4 DEF w, x

\* The first number of a record.
LEMMA WordFirst ==
  ASSUME NEW v \in Word
  PROVE  U16(v) \in Seq(Byte) /\ Len(U16(v)) = 2 /\ Read(U16(v), 0, 2) = v
<1>1. v \in Nat /\ v <= MaxU16
  BY Limits DEF Word
<1>2. U16(v) \in Seq(Byte) /\ Len(U16(v)) = 2 /\ Number(U16(v)) = v
  BY <1>1, WordWritten
<1>3. At(U16(v), 0, 2) = U16(v)
  BY <1>2, AllOfIt
<1>. QED BY <1>2, <1>3 DEF Read

LEMMA LongFirst ==
  ASSUME NEW v \in Long
  PROVE  U32(v) \in Seq(Byte) /\ Len(U32(v)) = 4 /\ Read(U32(v), 0, 4) = v
<1>1. v \in Nat /\ v <= MaxU32
  BY Limits DEF Long
<1>2. U32(v) \in Seq(Byte) /\ Len(U32(v)) = 4 /\ Number(U32(v)) = v
  BY <1>1, LongWritten
<1>3. At(U32(v), 0, 4) = U32(v)
  BY <1>2, AllOfIt
<1>. QED BY <1>2, <1>3 DEF Read

\* The offsets in a record.
LEMMA Offsets ==
  /\ 0 \in Nat /\ 2 \in Nat /\ 4 \in Nat /\ 6 \in Nat /\ 8 \in Nat /\ 10 \in Nat
  /\ 12 \in Nat /\ 16 \in Nat /\ 18 \in Nat /\ 20 \in Nat /\ 16 + 2 = 18 /\ 18 + 2 = 20
  /\ 0 + 2 = 2 /\ 2 + 2 = 4 /\ 4 + 2 = 6 /\ 6 + 2 = 8 /\ 8 + 2 = 10 /\ 10 + 2 = 12
  /\ 0 + 4 = 4 /\ 4 + 4 = 8 /\ 8 + 4 = 12 /\ 12 + 4 = 16 /\ 16 + 4 = 20
OBVIOUS

\* What is read of a record is written as it was.
LEMMA WordBack ==
  ASSUME NEW s \in Seq(Byte), NEW o \in Nat, NEW l \in Nat, o + 2 = l, l <= Len(s)
  PROVE  /\ Read(s, o, 2) \in Word /\ U16(Read(s, o, 2)) = At(s, o, 2)
         /\ At(s, 0, o) \o U16(Read(s, o, 2)) = At(s, 0, l)
<1>1. At(s, o, 2) \in Seq(Byte) /\ Len(At(s, o, 2)) = 2
  <2>1. 2 \in Nat /\ o + 2 <= Len(s)
    OBVIOUS
  <2>. QED BY <2>1, Part
<1>2. Read(s, o, 2) \in Word /\ U16(Read(s, o, 2)) = At(s, o, 2)
  BY <1>1, WordRead DEF Read, Word
<1>3. At(s, 0, o) \o At(s, o, 2) = At(s, 0, l)
  BY PartsMeet
<1>. QED BY <1>2, <1>3

LEMMA LongBack ==
  ASSUME NEW s \in Seq(Byte), NEW o \in Nat, NEW l \in Nat, o + 4 = l, l <= Len(s)
  PROVE  /\ Read(s, o, 4) \in Long /\ U32(Read(s, o, 4)) = At(s, o, 4)
         /\ At(s, 0, o) \o U32(Read(s, o, 4)) = At(s, 0, l)
<1>1. At(s, o, 4) \in Seq(Byte) /\ Len(At(s, o, 4)) = 4
  <2>1. 4 \in Nat /\ o + 4 <= Len(s)
    OBVIOUS
  <2>. QED BY <2>1, Part
<1>2. Read(s, o, 4) \in Long /\ U32(Read(s, o, 4)) = At(s, o, 4)
  BY <1>1, LongRead DEF Read, Long
<1>3. At(s, 0, o) \o At(s, o, 4) = At(s, 0, l)
  BY PartsMeet
<1>. QED BY <1>2, <1>3

-----------------------------------------------------------------------------
(* A kind of message is faithful when a decoder reads what the encoder     *)
(* wrote, what it reads is written to the very same bytes, and less than   *)
(* a whole message is none.                                                *)
Written(k) ==
  \A v \in Holds(k) :
    Encode(k, v).ok =>
      /\ Encode(k, v).value \in Seq(Byte)
      /\ Decode(k, Encode(k, v).value) = Good(v)

Understood(k) ==
  \A s \in Seq(Byte) : Decode(k, s).ok => Encode(k, Decode(k, s).value) = Good(s)

Ended(k) ==
  \A s \in Seq(Byte), n \in Nat :
    n < Len(s) /\ Decode(k, s).ok => ~ Decode(k, First(s, n)).ok

Faithful(k) == Written(k) /\ Understood(k) /\ Ended(k)

\* What is left of a run of bytes that was cut.
LEMMA Shorter ==
  ASSUME NEW s \in Seq(Byte), NEW n \in Nat, n < Len(s)
  PROVE  /\ First(s, n) \in Seq(Byte) /\ Len(First(s, n)) = n /\ Continues(s, First(s, n))
<1>1. First(s, n) = At(s, 0, n)
  <2>1. 0 + 1 = 1 /\ 0 + n = n
    OBVIOUS
  <2>. QED BY <2>1 DEF First, At
<1>2. At(s, 0, n) \in Seq(Byte) /\ Len(At(s, 0, n)) = n /\ \A i \in 1..n : At(s, 0, n)[i] = s[i]
  <2>1. 0 \in Nat /\ 0 + n <= Len(s) /\ \A i \in 1..n : 0 + i = i
    OBVIOUS
  <2>. QED BY <2>1, Part
<1> DEFINE u == First(s, n)
<1>3. u \in Seq(Byte) /\ Len(u) = n /\ \A i \in 1..n : u[i] = s[i]
  BY <1>1, <1>2
<1> HIDE DEF u
<1>4. Continues(s, u)
  <2> SUFFICES ASSUME NEW o \in Nat, NEW m \in Nat, o + m <= n
               PROVE  At(s, o, m) = At(u, o, m)
    BY <1>3 DEF Continues
  <2> DEFINE x == At(s, o, m)
             y == At(u, o, m)
  <2>1. o + m <= Len(s) /\ o + m <= Len(u)
    BY <1>3
  <2>2. x \in Seq(Byte) /\ Len(x) = m /\ \A i \in 1..m : x[i] = s[o + i]
    BY <2>1, Part
  <2>3. y \in Seq(Byte) /\ Len(y) = m /\ \A i \in 1..m : y[i] = u[o + i]
    BY <1>3, <2>1, Part
  <2>4. \A i \in 1..m : x[i] = y[i]
    <3>1. \A i \in 1..m : o + i \in 1..n
      OBVIOUS
    <3>2. \A i \in 1..m : u[o + i] = s[o + i]
      BY <1>3, <3>1
    <3>. QED BY <2>2, <2>3, <3>2
  <2> HIDE DEF x, y
  <2>5. x = y
    BY <2>2, <2>3, <2>4, SameRun
  <2>. QED BY <2>5 DEF x, y
<1>. QED BY <1>3, <1>4 DEF u

\* A decoder that takes exactly so many bytes takes no fewer.
LEMMA EndedBySize ==
  ASSUME NEW k, NEW size, \A s \in Seq(Byte) : Decode(k, s).ok => Len(s) = size
  PROVE  Ended(k)
<1> SUFFICES ASSUME NEW s \in Seq(Byte), NEW n \in Nat, n < Len(s),
                    Decode(k, s).ok, Decode(k, First(s, n)).ok
             PROVE  FALSE
  BY DEF Ended
<1>1. Len(s) = size /\ Len(First(s, n)) = size
  BY Shorter
<1>. QED BY <1>1, Shorter

LEMMA GoodIs ==
  ASSUME NEW v
  PROVE  Good(v).ok /\ Good(v).value = v
BY DEF Good

LEMMA ExactlyIs ==
  ASSUME NEW s \in Seq(Byte), NEW size \in Nat
  PROVE  /\ Exactly(s, size).ok <=> Len(s) = size
         /\ Len(s) = size => Exactly(s, size) = Good(s)
BY DEF Exactly, Good, Truncated, Fail

LEMMA RunAppended ==
  ASSUME NEW u \in Seq(Byte), NEW v \in Seq(Byte), NEW n, Len(v) = n
  PROVE  /\ u \o v \in Seq(Byte) /\ Len(u \o v) = Len(u) + n
         /\ At(u \o v, Len(u), n) = v /\ Continues(u \o v, u)
BY Appended

LEMMA SixBytes ==
  ASSUME NEW f \in [1..6 -> Byte]
  PROVE  f \in Seq(Byte) /\ Len(f) = 6
<1> DEFINE g == [i \in 1..6 |-> f[i]]
<1>1. g \in Seq(Byte) /\ Len(g) = 6
  OBVIOUS
<1>2. f = g
  OBVIOUS
<1> HIDE DEF g
<1>. QED BY <1>1, <1>2

LEMMA HelloWritten ==
  ASSUME NEW h \in ClientHandshake
  PROVE  LET w == EncodeClientHandshake(h)
         IN  /\ w \in Seq(Byte) /\ Len(w) = 12
             /\ Read(w, 0, 4) = h.protocol
             /\ Read(w, 4, 4) = h.sub_protocol
             /\ Read(w, 8, 2) = h.version
             /\ Read(w, 10, 2) = h.sub_version
<1> DEFINE u1 == U32(h.protocol)
           u2 == u1 \o U32(h.sub_protocol)
           u3 == u2 \o U16(h.version)
           u4 == u3 \o U16(h.sub_version)
<1>0. /\ h.protocol \in Long /\ h.sub_protocol \in Long /\ h.version \in Word
      /\ h.sub_version \in Word
  BY DEF ClientHandshake
<1>1. u1 \in Seq(Byte) /\ Len(u1) = 4 /\ Read(u1, 0, 4) = h.protocol
  BY <1>0, LongFirst
<1> HIDE DEF u1
<1>2. /\ u2 \in Seq(Byte) /\ Len(u2) = Len(u1) + 4
      /\ Read(u2, Len(u1), 4) = h.sub_protocol /\ Continues(u2, u1)
  BY <1>0, <1>1, LongAppended, Zenon
<1> HIDE DEF u2
<1>3. /\ u3 \in Seq(Byte) /\ Len(u3) = Len(u2) + 2
      /\ Read(u3, Len(u2), 2) = h.version /\ Continues(u3, u2)
  BY <1>0, <1>2, WordAppended, Zenon
<1> HIDE DEF u3
<1>4. /\ u4 \in Seq(Byte) /\ Len(u4) = Len(u3) + 2
      /\ Read(u4, Len(u3), 2) = h.sub_version /\ Continues(u4, u3)
  BY <1>0, <1>3, WordAppended, Zenon
<1> HIDE DEF u4
<1>5. Len(u2) = 8 /\ Len(u3) = 10 /\ Len(u4) = 12
  BY <1>1, <1>2, <1>3, <1>4
<1>6. /\ Read(u4, 0, 4) = h.protocol
      /\ Read(u4, 4, 4) = h.sub_protocol
      /\ Read(u4, 8, 2) = h.version
      /\ Read(u4, 10, 2) = h.sub_version
  <2>1. /\ Read(u2, 0, 4) = h.protocol
        /\ Read(u2, 4, 4) = h.sub_protocol
    BY <1>1, <1>2, <1>5 DEF Continues, Read
  <2>2. /\ Read(u3, 0, 4) = h.protocol
        /\ Read(u3, 4, 4) = h.sub_protocol
        /\ Read(u3, 8, 2) = h.version
    BY <2>1, <1>3, <1>5 DEF Continues, Read
  <2>. QED BY <2>2, <1>4, <1>5 DEF Continues, Read
<1>. QED BY <1>4, <1>5, <1>6 DEF EncodeClientHandshake, u1, u2, u3, u4

LEMMA HelloFaithful == Faithful("hello")
<1>1. /\ Holds("hello") = ClientHandshake
      /\ \A v : Encode("hello", v) = Good(EncodeClientHandshake(v))
      /\ \A s : Decode("hello", s) = DecodeClientHandshake(s)
  BY DEF Holds, Encode, Decode
<1>2. ASSUME NEW s \in Seq(Byte)
      PROVE  /\ DecodeClientHandshake(s).ok <=> Len(s) = 12
             /\ Len(s) = 12 => DecodeClientHandshake(s) =
                  Good([protocol |-> Read(s, 0, 4), sub_protocol |-> Read(s, 4, 4)
                        , version |-> Read(s, 8, 2), sub_version |-> Read(s, 10, 2)])
  <2> DEFINE r == [protocol |-> Read(s, 0, 4), sub_protocol |-> Read(s, 4, 4)
                   , version |-> Read(s, 8, 2), sub_version |-> Read(s, 10, 2)]
  <2>1. DecodeClientHandshake(s) = IF Exactly(s, 12).ok THEN Good(r) ELSE Exactly(s, 12)
    BY DEF DecodeClientHandshake, Then, HandshakeSize
  <2> HIDE DEF r
  <2>2. DecodeClientHandshake(s).ok <=> Len(s) = 12
    BY <2>1, ExactlyIs, GoodIs, Offsets
  <2>3. Len(s) = 12 => DecodeClientHandshake(s) = Good(r)
    BY <2>1, ExactlyIs, Offsets
  <2>. QED BY <2>2, <2>3 DEF r
<1>3. ASSUME NEW h \in ClientHandshake
      PROVE  /\ EncodeClientHandshake(h) \in Seq(Byte)
             /\ DecodeClientHandshake(EncodeClientHandshake(h)) = Good(h)
  <2> DEFINE w == EncodeClientHandshake(h)
  <2>1. h = [protocol |-> h.protocol, sub_protocol |-> h.sub_protocol
              , version |-> h.version, sub_version |-> h.sub_version]
    BY DEF ClientHandshake
  <2> HIDE DEF w
  <2>3. /\ w \in Seq(Byte) /\ Len(w) = 12
        /\ Read(w, 0, 4) = h.protocol
        /\ Read(w, 4, 4) = h.sub_protocol
        /\ Read(w, 8, 2) = h.version
        /\ Read(w, 10, 2) = h.sub_version
    BY HelloWritten DEF w
  <2>4. DecodeClientHandshake(w) = Good(h)
    BY <1>2, <2>1, <2>3
  <2>. QED BY <2>3, <2>4 DEF w
<1>4. ASSUME NEW s \in Seq(Byte), DecodeClientHandshake(s).ok
      PROVE  EncodeClientHandshake(DecodeClientHandshake(s).value) = s
  <2>1. Len(s) = 12
    BY <1>2, <1>4
  <2>2. 4 <= Len(s) /\ 8 <= Len(s) /\ 10 <= Len(s) /\ 12 <= Len(s)
    BY <2>1
  <2>3. DecodeClientHandshake(s).value =
          [protocol |-> Read(s, 0, 4), sub_protocol |-> Read(s, 4, 4)
           , version |-> Read(s, 8, 2), sub_version |-> Read(s, 10, 2)]
    BY <1>2, <2>1, GoodIs
  <2>4. EncodeClientHandshake(DecodeClientHandshake(s).value) =
          U32(Read(s, 0, 4)) \o U32(Read(s, 4, 4)) \o U16(Read(s, 8, 2))
          \o U16(Read(s, 10, 2))
    BY <2>3 DEF EncodeClientHandshake
  <2>5. U32(Read(s, 0, 4)) = At(s, 0, 4)
    BY <2>2, LongBack, Offsets, Zenon
  <2>6. At(s, 0, 4) \o U32(Read(s, 4, 4)) = At(s, 0, 8)
    BY <2>2, LongBack, Offsets, Zenon
  <2>7. At(s, 0, 8) \o U16(Read(s, 8, 2)) = At(s, 0, 10)
    BY <2>2, WordBack, Offsets, Zenon
  <2>8. At(s, 0, 10) \o U16(Read(s, 10, 2)) = At(s, 0, 12)
    BY <2>2, WordBack, Offsets, Zenon
  <2>9. At(s, 0, 12) = s
    BY <2>1, AllOfIt
  <2>. QED BY <2>4, <2>5, <2>6, <2>7, <2>8, <2>9
<1>5. Written("hello")
  <2> SUFFICES ASSUME NEW v \in Holds("hello")
               PROVE  /\ Encode("hello", v).value \in Seq(Byte)
                      /\ Decode("hello", Encode("hello", v).value) = Good(v)
    BY DEF Written
  <2>. QED BY <1>1, <1>3, GoodIs
<1>6. Understood("hello")
  <2> SUFFICES ASSUME NEW s \in Seq(Byte), Decode("hello", s).ok
               PROVE  Encode("hello", Decode("hello", s).value) = Good(s)
    BY DEF Understood
  <2>. QED BY <1>1, <1>4
<1>7. Ended("hello")
  <2>1. \A s \in Seq(Byte) : Decode("hello", s).ok => Len(s) = 12
    BY <1>1, <1>2
  <2>. QED BY <2>1, EndedBySize, Zenon
<1>. QED BY <1>5, <1>6, <1>7 DEF Faithful

LEMMA GreetingWritten ==
  ASSUME NEW reply \in ServerHandshakeReply
  PROVE  LET w == EncodeServerHandshakeReply(reply)
         IN  /\ w \in Seq(Byte) /\ Len(w) = 8
             /\ Read(w, 0, 4) = reply.protocol
             /\ Read(w, 4, 4) = reply.error
<1> DEFINE u1 == U32(reply.protocol)
           u2 == u1 \o U32(reply.error)
<1>0. /\ reply.protocol \in Long /\ reply.error \in Long
  BY DEF ServerHandshakeReply
<1>1. u1 \in Seq(Byte) /\ Len(u1) = 4 /\ Read(u1, 0, 4) = reply.protocol
  BY <1>0, LongFirst
<1> HIDE DEF u1
<1>2. /\ u2 \in Seq(Byte) /\ Len(u2) = Len(u1) + 4
      /\ Read(u2, Len(u1), 4) = reply.error /\ Continues(u2, u1)
  BY <1>0, <1>1, LongAppended, Zenon
<1> HIDE DEF u2
<1>3. Len(u2) = 8
  BY <1>1, <1>2
<1>4. /\ Read(u2, 0, 4) = reply.protocol
      /\ Read(u2, 4, 4) = reply.error
  BY <1>1, <1>2, <1>3 DEF Continues, Read
<1>. QED BY <1>2, <1>3, <1>4 DEF EncodeServerHandshakeReply, u1, u2

LEMMA GreetingFaithful == Faithful("greeting")
<1>1. /\ Holds("greeting") = ServerHandshakeReply
      /\ \A v : Encode("greeting", v) = Good(EncodeServerHandshakeReply(v))
      /\ \A s : Decode("greeting", s) = DecodeServerHandshakeReply(s)
  BY DEF Holds, Encode, Decode
<1>2. ASSUME NEW s \in Seq(Byte)
      PROVE  /\ DecodeServerHandshakeReply(s).ok <=> Len(s) = 8
             /\ Len(s) = 8 => DecodeServerHandshakeReply(s) =
                  Good([protocol |-> Read(s, 0, 4), error |-> Read(s, 4, 4)])
  <2> DEFINE r == [protocol |-> Read(s, 0, 4), error |-> Read(s, 4, 4)]
  <2>1. DecodeServerHandshakeReply(s) = IF Exactly(s, 8).ok THEN Good(r) ELSE Exactly(s, 8)
    BY DEF DecodeServerHandshakeReply, Then, ReplySize
  <2> HIDE DEF r
  <2>2. DecodeServerHandshakeReply(s).ok <=> Len(s) = 8
    BY <2>1, ExactlyIs, GoodIs, Offsets
  <2>3. Len(s) = 8 => DecodeServerHandshakeReply(s) = Good(r)
    BY <2>1, ExactlyIs, Offsets
  <2>. QED BY <2>2, <2>3 DEF r
<1>3. ASSUME NEW reply \in ServerHandshakeReply
      PROVE  /\ EncodeServerHandshakeReply(reply) \in Seq(Byte)
             /\ DecodeServerHandshakeReply(EncodeServerHandshakeReply(reply)) = Good(reply)
  <2> DEFINE w == EncodeServerHandshakeReply(reply)
  <2>1. reply = [protocol |-> reply.protocol, error |-> reply.error]
    BY DEF ServerHandshakeReply
  <2> HIDE DEF w
  <2>3. /\ w \in Seq(Byte) /\ Len(w) = 8
        /\ Read(w, 0, 4) = reply.protocol
        /\ Read(w, 4, 4) = reply.error
    BY GreetingWritten DEF w
  <2>4. DecodeServerHandshakeReply(w) = Good(reply)
    BY <1>2, <2>1, <2>3
  <2>. QED BY <2>3, <2>4 DEF w
<1>4. ASSUME NEW s \in Seq(Byte), DecodeServerHandshakeReply(s).ok
      PROVE  EncodeServerHandshakeReply(DecodeServerHandshakeReply(s).value) = s
  <2>1. Len(s) = 8
    BY <1>2, <1>4
  <2>2. 4 <= Len(s) /\ 8 <= Len(s)
    BY <2>1
  <2>3. DecodeServerHandshakeReply(s).value =
          [protocol |-> Read(s, 0, 4), error |-> Read(s, 4, 4)]
    BY <1>2, <2>1, GoodIs
  <2>4. EncodeServerHandshakeReply(DecodeServerHandshakeReply(s).value) =
          U32(Read(s, 0, 4)) \o U32(Read(s, 4, 4))
    BY <2>3 DEF EncodeServerHandshakeReply
  <2>5. U32(Read(s, 0, 4)) = At(s, 0, 4)
    BY <2>2, LongBack, Offsets, Zenon
  <2>6. At(s, 0, 4) \o U32(Read(s, 4, 4)) = At(s, 0, 8)
    BY <2>2, LongBack, Offsets, Zenon
  <2>7. At(s, 0, 8) = s
    BY <2>1, AllOfIt
  <2>. QED BY <2>4, <2>5, <2>6, <2>7
<1>5. Written("greeting")
  <2> SUFFICES ASSUME NEW v \in Holds("greeting")
               PROVE  /\ Encode("greeting", v).value \in Seq(Byte)
                      /\ Decode("greeting", Encode("greeting", v).value) = Good(v)
    BY DEF Written
  <2>. QED BY <1>1, <1>3, GoodIs
<1>6. Understood("greeting")
  <2> SUFFICES ASSUME NEW s \in Seq(Byte), Decode("greeting", s).ok
               PROVE  Encode("greeting", Decode("greeting", s).value) = Good(s)
    BY DEF Understood
  <2>. QED BY <1>1, <1>4
<1>7. Ended("greeting")
  <2>1. \A s \in Seq(Byte) : Decode("greeting", s).ok => Len(s) = 8
    BY <1>1, <1>2
  <2>. QED BY <2>1, EndedBySize, Zenon
<1>. QED BY <1>5, <1>6, <1>7 DEF Faithful

LEMMA StampWritten ==
  ASSUME NEW date \in DateTimeStamp
  PROVE  LET w == Stamp(date)
         IN  /\ w \in Seq(Byte) /\ Len(w) = 8
             /\ Read(w, 0, 2) = date.year
             /\ Read(w, 2, 2) = date.msecs
             /\ Read(w, 4, 4) = date.seconds
<1> DEFINE u1 == U16(date.year)
           u2 == u1 \o U16(date.msecs)
           u3 == u2 \o U32(date.seconds)
<1>0. /\ date.year \in Word /\ date.msecs \in Word /\ date.seconds \in Long
  BY DEF DateTimeStamp
<1>1. u1 \in Seq(Byte) /\ Len(u1) = 2 /\ Read(u1, 0, 2) = date.year
  BY <1>0, WordFirst
<1> HIDE DEF u1
<1>2. /\ u2 \in Seq(Byte) /\ Len(u2) = Len(u1) + 2
      /\ Read(u2, Len(u1), 2) = date.msecs /\ Continues(u2, u1)
  BY <1>0, <1>1, WordAppended, Zenon
<1> HIDE DEF u2
<1>3. /\ u3 \in Seq(Byte) /\ Len(u3) = Len(u2) + 4
      /\ Read(u3, Len(u2), 4) = date.seconds /\ Continues(u3, u2)
  BY <1>0, <1>2, LongAppended, Zenon
<1> HIDE DEF u3
<1>4. Len(u2) = 4 /\ Len(u3) = 8
  BY <1>1, <1>2, <1>3
<1>5. /\ Read(u3, 0, 2) = date.year
      /\ Read(u3, 2, 2) = date.msecs
      /\ Read(u3, 4, 4) = date.seconds
  <2>1. /\ Read(u2, 0, 2) = date.year
        /\ Read(u2, 2, 2) = date.msecs
    BY <1>1, <1>2, <1>4 DEF Continues, Read
  <2>. QED BY <2>1, <1>3, <1>4 DEF Continues, Read
<1>. QED BY <1>3, <1>4, <1>5 DEF Stamp, u1, u2, u3

LEMMA StampFaithful == Faithful("stamp")
<1>1. /\ Holds("stamp") = DateTimeStamp
      /\ \A v : Encode("stamp", v) = Good(Stamp(v))
      /\ \A s : Decode("stamp", s) = DecodeStamp(s)
  BY DEF Holds, Encode, Decode
<1>2. ASSUME NEW s \in Seq(Byte)
      PROVE  /\ DecodeStamp(s).ok <=> Len(s) = 8
             /\ Len(s) = 8 => DecodeStamp(s) =
                  Good([year |-> Read(s, 0, 2), msecs |-> Read(s, 2, 2)
                        , seconds |-> Read(s, 4, 4)])
  <2> DEFINE r == [year |-> Read(s, 0, 2), msecs |-> Read(s, 2, 2)
                   , seconds |-> Read(s, 4, 4)]
  <2>1. DecodeStamp(s) = IF Exactly(s, 8).ok THEN Good(r) ELSE Exactly(s, 8)
    BY DEF DecodeStamp, Then, StampSize, ReadStamp
  <2> HIDE DEF r
  <2>2. DecodeStamp(s).ok <=> Len(s) = 8
    BY <2>1, ExactlyIs, GoodIs, Offsets
  <2>3. Len(s) = 8 => DecodeStamp(s) = Good(r)
    BY <2>1, ExactlyIs, Offsets
  <2>. QED BY <2>2, <2>3 DEF r
<1>3. ASSUME NEW date \in DateTimeStamp
      PROVE  /\ Stamp(date) \in Seq(Byte)
             /\ DecodeStamp(Stamp(date)) = Good(date)
  <2> DEFINE w == Stamp(date)
  <2>1. date = [year |-> date.year, msecs |-> date.msecs, seconds |-> date.seconds]
    BY DEF DateTimeStamp
  <2> HIDE DEF w
  <2>3. /\ w \in Seq(Byte) /\ Len(w) = 8
        /\ Read(w, 0, 2) = date.year
        /\ Read(w, 2, 2) = date.msecs
        /\ Read(w, 4, 4) = date.seconds
    BY StampWritten DEF w
  <2>4. DecodeStamp(w) = Good(date)
    BY <1>2, <2>1, <2>3
  <2>. QED BY <2>3, <2>4 DEF w
<1>4. ASSUME NEW s \in Seq(Byte), DecodeStamp(s).ok
      PROVE  Stamp(DecodeStamp(s).value) = s
  <2>1. Len(s) = 8
    BY <1>2, <1>4
  <2>2. 2 <= Len(s) /\ 4 <= Len(s) /\ 8 <= Len(s)
    BY <2>1
  <2>3. DecodeStamp(s).value =
          [year |-> Read(s, 0, 2), msecs |-> Read(s, 2, 2), seconds |-> Read(s, 4, 4)]
    BY <1>2, <2>1, GoodIs
  <2>4. Stamp(DecodeStamp(s).value) =
          U16(Read(s, 0, 2)) \o U16(Read(s, 2, 2)) \o U32(Read(s, 4, 4))
    BY <2>3 DEF Stamp
  <2>5. U16(Read(s, 0, 2)) = At(s, 0, 2)
    BY <2>2, WordBack, Offsets, Zenon
  <2>6. At(s, 0, 2) \o U16(Read(s, 2, 2)) = At(s, 0, 4)
    BY <2>2, WordBack, Offsets, Zenon
  <2>7. At(s, 0, 4) \o U32(Read(s, 4, 4)) = At(s, 0, 8)
    BY <2>2, LongBack, Offsets, Zenon
  <2>8. At(s, 0, 8) = s
    BY <2>1, AllOfIt
  <2>. QED BY <2>4, <2>5, <2>6, <2>7, <2>8
<1>5. Written("stamp")
  <2> SUFFICES ASSUME NEW v \in Holds("stamp")
               PROVE  /\ Encode("stamp", v).value \in Seq(Byte)
                      /\ Decode("stamp", Encode("stamp", v).value) = Good(v)
    BY DEF Written
  <2>. QED BY <1>1, <1>3, GoodIs
<1>6. Understood("stamp")
  <2> SUFFICES ASSUME NEW s \in Seq(Byte), Decode("stamp", s).ok
               PROVE  Encode("stamp", Decode("stamp", s).value) = Good(s)
    BY DEF Understood
  <2>. QED BY <1>1, <1>4
<1>7. Ended("stamp")
  <2>1. \A s \in Seq(Byte) : Decode("stamp", s).ok => Len(s) = 8
    BY <1>1, <1>2
  <2>. QED BY <2>1, EndedBySize, Zenon
<1>. QED BY <1>5, <1>6, <1>7 DEF Faithful

LEMMA HeaderWritten ==
  ASSUME NEW h \in TransactionHeader
  PROVE  LET w == EncodeHeader(h)
         IN  /\ w \in Seq(Byte) /\ Len(w) = 20
             /\ w[1] = h.flag /\ w[2] = h.is_reply
             /\ Read(w, 2, 2) = h.type
             /\ Read(w, 4, 4) = h.id
             /\ Read(w, 8, 4) = h.error
             /\ Read(w, 12, 4) = h.total_size
             /\ Read(w, 16, 4) = h.data_size
<1> DEFINE u1 == <<h.flag, h.is_reply>>
           u2 == u1 \o U16(h.type)
           u3 == u2 \o U32(h.id)
           u4 == u3 \o U32(h.error)
           u5 == u4 \o U32(h.total_size)
           u6 == u5 \o U32(h.data_size)
<1>0. /\ h.flag \in Byte /\ h.is_reply \in Byte /\ h.type \in Word /\ h.id \in Long
      /\ h.error \in Long /\ h.total_size \in Long /\ h.data_size \in Long
  BY DEF TransactionHeader
<1>1. u1 \in Seq(Byte) /\ Len(u1) = 2 /\ At(u1, 0, 2) = <<h.flag, h.is_reply>>
  <2>1. u1 \in Seq(Byte) /\ Len(u1) = 2
    BY <1>0
  <2>. QED BY <2>1, AllOfIt
<1> HIDE DEF u1
<1>2. /\ u2 \in Seq(Byte) /\ Len(u2) = Len(u1) + 2
      /\ Read(u2, Len(u1), 2) = h.type /\ Continues(u2, u1)
  BY <1>0, <1>1, WordAppended, Zenon
<1> HIDE DEF u2
<1>3. /\ u3 \in Seq(Byte) /\ Len(u3) = Len(u2) + 4
      /\ Read(u3, Len(u2), 4) = h.id /\ Continues(u3, u2)
  BY <1>0, <1>2, LongAppended, Zenon
<1> HIDE DEF u3
<1>4. /\ u4 \in Seq(Byte) /\ Len(u4) = Len(u3) + 4
      /\ Read(u4, Len(u3), 4) = h.error /\ Continues(u4, u3)
  BY <1>0, <1>3, LongAppended, Zenon
<1> HIDE DEF u4
<1>5. /\ u5 \in Seq(Byte) /\ Len(u5) = Len(u4) + 4
      /\ Read(u5, Len(u4), 4) = h.total_size /\ Continues(u5, u4)
  BY <1>0, <1>4, LongAppended, Zenon
<1> HIDE DEF u5
<1>6. /\ u6 \in Seq(Byte) /\ Len(u6) = Len(u5) + 4
      /\ Read(u6, Len(u5), 4) = h.data_size /\ Continues(u6, u5)
  BY <1>0, <1>5, LongAppended, Zenon
<1> HIDE DEF u6
<1>7. Len(u2) = 4 /\ Len(u3) = 8 /\ Len(u4) = 12 /\ Len(u5) = 16 /\ Len(u6) = 20
  BY <1>1, <1>2, <1>3, <1>4, <1>5, <1>6
<1>8. /\ At(u6, 0, 2) = <<h.flag, h.is_reply>>
      /\ Read(u6, 2, 2) = h.type
      /\ Read(u6, 4, 4) = h.id
      /\ Read(u6, 8, 4) = h.error
      /\ Read(u6, 12, 4) = h.total_size
      /\ Read(u6, 16, 4) = h.data_size
  <2>1. /\ At(u2, 0, 2) = <<h.flag, h.is_reply>>
        /\ Read(u2, 2, 2) = h.type
    BY <1>1, <1>2, <1>7 DEF Continues, Read
  <2>2. /\ At(u3, 0, 2) = <<h.flag, h.is_reply>>
        /\ Read(u3, 2, 2) = h.type
        /\ Read(u3, 4, 4) = h.id
    BY <2>1, <1>3, <1>7 DEF Continues, Read
  <2>3. /\ At(u4, 0, 2) = <<h.flag, h.is_reply>>
        /\ Read(u4, 2, 2) = h.type
        /\ Read(u4, 4, 4) = h.id
        /\ Read(u4, 8, 4) = h.error
    BY <2>2, <1>4, <1>7 DEF Continues, Read
  <2>4. /\ At(u5, 0, 2) = <<h.flag, h.is_reply>>
        /\ Read(u5, 2, 2) = h.type
        /\ Read(u5, 4, 4) = h.id
        /\ Read(u5, 8, 4) = h.error
        /\ Read(u5, 12, 4) = h.total_size
    BY <2>3, <1>5, <1>7 DEF Continues, Read
  <2>. QED BY <2>4, <1>6, <1>7 DEF Continues, Read
<1>9. u6[1] = h.flag /\ u6[2] = h.is_reply
  <2>1. u6 \in Seq(Byte) /\ 0 \in Nat /\ 2 \in Nat /\ 0 + 2 <= Len(u6)
    BY <1>6, <1>7
  <2>2. \A i \in 1..2 : At(u6, 0, 2)[i] = u6[0 + i]
    BY <2>1, Part, Zenon
  <2>. QED BY <1>8, <2>2
<1>. QED BY <1>6, <1>7, <1>8, <1>9 DEF EncodeHeader, u1, u2, u3, u4, u5, u6

LEMMA HeaderFaithful == Faithful("header")
<1>1. /\ Holds("header") = TransactionHeader
      /\ \A v : Encode("header", v) = Good(EncodeHeader(v))
      /\ \A s : Decode("header", s) = DecodeHeader(s)
  BY DEF Holds, Encode, Decode
<1>2. ASSUME NEW s \in Seq(Byte)
      PROVE  /\ DecodeHeader(s).ok <=> Len(s) = 20
             /\ Len(s) = 20 => DecodeHeader(s) =
                  Good([flag |-> s[1], is_reply |-> s[2], type |-> Read(s, 2, 2)
                        , id |-> Read(s, 4, 4), error |-> Read(s, 8, 4)
                        , total_size |-> Read(s, 12, 4), data_size |-> Read(s, 16, 4)])
  <2> DEFINE r == [flag |-> s[1], is_reply |-> s[2], type |-> Read(s, 2, 2)
                   , id |-> Read(s, 4, 4), error |-> Read(s, 8, 4)
                   , total_size |-> Read(s, 12, 4), data_size |-> Read(s, 16, 4)]
  <2>1. DecodeHeader(s) = IF Exactly(s, 20).ok THEN Good(r) ELSE Exactly(s, 20)
    BY DEF DecodeHeader, Then, TransactionHeaderSize, ReadHeader
  <2> HIDE DEF r
  <2>2. DecodeHeader(s).ok <=> Len(s) = 20
    BY <2>1, ExactlyIs, GoodIs, Offsets
  <2>3. Len(s) = 20 => DecodeHeader(s) = Good(r)
    BY <2>1, ExactlyIs, Offsets
  <2>. QED BY <2>2, <2>3 DEF r
<1>3. ASSUME NEW h \in TransactionHeader
      PROVE  /\ EncodeHeader(h) \in Seq(Byte)
             /\ DecodeHeader(EncodeHeader(h)) = Good(h)
  <2> DEFINE w == EncodeHeader(h)
  <2>1. h = [flag |-> h.flag, is_reply |-> h.is_reply, type |-> h.type, id |-> h.id
              , error |-> h.error, total_size |-> h.total_size
              , data_size |-> h.data_size]
    BY DEF TransactionHeader
  <2> HIDE DEF w
  <2>3. /\ w \in Seq(Byte) /\ Len(w) = 20
        /\ w[1] = h.flag /\ w[2] = h.is_reply
        /\ Read(w, 2, 2) = h.type
        /\ Read(w, 4, 4) = h.id
        /\ Read(w, 8, 4) = h.error
        /\ Read(w, 12, 4) = h.total_size
        /\ Read(w, 16, 4) = h.data_size
    BY HeaderWritten DEF w
  <2>4. DecodeHeader(w) = Good(h)
    BY <1>2, <2>1, <2>3
  <2>. QED BY <2>3, <2>4 DEF w
<1>4. ASSUME NEW s \in Seq(Byte), DecodeHeader(s).ok
      PROVE  EncodeHeader(DecodeHeader(s).value) = s
  <2>1. Len(s) = 20
    BY <1>2, <1>4
  <2>2. 2 <= Len(s) /\ 4 <= Len(s) /\ 8 <= Len(s) /\ 12 <= Len(s) /\ 16 <= Len(s) /\ 20 <= Len(s)
    BY <2>1
  <2>3. DecodeHeader(s).value =
          [flag |-> s[1], is_reply |-> s[2], type |-> Read(s, 2, 2)
           , id |-> Read(s, 4, 4), error |-> Read(s, 8, 4)
           , total_size |-> Read(s, 12, 4), data_size |-> Read(s, 16, 4)]
    BY <1>2, <2>1, GoodIs
  <2>4. EncodeHeader(DecodeHeader(s).value) =
          <<s[1], s[2]>> \o U16(Read(s, 2, 2)) \o U32(Read(s, 4, 4))
          \o U32(Read(s, 8, 4)) \o U32(Read(s, 12, 4)) \o U32(Read(s, 16, 4))
    BY <2>3 DEF EncodeHeader
  <2>5. <<s[1], s[2]>> = At(s, 0, 2)
    <3> DEFINE x == At(s, 0, 2)
    <3>1. 0 \in Nat /\ 2 \in Nat /\ 2 \in Nat /\ 0 + 2 <= Len(s) /\ 0 + 2 = 2 /\ 2 <= Len(s)
      BY <2>1
    <3>2. x \in Seq(Byte) /\ Len(x) = 2 /\ \A i \in 1..2 : x[i] = s[0 + i]
      BY <3>1, Part, Zenon
    <3> HIDE DEF x
    <3>4. x = <<x[1], x[2]>> /\ x[1] = s[1] /\ x[2] = s[2]
      BY <3>2
    <3>. QED BY <3>4 DEF x
  <2>6. At(s, 0, 2) \o U16(Read(s, 2, 2)) = At(s, 0, 4)
    BY <2>2, WordBack, Offsets, Zenon
  <2>7. At(s, 0, 4) \o U32(Read(s, 4, 4)) = At(s, 0, 8)
    BY <2>2, LongBack, Offsets, Zenon
  <2>8. At(s, 0, 8) \o U32(Read(s, 8, 4)) = At(s, 0, 12)
    BY <2>2, LongBack, Offsets, Zenon
  <2>9. At(s, 0, 12) \o U32(Read(s, 12, 4)) = At(s, 0, 16)
    BY <2>2, LongBack, Offsets, Zenon
  <2>10. At(s, 0, 16) \o U32(Read(s, 16, 4)) = At(s, 0, 20)
    BY <2>2, LongBack, Offsets, Zenon
  <2>11. At(s, 0, 20) = s
    BY <2>1, AllOfIt
  <2>. QED BY <2>4, <2>5, <2>6, <2>7, <2>8, <2>9, <2>10, <2>11
<1>5. Written("header")
  <2> SUFFICES ASSUME NEW v \in Holds("header")
               PROVE  /\ Encode("header", v).value \in Seq(Byte)
                      /\ Decode("header", Encode("header", v).value) = Good(v)
    BY DEF Written
  <2>. QED BY <1>1, <1>3, GoodIs
<1>6. Understood("header")
  <2> SUFFICES ASSUME NEW s \in Seq(Byte), Decode("header", s).ok
               PROVE  Encode("header", Decode("header", s).value) = Good(s)
    BY DEF Understood
  <2>. QED BY <1>1, <1>4
<1>7. Ended("header")
  <2>1. \A s \in Seq(Byte) : Decode("header", s).ok => Len(s) = 20
    BY <1>1, <1>2
  <2>. QED BY <2>1, EndedBySize, Zenon
<1>. QED BY <1>5, <1>6, <1>7 DEF Faithful

LEMMA GuidWritten ==
  ASSUME NEW guid \in Guid
  PROVE  LET w == EncodeGuid(guid)
         IN  /\ w \in Seq(Byte) /\ Len(w) = 16
             /\ Read(w, 0, 4) = guid.time_low
             /\ Read(w, 4, 2) = guid.time_mid
             /\ Read(w, 6, 2) = guid.time_hi_and_version
             /\ w[9] = guid.clock_seq_hi_and_reserved /\ w[10] = guid.clock_seq_low
             /\ At(w, 10, 6) = guid.node
<1> DEFINE u1 == U32(guid.time_low)
           u2 == u1 \o U16(guid.time_mid)
           u3 == u2 \o U16(guid.time_hi_and_version)
           u4 == u3 \o <<guid.clock_seq_hi_and_reserved, guid.clock_seq_low>>
           u5 == u4 \o guid.node
<1>0. /\ guid.time_low \in Long /\ guid.time_mid \in Word
      /\ guid.time_hi_and_version \in Word /\ guid.clock_seq_hi_and_reserved \in Byte
      /\ guid.clock_seq_low \in Byte /\ guid.node \in Seq(Byte) /\ Len(guid.node) = 6
  BY SixBytes DEF Guid
<1>1. u1 \in Seq(Byte) /\ Len(u1) = 4 /\ Read(u1, 0, 4) = guid.time_low
  BY <1>0, LongFirst
<1> HIDE DEF u1
<1>2. /\ u2 \in Seq(Byte) /\ Len(u2) = Len(u1) + 2
      /\ Read(u2, Len(u1), 2) = guid.time_mid /\ Continues(u2, u1)
  BY <1>0, <1>1, WordAppended, Zenon
<1> HIDE DEF u2
<1>3. /\ u3 \in Seq(Byte) /\ Len(u3) = Len(u2) + 2
      /\ Read(u3, Len(u2), 2) = guid.time_hi_and_version /\ Continues(u3, u2)
  BY <1>0, <1>2, WordAppended, Zenon
<1> HIDE DEF u3
<1>4. /\ u4 \in Seq(Byte) /\ Len(u4) = Len(u3) + 2
      /\ At(u4, Len(u3), 2) = <<guid.clock_seq_hi_and_reserved, guid.clock_seq_low>>
      /\ Continues(u4, u3)
  <2> DEFINE x == <<guid.clock_seq_hi_and_reserved, guid.clock_seq_low>>
  <2>1. x \in Seq(Byte) /\ Len(x) = 2
    BY <1>0
  <2> HIDE DEF x
  <2>2. /\ u3 \o x \in Seq(Byte) /\ Len(u3 \o x) = Len(u3) + 2
        /\ At(u3 \o x, Len(u3), 2) = x /\ Continues(u3 \o x, u3)
    BY <1>0, <1>3, <2>1, RunAppended
  <2>. QED BY <2>2 DEF x
<1> HIDE DEF u4
<1>5. /\ u5 \in Seq(Byte) /\ Len(u5) = Len(u4) + 6
      /\ At(u5, Len(u4), 6) = guid.node /\ Continues(u5, u4)
  <2> DEFINE x == guid.node
  <2>1. x \in Seq(Byte) /\ Len(x) = 6
    BY <1>0
  <2> HIDE DEF x
  <2>2. /\ u4 \o x \in Seq(Byte) /\ Len(u4 \o x) = Len(u4) + 6
        /\ At(u4 \o x, Len(u4), 6) = x /\ Continues(u4 \o x, u4)
    BY <1>4, <2>1, RunAppended
  <2>. QED BY <2>2 DEF x
<1> HIDE DEF u5
<1>6. Len(u2) = 6 /\ Len(u3) = 8 /\ Len(u4) = 10 /\ Len(u5) = 16
  BY <1>1, <1>2, <1>3, <1>4, <1>5
<1>7. /\ Read(u5, 0, 4) = guid.time_low
      /\ Read(u5, 4, 2) = guid.time_mid
      /\ Read(u5, 6, 2) = guid.time_hi_and_version
      /\ At(u5, 8, 2) = <<guid.clock_seq_hi_and_reserved, guid.clock_seq_low>>
      /\ At(u5, 10, 6) = guid.node
  <2>1. /\ Read(u2, 0, 4) = guid.time_low
        /\ Read(u2, 4, 2) = guid.time_mid
    BY <1>1, <1>2, <1>6 DEF Continues, Read
  <2>2. /\ Read(u3, 0, 4) = guid.time_low
        /\ Read(u3, 4, 2) = guid.time_mid
        /\ Read(u3, 6, 2) = guid.time_hi_and_version
    BY <2>1, <1>3, <1>6 DEF Continues, Read
  <2>3. /\ Read(u4, 0, 4) = guid.time_low
        /\ Read(u4, 4, 2) = guid.time_mid
        /\ Read(u4, 6, 2) = guid.time_hi_and_version
        /\ At(u4, 8, 2) = <<guid.clock_seq_hi_and_reserved, guid.clock_seq_low>>
    BY <2>2, <1>4, <1>6 DEF Continues, Read
  <2>. QED BY <2>3, <1>5, <1>6 DEF Continues, Read
<1>8. u5[9] = guid.clock_seq_hi_and_reserved /\ u5[10] = guid.clock_seq_low
  <2>1. u5 \in Seq(Byte) /\ 8 \in Nat /\ 2 \in Nat /\ 8 + 2 <= Len(u5)
    BY <1>5, <1>6
  <2>2. \A i \in 1..2 : At(u5, 8, 2)[i] = u5[8 + i]
    BY <2>1, Part, Zenon
  <2>. QED BY <1>7, <2>2
<1>. QED BY <1>5, <1>6, <1>7, <1>8 DEF EncodeGuid, u1, u2, u3, u4, u5

LEMMA GuidFaithful == Faithful("guid")
<1>1. /\ Holds("guid") = Guid
      /\ \A v : Encode("guid", v) = Good(EncodeGuid(v))
      /\ \A s : Decode("guid", s) = DecodeGuid(s)
  BY DEF Holds, Encode, Decode
<1>2. ASSUME NEW s \in Seq(Byte)
      PROVE  /\ DecodeGuid(s).ok <=> Len(s) = 16
             /\ Len(s) = 16 => DecodeGuid(s) =
                  Good([time_low |-> Read(s, 0, 4), time_mid |-> Read(s, 4, 2)
                        , time_hi_and_version |-> Read(s, 6, 2)
                        , clock_seq_hi_and_reserved |-> s[9], clock_seq_low |-> s[10]
                        , node |-> At(s, 10, 6)])
  <2> DEFINE r == [time_low |-> Read(s, 0, 4), time_mid |-> Read(s, 4, 2)
                   , time_hi_and_version |-> Read(s, 6, 2)
                   , clock_seq_hi_and_reserved |-> s[9], clock_seq_low |-> s[10]
                   , node |-> At(s, 10, 6)]
  <2>1. DecodeGuid(s) = IF Exactly(s, 16).ok THEN Good(r) ELSE Exactly(s, 16)
    BY DEF DecodeGuid, Then, GuidSize
  <2> HIDE DEF r
  <2>2. DecodeGuid(s).ok <=> Len(s) = 16
    BY <2>1, ExactlyIs, GoodIs, Offsets
  <2>3. Len(s) = 16 => DecodeGuid(s) = Good(r)
    BY <2>1, ExactlyIs, Offsets
  <2>. QED BY <2>2, <2>3 DEF r
<1>3. ASSUME NEW guid \in Guid
      PROVE  /\ EncodeGuid(guid) \in Seq(Byte)
             /\ DecodeGuid(EncodeGuid(guid)) = Good(guid)
  <2> DEFINE w == EncodeGuid(guid)
  <2>1. guid = [time_low |-> guid.time_low, time_mid |-> guid.time_mid
                 , time_hi_and_version |-> guid.time_hi_and_version
                 , clock_seq_hi_and_reserved |-> guid.clock_seq_hi_and_reserved
                 , clock_seq_low |-> guid.clock_seq_low, node |-> guid.node]
    BY DEF Guid
  <2> HIDE DEF w
  <2>3. /\ w \in Seq(Byte) /\ Len(w) = 16
        /\ Read(w, 0, 4) = guid.time_low
        /\ Read(w, 4, 2) = guid.time_mid
        /\ Read(w, 6, 2) = guid.time_hi_and_version
        /\ w[9] = guid.clock_seq_hi_and_reserved /\ w[10] = guid.clock_seq_low
        /\ At(w, 10, 6) = guid.node
    BY GuidWritten DEF w
  <2>4. DecodeGuid(w) = Good(guid)
    BY <1>2, <2>1, <2>3
  <2>. QED BY <2>3, <2>4 DEF w
<1>4. ASSUME NEW s \in Seq(Byte), DecodeGuid(s).ok
      PROVE  EncodeGuid(DecodeGuid(s).value) = s
  <2>1. Len(s) = 16
    BY <1>2, <1>4
  <2>2. 4 <= Len(s) /\ 6 <= Len(s) /\ 8 <= Len(s) /\ 10 <= Len(s) /\ 16 <= Len(s)
    BY <2>1
  <2>3. DecodeGuid(s).value =
          [time_low |-> Read(s, 0, 4), time_mid |-> Read(s, 4, 2)
           , time_hi_and_version |-> Read(s, 6, 2), clock_seq_hi_and_reserved |-> s[9]
           , clock_seq_low |-> s[10], node |-> At(s, 10, 6)]
    BY <1>2, <2>1, GoodIs
  <2>4. EncodeGuid(DecodeGuid(s).value) =
          U32(Read(s, 0, 4)) \o U16(Read(s, 4, 2)) \o U16(Read(s, 6, 2))
          \o <<s[9], s[10]>> \o At(s, 10, 6)
    BY <2>3 DEF EncodeGuid
  <2>5. U32(Read(s, 0, 4)) = At(s, 0, 4)
    BY <2>2, LongBack, Offsets, Zenon
  <2>6. At(s, 0, 4) \o U16(Read(s, 4, 2)) = At(s, 0, 6)
    BY <2>2, WordBack, Offsets, Zenon
  <2>7. At(s, 0, 6) \o U16(Read(s, 6, 2)) = At(s, 0, 8)
    BY <2>2, WordBack, Offsets, Zenon
  <2>8. At(s, 0, 8) \o <<s[9], s[10]>> = At(s, 0, 10)
    <3> DEFINE x == At(s, 8, 2)
    <3>1. 8 \in Nat /\ 2 \in Nat /\ 10 \in Nat /\ 8 + 2 <= Len(s) /\ 8 + 2 = 10 /\ 10 <= Len(s)
      BY <2>1
    <3>2. x \in Seq(Byte) /\ Len(x) = 2 /\ \A i \in 1..2 : x[i] = s[8 + i]
      BY <3>1, Part, Zenon
    <3>3. At(s, 0, 8) \o x = At(s, 0, 10)
      BY <3>1, PartsMeet, Zenon
    <3> HIDE DEF x
    <3>4. x = <<x[1], x[2]>> /\ x[1] = s[9] /\ x[2] = s[10]
      BY <3>2
    <3>. QED BY <3>3, <3>4 DEF x
  <2>9. At(s, 0, 10) \o At(s, 10, 6) = At(s, 0, 16)
    <3>1. 10 \in Nat /\ 6 \in Nat /\ 16 \in Nat /\ 10 + 6 = 16 /\ 16 <= Len(s)
      BY <2>1
    <3>. QED BY <3>1, PartsMeet, Zenon
  <2>10. At(s, 0, 16) = s
    BY <2>1, AllOfIt
  <2>. QED BY <2>4, <2>5, <2>6, <2>7, <2>8, <2>9, <2>10
<1>5. Written("guid")
  <2> SUFFICES ASSUME NEW v \in Holds("guid")
               PROVE  /\ Encode("guid", v).value \in Seq(Byte)
                      /\ Decode("guid", Encode("guid", v).value) = Good(v)
    BY DEF Written
  <2>. QED BY <1>1, <1>3, GoodIs
<1>6. Understood("guid")
  <2> SUFFICES ASSUME NEW s \in Seq(Byte), Decode("guid", s).ok
               PROVE  Encode("guid", Decode("guid", s).value) = Good(s)
    BY DEF Understood
  <2>. QED BY <1>1, <1>4
<1>7. Ended("guid")
  <2>1. \A s \in Seq(Byte) : Decode("guid", s).ok => Len(s) = 16
    BY <1>1, <1>2
  <2>. QED BY <2>1, EndedBySize, Zenon
<1>. QED BY <1>5, <1>6, <1>7 DEF Faithful
\* The command of a file transfer is one number.
LEMMA CommandFaithful == Faithful("command")
<1>1. /\ Holds("command") = Word
      /\ \A v : Encode("command", v) = Good(U16(v))
      /\ \A s : Decode("command", s) =
                  Then(Exactly(s, 2), LAMBDA whole : Good(Read(s, 0, 2)))
  BY DEF Holds, Encode, Decode
<1>2. ASSUME NEW s \in Seq(Byte)
      PROVE  /\ Decode("command", s).ok <=> Len(s) = 2
             /\ Len(s) = 2 => Decode("command", s) = Good(Read(s, 0, 2))
  <2>1. Decode("command", s) = IF Exactly(s, 2).ok THEN Good(Read(s, 0, 2)) ELSE Exactly(s, 2)
    BY <1>1 DEF Then
  <2>2. Decode("command", s).ok <=> Len(s) = 2
    BY <2>1, ExactlyIs, GoodIs, Offsets
  <2>3. Len(s) = 2 => Decode("command", s) = Good(Read(s, 0, 2))
    BY <2>1, ExactlyIs, Offsets
  <2>. QED BY <2>2, <2>3
<1>3. Written("command")
  <2> SUFFICES ASSUME NEW v \in Word
               PROVE  U16(v) \in Seq(Byte) /\ Decode("command", U16(v)) = Good(v)
    BY <1>1, GoodIs DEF Written
  <2>1. U16(v) \in Seq(Byte) /\ Len(U16(v)) = 2 /\ Read(U16(v), 0, 2) = v
    BY WordFirst
  <2>. QED BY <1>2, <2>1
<1>4. Understood("command")
  <2> SUFFICES ASSUME NEW s \in Seq(Byte), Decode("command", s).ok
               PROVE  Encode("command", Decode("command", s).value) = Good(s)
    BY DEF Understood
  <2>1. Len(s) = 2 /\ Decode("command", s).value = Read(s, 0, 2)
    BY <1>2, GoodIs
  <2>2. 2 <= Len(s)
    BY <2>1
  <2>3. U16(Read(s, 0, 2)) = At(s, 0, 2)
    BY <2>2, WordBack, Offsets, Zenon
  <2>4. At(s, 0, 2) = s
    BY <2>1, AllOfIt
  <2>. QED BY <1>1, <2>1, <2>3, <2>4
<1>5. Ended("command")
  <2>1. \A s \in Seq(Byte) : Decode("command", s).ok => Len(s) = 2
    BY <1>2
  <2>. QED BY <2>1, EndedBySize, Zenon
<1>. QED BY <1>3, <1>4, <1>5 DEF Faithful

\* A tracker answers a handshake with its tag and its version.
LEMMA ReplyFaithful == Faithful("reply")
<1>0. TrackerTag \in Seq(Byte) /\ Len(TrackerTag) = 4
  BY TrackerTagAssumption
<1>1. /\ Holds("reply") = Word
      /\ \A v : Encode("reply", v) = Good(TrackerTag \o U16(v))
      /\ \A s : Decode("reply", s) = DecodeHandshakeReply(s)
  BY DEF Holds, Encode, Decode, EncodeHandshakeReply
<1>2. ASSUME NEW s \in Seq(Byte)
      PROVE  /\ Decode("reply", s).ok <=> Len(s) = 6 /\ At(s, 0, 4) = TrackerTag
             /\ Len(s) = 6 /\ At(s, 0, 4) = TrackerTag =>
                  Decode("reply", s) = Good(Read(s, 4, 2))
  <2>1. First(s, 4) = At(s, 0, 4)
    <3>1. 0 + 1 = 1 /\ 0 + 4 = 4
      OBVIOUS
    <3>. QED BY <3>1 DEF First, At
  <2>2. Decode("reply", s) =
          IF Exactly(s, 6).ok
            THEN IF At(s, 0, 4) # TrackerTag THEN Fail("wrong_format_tag") ELSE Good(Read(s, 4, 2))
            ELSE Exactly(s, 6)
    BY <1>1, <2>1 DEF DecodeHandshakeReply, Then, V1Size
  <2>3. ~ Fail("wrong_format_tag").ok
    BY DEF Fail
  <2>4. Decode("reply", s).ok <=> Len(s) = 6 /\ At(s, 0, 4) = TrackerTag
    BY <2>2, <2>3, ExactlyIs, GoodIs, Offsets
  <2>5. Len(s) = 6 /\ At(s, 0, 4) = TrackerTag => Decode("reply", s) = Good(Read(s, 4, 2))
    BY <2>2, ExactlyIs, Offsets
  <2>. QED BY <2>4, <2>5
<1>3. Written("reply")
  <2> SUFFICES ASSUME NEW v \in Holds("reply")
               PROVE  /\ Encode("reply", v).value \in Seq(Byte)
                      /\ Decode("reply", Encode("reply", v).value) = Good(v)
    BY DEF Written
  <2> DEFINE w == TrackerTag \o U16(v)
  <2>0. v \in Word /\ Encode("reply", v).value = w
    BY <1>1, GoodIs
  <2>1. /\ w \in Seq(Byte) /\ Len(w) = Len(TrackerTag) + 2
        /\ Read(w, Len(TrackerTag), 2) = v /\ Continues(w, TrackerTag)
    BY <1>0, <2>0, WordAppended, Zenon
  <2> HIDE DEF w
  <2>2. Len(w) = 6 /\ Read(w, 4, 2) = v
    BY <1>0, <2>1
  <2>3. At(w, 0, 4) = At(TrackerTag, 0, 4)
    BY <1>0, <2>1 DEF Continues
  <2>4. At(TrackerTag, 0, 4) = TrackerTag
    BY <1>0, AllOfIt
  <2>5. Decode("reply", w) = Good(v)
    BY <1>2, <2>1, <2>2, <2>3, <2>4
  <2>6. Encode("reply", v).value = w
    BY <2>0 DEF w
  <2>. QED BY <2>1, <2>5, <2>6
<1>4. Understood("reply")
  <2> SUFFICES ASSUME NEW s \in Seq(Byte), Decode("reply", s).ok
               PROVE  Encode("reply", Decode("reply", s).value) = Good(s)
    BY DEF Understood
  <2>1. Len(s) = 6 /\ At(s, 0, 4) = TrackerTag /\ Decode("reply", s).value = Read(s, 4, 2)
    BY <1>2, GoodIs
  <2>2. 6 <= Len(s)
    BY <2>1
  <2>3. At(s, 0, 4) \o U16(Read(s, 4, 2)) = At(s, 0, 6)
    BY <2>2, WordBack, Offsets, Zenon
  <2>4. At(s, 0, 6) = s
    BY <2>1, AllOfIt
  <2>. QED BY <1>1, <2>1, <2>3, <2>4
<1>5. Ended("reply")
  <2>1. \A s \in Seq(Byte) : Decode("reply", s).ok => Len(s) = 6
    BY <1>2
  <2>. QED BY <2>1, EndedBySize, Zenon
<1>. QED BY <1>3, <1>4, <1>5 DEF Faithful

-----------------------------------------------------------------------------
(* Records whose last part is as long as a number in them says.            *)

\* What is behind an offset.
LEMMA RestIs ==
  ASSUME NEW s \in Seq(Byte), NEW o \in Nat, NEW n \in Nat, Len(s) = o + n
  PROVE  /\ Rest(s, o) = At(s, o, n) /\ Rest(s, o) \in Seq(Byte) /\ Len(Rest(s, o)) = n
         /\ At(s, 0, o) \o Rest(s, o) = s
<1>1. Rest(s, o) = At(s, o, n)
  BY DEF Rest, At
<1>2. At(s, o, n) \in Seq(Byte) /\ Len(At(s, o, n)) = n
  <2>1. o + n <= Len(s)
    OBVIOUS
  <2>. QED BY <2>1, Part
<1>3. At(s, 0, o) \o At(s, o, n) = At(s, 0, Len(s))
  <2>1. Len(s) \in Nat /\ o + n = Len(s) /\ Len(s) <= Len(s)
    OBVIOUS
  <2>. QED BY <2>1, PartsMeet, Zenon
<1>. QED BY <1>1, <1>2, <1>3, AllOfIt

\* A number of two bytes does not know what is above them.
LEMMA WordWraps ==
  ASSUME NEW w \in Int, NEW k \in Int
  PROVE  U16(w - k * (Base * Base)) = U16(w)
<1> DEFINE v == w - k * (Base * Base)
<1>1. Base = 2 \/ Base = 4 \/ Base = 8 \/ Base = 16 \/ Base = 32 \/ Base = 64
      \/ Base = 128 \/ Base = 256
  BY Bases
<1>2. v \div Base = w \div Base - k * Base /\ v % Base = w % Base
  BY <1>1
<1>3. (w \div Base - k * Base) % Base = (w \div Base) % Base
  BY <1>1
<1> HIDE DEF v
<1>4. U16(v) = U16(w)
  BY <1>2, <1>3 DEF U16
<1>. QED BY <1>4 DEF v

\* The sign of a number is lost on the wire and found again behind it.
LEMMA SignIsLost ==
  ASSUME NEW w \in Word
  PROVE  U16(Signed(w, 2)) = U16(w)
<1>1. w \in Int /\ Base^2 = Base * Base /\ Base \in Int
  BY Bases, Limits DEF Word
<1>2. CASE 2 * w >= Base^2
  <2>1. Signed(w, 2) = w - 1 * (Base * Base)
    BY <1>1, <1>2 DEF Signed
  <2>2. 1 \in Int /\ w \in Int
    BY <1>1
  <2>3. U16(w - 1 * (Base * Base)) = U16(w)
    BY <2>2, WordWraps, Zenon
  <2>. QED BY <2>1, <2>3
<1>3. CASE ~ (2 * w >= Base^2)
  BY <1>3 DEF Signed
<1>. QED BY <1>2, <1>3

LEMMA SignOfLongIsLost ==
  ASSUME NEW w \in Long
  PROVE  U32(Signed(w, 4)) = U32(w)
<1> DEFINE b == Base * Base
<1>1. /\ w \in Int /\ Base^2 = b /\ Base^4 = b * b /\ b \in Int
      /\ b = 4 \/ b = 16 \/ b = 64 \/ b = 256 \/ b = 1024 \/ b = 4096 \/ b = 16384 \/ b = 65536
  BY Bases, Limits DEF Long
<1> HIDE DEF b
<1>2. CASE 2 * w >= Base^4
  <2> DEFINE v == w - b * b
  <2>1. Signed(w, 4) = v
    BY <1>1, <1>2 DEF Signed
  <2>2. v \div b = w \div b - 1 * b /\ w \div b \in Int
    BY <1>1
  <2> HIDE DEF v
  <2>3. U16(v \div b) = U16(w \div b)
    BY <2>2, WordWraps DEF b
  <2>4. U16(v) = U16(w)
    BY <1>1, WordWraps DEF v, b
  <2>5. U32(v) = U16(v \div b) \o U16(v) /\ U32(w) = U16(w \div b) \o U16(w)
    <3>1. Base^2 = b
      BY <1>1
    <3>2. \A x : U32(x) = U16(x \div Base^2) \o U16(x)
      BY Zenon DEF U32
    <3>. QED BY <3>1, <3>2
  <2>. QED BY <2>1, <2>3, <2>4, <2>5, Zenon
<1>3. CASE ~ (2 * w >= Base^4)
  BY <1>3 DEF Signed
<1>. QED BY <1>2, <1>3

LEMMA UserWritten ==
  ASSUME NEW info \in UserInfo, Len(info.name) <= MaxU16
  PROVE  LET w == U16(info.id) \o U16(info.icon_id) \o U16(info.flags)
                    \o U16(Len(info.name)) \o info.name
         IN  /\ w \in Seq(Byte) /\ Len(w) = 8 + Len(info.name)
             /\ Read(w, 0, 2) = info.id /\ Signed(Read(w, 2, 2), 2) = info.icon_id
             /\ Read(w, 4, 2) = info.flags /\ Read(w, 6, 2) = Len(info.name)
             /\ At(w, 8, Len(info.name)) = info.name
<1> DEFINE name == info.name
           n == Len(name)
<1>0. /\ info.id \in Word /\ info.flags \in Word /\ name \in Seq(Byte)
      /\ n \in Nat /\ n \in Word
  BY Limits DEF UserInfo, Word
<1> HIDE DEF name, n
<1>9. PICK icon \in Word : info.icon_id = Signed(icon, 2)
  BY DEF UserInfo, SignedWord
<1> DEFINE u1 == U16(info.id)
           u2 == u1 \o U16(icon)
           u3 == u2 \o U16(info.flags)
           u4 == u3 \o U16(n)
           u5 == u4 \o name
<1>1. u1 \in Seq(Byte) /\ Len(u1) = 2 /\ Read(u1, 0, 2) = info.id
  BY <1>0, WordFirst
<1> HIDE DEF u1
<1>2. /\ u2 \in Seq(Byte) /\ Len(u2) = Len(u1) + 2
      /\ Read(u2, Len(u1), 2) = icon /\ Continues(u2, u1)
  BY <1>1, <1>9, WordAppended, Zenon
<1> HIDE DEF u2
<1>3. /\ u3 \in Seq(Byte) /\ Len(u3) = Len(u2) + 2
      /\ Read(u3, Len(u2), 2) = info.flags /\ Continues(u3, u2)
  BY <1>0, <1>2, WordAppended, Zenon
<1> HIDE DEF u3
<1>4. /\ u4 \in Seq(Byte) /\ Len(u4) = Len(u3) + 2
      /\ Read(u4, Len(u3), 2) = n /\ Continues(u4, u3)
  BY <1>0, <1>3, WordAppended, Zenon
<1> HIDE DEF u4
<1>5. /\ u5 \in Seq(Byte) /\ Len(u5) = Len(u4) + n
      /\ At(u5, Len(u4), n) = name /\ Continues(u5, u4)
  BY <1>0, <1>4, RunAppended DEF n
<1> HIDE DEF u5
<1>6. Len(u2) = 4 /\ Len(u3) = 6 /\ Len(u4) = 8 /\ Len(u5) = 8 + n
  BY <1>0, <1>1, <1>2, <1>3, <1>4, <1>5
<1>7. Read(u4, 0, 2) = info.id /\ Read(u4, 2, 2) = icon /\ Read(u4, 4, 2) = info.flags
      /\ Read(u4, 6, 2) = n
  BY <1>1, <1>2, <1>3, <1>4, <1>6 DEF Continues, Read
<1>8. Read(u5, 0, 2) = info.id /\ Read(u5, 2, 2) = icon /\ Read(u5, 4, 2) = info.flags
      /\ Read(u5, 6, 2) = n
  BY <1>5, <1>6, <1>7 DEF Continues, Read
<1>10. At(u5, 8, n) = name
  BY <1>5, <1>6, Zenon
<1>11. U16(info.icon_id) = U16(icon)
  BY <1>9, SignIsLost
<1>12. u5 = U16(info.id) \o U16(info.icon_id) \o U16(info.flags) \o U16(n) \o name
  BY <1>11 DEF u1, u2, u3, u4, u5
<1>13. Signed(Read(u5, 2, 2), 2) = info.icon_id
  BY <1>8, <1>9
<1>14. /\ u5 \in Seq(Byte) /\ Len(u5) = 8 + n
       /\ Read(u5, 0, 2) = info.id /\ Read(u5, 4, 2) = info.flags /\ Read(u5, 6, 2) = n
  BY <1>5, <1>6, <1>8
<1>. QED BY <1>10, <1>12, <1>13, <1>14, Zenon DEF n, name

\* A user of the list: numbers, and a name that they count.
LEMMA UserFaithful == Faithful("user")
<1> DEFINE rec(s) == [id |-> Read(s, 0, 2), icon_id |-> Signed(Read(s, 2, 2), 2),
                      flags |-> Read(s, 4, 2), name |-> Rest(s, 8)]
           fits(s) == Len(s) >= 8 /\ Len(s) = 8 + Read(s, 6, 2)
           bytesOf(v) == U16(v.id) \o U16(v.icon_id) \o U16(v.flags) \o U16(Len(v.name)) \o v.name
<1>1. /\ Holds("user") = UserInfo
      /\ \A v : Encode("user", v) = IF Len(v.name) > MaxU16 THEN Fail("string_too_long")
                                   ELSE Good(bytesOf(v))
      /\ \A s : Decode("user", s) = DecodeUserInfo(s)
  BY DEF Holds, Encode, Decode, EncodeUserInfo
<1>2. ASSUME NEW s \in Seq(Byte)
      PROVE  /\ Decode("user", s).ok <=> fits(s)
             /\ fits(s) => Decode("user", s) = Good(rec(s)) /\ Read(s, 6, 2) \in Word
  <2> DEFINE r == rec(s)
  <2>1. DecodeUserInfo(s) =
          IF Len(s) < 8 THEN Truncated
          ELSE IF Exactly(s, 8 + Read(s, 6, 2)).ok THEN Good(r) ELSE Exactly(s, 8 + Read(s, 6, 2))
    BY DEF DecodeUserInfo, Then, UserInfoHeaderSize
  <2> HIDE DEF r
  <2>2. ~ Truncated.ok
    BY DEF Truncated, Fail
  <2>3. CASE Len(s) < 8
    BY <1>1, <2>1, <2>2, <2>3
  <2>4. CASE ~ (Len(s) < 8)
    <3> DEFINE size == 8 + Read(s, 6, 2)
    <3>1. 8 <= Len(s) /\ Len(s) >= 8
      BY <2>4
    <3>2. Read(s, 6, 2) \in Word
      BY <3>1, WordBack, Offsets, Zenon
    <3>3. size \in Nat
      BY <3>2, Limits DEF Word
    <3>4. DecodeUserInfo(s) = IF Exactly(s, size).ok THEN Good(r) ELSE Exactly(s, size)
      BY <2>1, <2>4
    <3> HIDE DEF size
    <3>5. DecodeUserInfo(s).ok <=> Len(s) = size
      BY <3>3, <3>4, ExactlyIs, GoodIs
    <3>6. Len(s) = size => DecodeUserInfo(s) = Good(r)
      BY <3>3, <3>4, ExactlyIs
    <3>. QED BY <1>1, <3>1, <3>2, <3>5, <3>6 DEF size, r
  <2>. QED BY <2>3, <2>4
<1>3. Written("user")
  <2> SUFFICES ASSUME NEW v \in UserInfo, Encode("user", v).ok
               PROVE  /\ Encode("user", v).value \in Seq(Byte)
                      /\ Decode("user", Encode("user", v).value) = Good(v)
    BY <1>1 DEF Written
  <2>1. Len(v.name) <= MaxU16 /\ Encode("user", v) = Good(bytesOf(v))
    <3>1. ~ Fail("string_too_long").ok
      BY DEF Fail
    <3>2. v.name \in Seq(Byte) /\ Len(v.name) \in Nat
      BY DEF UserInfo
    <3>. QED BY <1>1, <3>1, <3>2, Limits, Bases
  <2> DEFINE w == bytesOf(v)
             n == Len(v.name)
  <2>2. /\ w \in Seq(Byte) /\ Len(w) = 8 + n
        /\ Read(w, 0, 2) = v.id /\ Signed(Read(w, 2, 2), 2) = v.icon_id
        /\ Read(w, 4, 2) = v.flags /\ Read(w, 6, 2) = n
        /\ At(w, 8, n) = v.name
    BY <2>1, UserWritten
  <2>3. n \in Nat
    BY DEF UserInfo
  <2>4. v = [id |-> v.id, icon_id |-> v.icon_id, flags |-> v.flags, name |-> v.name]
    BY DEF UserInfo
  <2>7. Encode("user", v).value = w
    BY <2>1, GoodIs
  <2> HIDE DEF w, n
  <2>5. Rest(w, 8) = v.name
    BY <2>2, <2>3, RestIs, Offsets
  <2>6. fits(w)
    BY <2>2, <2>3
  <2>8. rec(w) = v
    BY <2>2, <2>4, <2>5
  <2>. QED BY <1>2, <2>2, <2>6, <2>7, <2>8
<1>4. Understood("user")
  <2> SUFFICES ASSUME NEW s \in Seq(Byte), Decode("user", s).ok
               PROVE  Encode("user", Decode("user", s).value) = Good(s)
    BY DEF Understood
  <2> DEFINE n == Read(s, 6, 2)
             v == rec(s)
  <2>1. Len(s) = 8 + n /\ n \in Word /\ Decode("user", s).value = v
    BY <1>2, GoodIs
  <2>2. n \in Nat /\ n <= MaxU16 /\ MaxU16 \in Nat
    BY <2>1, Limits, Bases DEF Word
  <2>3. Rest(s, 8) \in Seq(Byte) /\ Len(Rest(s, 8)) = n /\ At(s, 0, 8) \o Rest(s, 8) = s
    <3> DEFINE o == 8
    <3>1. Len(s) = o + n /\ n \in Nat /\ o \in Nat
      BY <2>1, <2>2
    <3> HIDE DEF n, o
    <3>2. Rest(s, o) \in Seq(Byte) /\ Len(Rest(s, o)) = n /\ At(s, 0, o) \o Rest(s, o) = s
      BY <3>1, RestIs
    <3>. QED BY <3>2 DEF o
  <2>4. 2 <= Len(s) /\ 4 <= Len(s) /\ 6 <= Len(s) /\ 8 <= Len(s)
    BY <2>1, <2>2
  <2>5. U16(Read(s, 0, 2)) = At(s, 0, 2)
    BY <2>4, WordBack, Offsets, Zenon
  <2>6. At(s, 0, 2) \o U16(Read(s, 2, 2)) = At(s, 0, 4) /\ Read(s, 2, 2) \in Word
    BY <2>4, WordBack, Offsets, Zenon
  <2>7. At(s, 0, 4) \o U16(Read(s, 4, 2)) = At(s, 0, 6)
    BY <2>4, WordBack, Offsets, Zenon
  <2>8. At(s, 0, 6) \o U16(Read(s, 6, 2)) = At(s, 0, 8)
    BY <2>4, WordBack, Offsets, Zenon
  <2>9. U16(Signed(Read(s, 2, 2), 2)) = U16(Read(s, 2, 2))
    BY <2>6, SignIsLost
  <2>10. bytesOf(v) = s
    BY <2>3, <2>5, <2>6, <2>7, <2>8, <2>9
  <2>11. Len(v.name) = n
    BY <2>3
  <2> HIDE DEF v, n
  <2>12. ~ (Len(v.name) > MaxU16)
    BY <2>2, <2>11
  <2>13. Encode("user", v) = Good(bytesOf(v))
    BY <1>1, <2>12, Zenon
  <2>. QED BY <2>1, <2>10, <2>13
<1>5. Ended("user")
  <2> SUFFICES ASSUME NEW s \in Seq(Byte), NEW n \in Nat, n < Len(s),
                      Decode("user", s).ok, Decode("user", First(s, n)).ok
               PROVE  FALSE
    BY DEF Ended
  <2> DEFINE u == First(s, n)
  <2>1. u \in Seq(Byte) /\ Len(u) = n /\ Continues(s, u)
    BY Shorter
  <2>2. fits(s) /\ fits(u)
    BY <1>2, <2>1
  <2> HIDE DEF u
  <2>3. Read(s, 6, 2) = Read(u, 6, 2)
    BY <2>1, <2>2 DEF Continues, Read
  <2>. QED BY <2>1, <2>2, <2>3
<1>. QED BY <1>3, <1>4, <1>5 DEF Faithful

\* A header is read the same whatever comes behind it.
LEMMA HeaderInFront ==
  ASSUME NEW s \in Seq(Byte), NEW u \in Seq(Byte), Len(u) = 20, Continues(s, u), 20 <= Len(s)
  PROVE  ReadHeader(s) = ReadHeader(u)
<1>1. At(s, 0, 2) = At(u, 0, 2)
  BY DEF Continues
<1>2. \A i \in 1..2 : At(s, 0, 2)[i] = s[0 + i] /\ At(u, 0, 2)[i] = u[0 + i]
  <2>1. 0 \in Nat /\ 2 \in Nat /\ 0 + 2 <= Len(s) /\ 0 + 2 <= Len(u)
    OBVIOUS
  <2>. QED BY <2>1, Part, Zenon
<1>3. s[1] = u[1] /\ s[2] = u[2]
  BY <1>1, <1>2
<1>4. /\ Read(s, 2, 2) = Read(u, 2, 2) /\ Read(s, 4, 4) = Read(u, 4, 4)
      /\ Read(s, 8, 4) = Read(u, 8, 4) /\ Read(s, 12, 4) = Read(u, 12, 4)
      /\ Read(s, 16, 4) = Read(u, 16, 4)
  BY DEF Continues, Read
<1>. QED BY <1>3, <1>4, Zenon DEF ReadHeader

\* The header of a transaction and the fields it counts.
LEMMA TransactionFaithful == Faithful("transaction")
<1> DEFINE rec(s) == [header |-> ReadHeader(s), data |-> At(s, 20, Read(s, 16, 4))]
           fits(s) == Len(s) >= 20 /\ Len(s) = 20 + Read(s, 16, 4)
           bytesOf(v) == EncodeHeader(v.header) \o v.data
<1>1. /\ Holds("transaction") = WholeTransaction
      /\ \A v : Encode("transaction", v) = Good(bytesOf(v))
      /\ \A s : Decode("transaction", s) = Whole(ReadTransaction(s))
  BY DEF Holds, Encode, Decode, EncodeTransaction
<1>2. /\ \A v \in TransactionHeader : /\ EncodeHeader(v) \in Seq(Byte)
                                     /\ DecodeHeader(EncodeHeader(v)) = Good(v)
      /\ \A s \in Seq(Byte) : DecodeHeader(s).ok => EncodeHeader(DecodeHeader(s).value) = s
  <2>1. Written("header") /\ Understood("header")
    BY HeaderFaithful DEF Faithful
  <2>2. /\ Holds("header") = TransactionHeader
        /\ \A v : Encode("header", v) = Good(EncodeHeader(v))
        /\ \A s : Decode("header", s) = DecodeHeader(s)
    BY DEF Holds, Encode, Decode
  <2>3. ASSUME NEW v \in TransactionHeader
        PROVE  EncodeHeader(v) \in Seq(Byte) /\ DecodeHeader(EncodeHeader(v)) = Good(v)
    <3>1. Encode("header", v).ok /\ Encode("header", v).value = EncodeHeader(v)
      BY <2>2, GoodIs
    <3>. QED BY <2>1, <2>2, <3>1 DEF Written
  <2>4. ASSUME NEW s \in Seq(Byte), DecodeHeader(s).ok
        PROVE  EncodeHeader(DecodeHeader(s).value) = s
    <3>1. Good(EncodeHeader(DecodeHeader(s).value)) = Good(s)
      BY <2>1, <2>2, <2>4 DEF Understood
    <3>. QED BY <3>1, GoodIs
  <2>. QED BY <2>3, <2>4
<1>3. ASSUME NEW s \in Seq(Byte)
      PROVE  /\ DecodeHeader(s).ok <=> Len(s) = 20
             /\ Len(s) = 20 => DecodeHeader(s) = Good(ReadHeader(s))
  <2>1. DecodeHeader(s) = IF Exactly(s, 20).ok THEN Good(ReadHeader(s)) ELSE Exactly(s, 20)
    BY DEF DecodeHeader, Then, TransactionHeaderSize
  <2>2. DecodeHeader(s).ok <=> Len(s) = 20
    BY <2>1, ExactlyIs, GoodIs, Offsets
  <2>3. Len(s) = 20 => DecodeHeader(s) = Good(ReadHeader(s))
    BY <2>1, ExactlyIs, Offsets
  <2>. QED BY <2>2, <2>3
<1>4. ASSUME NEW s \in Seq(Byte)
      PROVE  /\ Decode("transaction", s).ok <=> fits(s)
             /\ fits(s) => Decode("transaction", s) = Good(rec(s)) /\ Read(s, 16, 4) \in Long
  <2> DEFINE n == Read(s, 16, 4)
             h == ReadHeader(s)
             d == At(s, 20, n)
             t == Rest(s, 20 + n)
  <2>1. 16 + 4 = 20 /\ 20 - 4 = 16
    OBVIOUS
  <2>2. Counted(s, 16, 4) = IF Len(s) < 20 THEN Truncated
                            ELSE IF Len(s) < 20 + n THEN Truncated ELSE Got(d, t)
    BY <2>1 DEF Counted
  <2>3. Decode("transaction", s) = Whole(IF Counted(s, 16, 4).ok
                                    THEN Got([header |-> h, data |-> Counted(s, 16, 4).value],
                                             Counted(s, 16, 4).rest)
                                    ELSE Counted(s, 16, 4))
    BY <1>1, <2>1 DEF ReadTransaction, Then, TransactionHeaderSize
  <2>4. ~ Truncated.ok /\ ~ Fail("trailing_bytes").ok
    BY DEF Truncated, Fail
  <2>5. Got(d, t).ok /\ Got(d, t).value = d /\ Got(d, t).rest = t
    BY DEF Got
  <2> DEFINE r == [header |-> h, data |-> d]
  <2>6. Got(r, t).ok /\ Got(r, t).value = r /\ Got(r, t).rest = t
    BY DEF Got
  <2>7. Whole(Truncated) = Truncated
    BY <2>4 DEF Whole, Then
  <2>8. Whole(Got(r, t)) = IF t # << >> THEN Fail("trailing_bytes") ELSE Good(r)
    <3> DEFINE g == Got(r, t)
    <3>1. g.ok /\ g.value = r /\ g.rest = t
      BY <2>6
    <3> HIDE DEF g
    <3>2. Whole(g) = IF g.rest # << >> THEN Fail("trailing_bytes") ELSE Good(g.value)
      BY <3>1 DEF Whole, Then
    <3>. QED BY <3>1, <3>2 DEF g
  <2>9. CASE Len(s) < 20
    <3>1. Decode("transaction", s) = Truncated
      BY <2>2, <2>3, <2>4, <2>7, <2>9
    <3>. QED BY <2>4, <2>9, <3>1
  <2>10. CASE ~ (Len(s) < 20)
    <3>1. 20 <= Len(s) /\ Len(s) >= 20
      BY <2>10
    <3>2. n \in Long
      BY <3>1, LongBack, Offsets, Zenon
    <3>3. n \in Nat
      BY <3>2, Limits DEF Long
    <3> HIDE DEF n
    <3>4. CASE Len(s) < 20 + n
      <4>1. Decode("transaction", s) = Truncated
        BY <2>2, <2>3, <2>4, <2>7, <3>4
      <4>. QED BY <2>4, <3>3, <3>4, <4>1 DEF n
    <3>5. CASE ~ (Len(s) < 20 + n)
      <4>1. Decode("transaction", s) = Whole(Got(r, t))
        BY <2>2, <2>3, <2>5, <2>10, <3>5
      <4>2. t = << >> <=> Len(s) = 20 + n
        <5> DEFINE o == 20 + n
                   k == Len(s) - o
        <5>1. o \in Nat /\ k \in Nat /\ Len(s) = o + k /\ (Len(s) = o <=> k = 0)
          BY <3>3, <3>5
        <5> HIDE DEF o, k
        <5>2. Rest(s, o) \in Seq(Byte) /\ Len(Rest(s, o)) = k
          BY <5>1, RestIs
        <5>3. Rest(s, o) = << >> <=> k = 0
          BY <5>1, <5>2
        <5>. QED BY <5>1, <5>3 DEF o
      <4> HIDE DEF r, t
      <4>3. Decode("transaction", s).ok <=> Len(s) = 20 + n
        BY <2>4, <2>8, <4>1, <4>2, GoodIs
      <4>4. Len(s) = 20 + n => Decode("transaction", s) = Good(r)
        BY <2>8, <4>1, <4>2
      <4>. QED BY <3>1, <3>2, <4>3, <4>4 DEF r, n
    <3>. QED BY <3>4, <3>5
  <2>. QED BY <2>9, <2>10
<1>5. Written("transaction")
  <2> SUFFICES ASSUME NEW v \in WholeTransaction
               PROVE  /\ Encode("transaction", v).value \in Seq(Byte)
                      /\ Decode("transaction", Encode("transaction", v).value) = Good(v)
    BY <1>1 DEF Written
  <2> DEFINE u == EncodeHeader(v.header)
             n == Len(v.data)
             w == u \o v.data
  <2>1. /\ v.header \in TransactionHeader /\ v.data \in Seq(Byte) /\ n \in Nat
        /\ v.header.data_size = n /\ v = [header |-> v.header, data |-> v.data]
    BY DEF WholeTransaction
  <2>2. u \in Seq(Byte) /\ DecodeHeader(u) = Good(v.header)
    BY <1>2, <2>1
  <2>3. Len(u) = 20 /\ ReadHeader(u) = v.header
    <3> HIDE DEF u
    <3>. QED BY <1>3, <2>2, GoodIs
  <2>4. Encode("transaction", v).value = w
    BY <1>1, GoodIs
  <2> HIDE DEF u, n
  <2>5. /\ w \in Seq(Byte) /\ Len(w) = Len(u) + n
        /\ At(w, Len(u), n) = v.data /\ Continues(w, u)
    BY <2>1, <2>2, RunAppended DEF n
  <2> HIDE DEF w
  <2>6. Len(w) = 20 + n /\ 20 <= Len(w) /\ At(w, 20, n) = v.data
    BY <2>1, <2>3, <2>5
  <2>7. ReadHeader(w) = v.header
    BY <2>2, <2>3, <2>5, <2>6, HeaderInFront
  <2>8. Read(w, 16, 4) = n
    <3>1. ReadHeader(w).data_size = Read(w, 16, 4)
      BY DEF ReadHeader
    <3>. QED BY <2>1, <2>7, <3>1
  <2>9. fits(w) /\ rec(w) = v
    BY <2>1, <2>6, <2>7, <2>8
  <2>. QED BY <1>4, <2>4, <2>5, <2>9
<1>6. Understood("transaction")
  <2> SUFFICES ASSUME NEW s \in Seq(Byte), Decode("transaction", s).ok
               PROVE  Encode("transaction", Decode("transaction", s).value) = Good(s)
    BY DEF Understood
  <2> DEFINE n == Read(s, 16, 4)
             u == At(s, 0, 20)
  <2>1. Len(s) = 20 + n /\ n \in Long /\ Decode("transaction", s).value = rec(s)
    BY <1>4, GoodIs
  <2>2. n \in Nat /\ 20 + n <= Len(s) /\ 20 <= Len(s) /\ 0 + 20 <= Len(s)
    BY <2>1, Limits DEF Long
  <2>3. u \in Seq(Byte) /\ Len(u) = 20
    <3> DEFINE o == 20
    <3>1. 0 \in Nat /\ o \in Nat /\ 0 + o <= Len(s)
      BY <2>2
    <3> HIDE DEF o
    <3>2. At(s, 0, o) \in Seq(Byte) /\ Len(At(s, 0, o)) = o
      BY <3>1, Part
    <3>. QED BY <3>2 DEF o
  <2>4. Continues(s, u)
    <3>1. CASE Len(s) = 20
      <4>1. u = s
        BY <3>1, AllOfIt
      <4>. QED BY <4>1 DEF Continues
    <3>2. CASE 20 < Len(s)
      <4>1. Continues(s, First(s, 20))
        BY <3>2, Shorter, Offsets
      <4>2. First(s, 20) = u
        <5>1. 0 + 1 = 1 /\ 0 + 20 = 20
          OBVIOUS
        <5>. QED BY <5>1 DEF First, At
      <4>. QED BY <4>1, <4>2
    <3>3. Len(s) = 20 \/ 20 < Len(s)
      <4> DEFINE l == Len(s)
      <4>1. 20 <= l /\ l \in Nat
        BY <2>2, LenProperties, Zenon
      <4> HIDE DEF l
      <4>2. l = 20 \/ 20 < l
        BY <4>1
      <4>. QED BY <4>2 DEF l
    <3>. QED BY <3>1, <3>2, <3>3, Zenon
  <2>5. EncodeHeader(ReadHeader(s)) = u
    <3> HIDE DEF u
    <3>1. ReadHeader(s) = ReadHeader(u)
      BY <2>2, <2>3, <2>4, HeaderInFront
    <3>2. DecodeHeader(u).ok /\ DecodeHeader(u).value = ReadHeader(u)
      BY <1>3, <2>3, GoodIs
    <3>. QED BY <1>2, <2>3, <3>1, <3>2
  <2>6. u \o At(s, 20, n) = s
    <3> DEFINE o == 20
               l == Len(s)
    <3>1. o \in Nat /\ l \in Nat /\ n \in Nat /\ o + n = l /\ l <= Len(s)
      BY <2>1, <2>2
    <3> HIDE DEF o, l, n
    <3>2. At(s, 0, o) \o At(s, o, n) = At(s, 0, l)
      BY <3>1, PartsMeet, Zenon
    <3>3. At(s, 0, l) = s
      BY AllOfIt DEF l
    <3>. QED BY <3>2, <3>3 DEF o
  <2>7. bytesOf(rec(s)) = s
    BY <2>5, <2>6
  <2>. QED BY <1>1, <2>1, <2>7
<1>7. Ended("transaction")
  <2> SUFFICES ASSUME NEW s \in Seq(Byte), NEW n \in Nat, n < Len(s),
                      Decode("transaction", s).ok, Decode("transaction", First(s, n)).ok
               PROVE  FALSE
    BY DEF Ended
  <2> DEFINE u == First(s, n)
  <2>1. u \in Seq(Byte) /\ Len(u) = n /\ Continues(s, u)
    BY Shorter
  <2>2. fits(s) /\ fits(u)
    BY <1>4, <2>1
  <2> HIDE DEF u
  <2>3. Read(s, 16, 4) = Read(u, 16, 4)
    BY <2>1, <2>2 DEF Continues, Read
  <2>. QED BY <2>1, <2>2, <2>3
<1>. QED BY <1>5, <1>6, <1>7 DEF Faithful

-----------------------------------------------------------------------------
(* Numbers and runs of bytes by themselves, whose length is known.         *)

(* What comes back is what was meant, and what was read is written again   *)
(* but for the bytes that a decoder passes over.                           *)
Returned(k) ==
  \A v \in Holds(k) :
    Encode(k, v).ok =>
      /\ Encode(k, v).value \in Seq(Byte)
      /\ Decode(k, Encode(k, v).value) = Good(Meant(k, v))

Reproduced(k) ==
  \A s \in Seq(Byte) :
    Decode(k, s).ok =>
      \A again \in {Encode(k, Decode(k, s).value)} :
        /\ again.ok
        /\ Len(again.value) = Len(s)
        /\ {i \in 1..Len(s) : again.value[i] # s[i]} \subseteq Ignored(k, Decode(k, s).value)

\* The value of an IntegerData field, positive or negative, in two bytes or four.
LEMMA IntegerReturned == Returned("integer")
<1> SUFFICES ASSUME NEW v \in SignedLong
             PROVE  /\ Encode("integer", v).value \in Seq(Byte)
                    /\ Decode("integer", Encode("integer", v).value) = Good(Meant("integer", v))
  BY DEF Returned, Holds
<1> DEFINE x == IntegerData(v)
<1>1. Encode("integer", v).value = x /\ Meant("integer", v) = v
      /\ Decode("integer", x) = DecodeInteger(x)
  BY GoodIs DEF Encode, Decode, Meant
<1>2. PICK w \in Long : v = Signed(w, 4)
  BY DEF SignedLong
<1>3. w \in Nat /\ w <= MaxU32
  BY Limits DEF Long
<1>4. CASE v \in 0..MaxU16
  <2>1. x = U16(v) /\ v \in Nat /\ v <= MaxU16
    BY <1>4 DEF IntegerData
  <2>2. x \in Seq(Byte) /\ Len(x) = 2 /\ Number(x) = v
    BY <2>1, WordWritten
  <2> HIDE DEF x
  <2>3. DecodeInteger(x) = Good(v)
    BY <2>2 DEF DecodeInteger
  <2>. QED BY <1>1, <2>2, <2>3
<1>5. CASE v \notin 0..MaxU16
  <2>1. x = U32(w)
    BY <1>2, <1>5, SignOfLongIsLost DEF IntegerData
  <2>2. x \in Seq(Byte) /\ Len(x) = 4 /\ Number(x) = w
    BY <1>3, <2>1, LongWritten
  <2> HIDE DEF x
  <2>3. DecodeInteger(x) = Good(Signed(w, 4))
    BY <2>2 DEF DecodeInteger
  <2>. QED BY <1>1, <1>2, <2>2, <2>3
<1>. QED BY <1>4, <1>5

\* Every bit inverted twice.
LEMMA ScrambledReturned == Returned("scrambled")
<1> SUFFICES ASSUME NEW v \in Seq(Byte)
             PROVE  /\ Encode("scrambled", v).value \in Seq(Byte)
                    /\ Decode("scrambled", Encode("scrambled", v).value)
                      = Good(Meant("scrambled", v))
  BY DEF Returned, Holds
<1> DEFINE x == Scramble(v)
           y == Scramble(x)
<1>1. Encode("scrambled", v).value = x /\ Meant("scrambled", v) = v
      /\ Decode("scrambled", x) = Good(y)
  BY GoodIs DEF Encode, Decode, Meant
<1>2. \A byte \in Byte : MaxU8 - byte \in Byte /\ MaxU8 - (MaxU8 - byte) = byte
  BY Limits DEF Byte
<1>3. \A i \in 1..Len(v) : v[i] \in Byte
  BY ElementOfSeq
<1>4. x \in Seq(Byte) /\ Len(x) = Len(v) /\ \A i \in 1..Len(v) : x[i] = MaxU8 - v[i]
  BY <1>2, <1>3 DEF Scramble
<1>5. \A i \in 1..Len(x) : x[i] \in Byte
  BY <1>4, ElementOfSeq
<1> HIDE DEF x
<1>6. y \in Seq(Byte) /\ Len(y) = Len(x) /\ \A i \in 1..Len(x) : y[i] = MaxU8 - x[i]
  BY <1>2, <1>4, <1>5 DEF Scramble
<1> HIDE DEF y
<1>7. \A i \in 1..Len(v) : y[i] = v[i]
  BY <1>2, <1>3, <1>4, <1>6
<1>8. y = v
  BY <1>4, <1>6, <1>7, SameRun
<1>. QED BY <1>1, <1>4, <1>8

-----------------------------------------------------------------------------
(* Records of which a decoder passes over some bytes.                      *)

\* u is what s begins with up to an offset, but for the bytes in S.
Agrees(u, s, S, o) ==
  /\ s \in Seq(Byte) /\ u \in Seq(Byte) /\ o \in Nat /\ Len(u) = o /\ o <= Len(s)
  /\ \A i \in 1..o : i \notin S => u[i] = s[i]

\* x is what comes there, copied or passed over.
Comes(x, s, S, o, n) ==
  /\ x \in Seq(Byte) /\ n \in Nat /\ Len(x) = n /\ o + n <= Len(s)
  /\ x = At(s, o, n) \/ Span(o, n) \subseteq S

LEMMA BeginsWith ==
  ASSUME NEW s \in Seq(Byte), NEW n \in Nat, n <= Len(s), NEW S
  PROVE  Agrees(At(s, 0, n), s, S, n)
<1>1. 0 \in Nat /\ 0 + n <= Len(s) /\ \A i \in 1..n : 0 + i = i
  OBVIOUS
<1>2. /\ At(s, 0, n) \in Seq(Byte) /\ Len(At(s, 0, n)) = n
      /\ \A i \in 1..n : At(s, 0, n)[i] = s[0 + i]
  BY <1>1, Part, Zenon
<1>. QED BY <1>1, <1>2 DEF Agrees

LEMMA CopyComes ==
  ASSUME NEW s \in Seq(Byte), NEW S, NEW o \in Nat, NEW n \in Nat, o + n <= Len(s)
  PROVE  Comes(At(s, o, n), s, S, o, n)
BY Part DEF Comes

LEMMA AgreesOn ==
  ASSUME NEW s, NEW u, NEW x, NEW S, NEW o, NEW n, NEW l,
         Agrees(u, s, S, o), Comes(x, s, S, o, n), o + n = l
  PROVE  Agrees(u \o x, s, S, l)
<1>1. /\ s \in Seq(Byte) /\ u \in Seq(Byte) /\ o \in Nat /\ Len(u) = o
      /\ \A i \in 1..o : i \notin S => u[i] = s[i]
  BY DEF Agrees
<1>2. x \in Seq(Byte) /\ n \in Nat /\ Len(x) = n /\ o + n <= Len(s)
  BY DEF Comes
<1>3. \A i \in 1..n : o + i \in S \/ x[i] = s[o + i]
  <2>1. CASE x = At(s, o, n)
    <3>1. \A i \in 1..n : At(s, o, n)[i] = s[o + i]
      BY <1>1, <1>2, Part
    <3>. QED BY <2>1, <3>1
  <2>2. CASE Span(o, n) \subseteq S
    <3>1. \A i \in 1..n : o + i \in Span(o, n)
      BY <1>1, <1>2 DEF Span
    <3>. QED BY <2>2, <3>1
  <2>. QED BY <2>1, <2>2 DEF Comes
<1> DEFINE w == u \o x
<1>4. /\ w \in Seq(Byte) /\ Len(w) = o + n
      /\ \A i \in 1..o + n : w[i] = IF i <= o THEN u[i] ELSE x[i - o]
  BY <1>1, <1>2, ConcatProperties
<1> HIDE DEF w
<1>5. \A i \in 1..o + n : i \notin S => w[i] = s[i]
  <2> SUFFICES ASSUME NEW i \in 1..o + n, i \notin S
               PROVE  w[i] = s[i]
    OBVIOUS
  <2>1. CASE i <= o
    BY <1>1, <1>4, <2>1
  <2>2. CASE i > o
    <3> DEFINE j == i - o
    <3>1. j \in 1..n /\ o + j = i
      BY <1>1, <1>2, <2>2
    <3>2. w[i] = x[j]
      <4>1. w[i] = IF i <= o THEN u[i] ELSE x[j]
        BY <1>4
      <4>2. ~ (i <= o)
        BY <1>1, <2>2
      <4>. QED BY <4>1, <4>2
    <3> HIDE DEF j
    <3>. QED BY <1>3, <3>1, <3>2
  <2>. QED BY <1>1, <2>1, <2>2
<1>6. Agrees(w, s, S, l)
  BY <1>1, <1>2, <1>4, <1>5 DEF Agrees
<1>. QED BY <1>6 DEF w

\* The four bytes of a type or a creator, from the other end.
LEMMA ReversedFour ==
  ASSUME NEW x \in Seq(Byte), Len(x) = 4
  PROVE  Reverse(x) \in Seq(Byte) /\ Len(Reverse(x)) = 4 /\ Reverse(Reverse(x)) = x
<1>1. \A i \in 1..4 : x[i] \in Byte /\ (4 - i) + 1 \in 1..4
  <2>1. \A i \in 1..Len(x) : x[i] \in Byte
    BY ElementOfSeq
  <2>. QED BY <2>1
<1> DEFINE y == Reverse(x)
<1>2. y = [i \in 1..4 |-> x[(4 - i) + 1]]
  BY DEF Reverse
<1> HIDE DEF y
<1>3. y \in Seq(Byte) /\ Len(y) = 4 /\ \A i \in 1..4 : y[i] = x[(4 - i) + 1]
  BY <1>1, <1>2
<1> DEFINE z == Reverse(y)
<1>4. \A i \in 1..4 : y[i] \in Byte
  BY <1>3, ElementOfSeq
<1>5. z = [i \in 1..4 |-> y[(4 - i) + 1]]
  BY <1>3 DEF Reverse
<1> HIDE DEF z
<1>6. z \in Seq(Byte) /\ Len(z) = 4 /\ \A i \in 1..4 : z[i] = y[(4 - i) + 1]
  BY <1>1, <1>4, <1>5
<1>7. \A i \in 1..4 : z[i] = x[i]
  <2> SUFFICES ASSUME NEW i \in 1..4
               PROVE  z[i] = x[i]
    OBVIOUS
  <2> DEFINE j == (4 - i) + 1
  <2>1. j \in 1..4 /\ (4 - j) + 1 = i
    OBVIOUS
  <2>2. z[i] = y[j]
    BY <1>6
  <2> HIDE DEF j
  <2>3. y[j] = x[(4 - j) + 1]
    BY <1>3, <2>1
  <2>. QED BY <2>1, <2>2, <2>3
<1>8. z = x
  BY <1>6, <1>7, SameRun
<1>. QED BY <1>3, <1>8 DEF y, z

LEMMA LittleWritten ==
  ASSUME NEW v \in Long
  PROVE  U32LE(v) \in Seq(Byte) /\ Len(U32LE(v)) = 4 /\ Number(Reverse(U32LE(v))) = v
<1>1. v \in Nat /\ v <= MaxU32
  BY Limits DEF Long
<1>2. U32(v) \in Seq(Byte) /\ Len(U32(v)) = 4 /\ Number(U32(v)) = v
  BY <1>1, LongWritten
<1>. QED BY <1>2, ReversedFour DEF U32LE

LEMMA FourAt ==
  ASSUME NEW s \in Seq(Byte), NEW o \in Nat, NEW l \in Nat, o + 4 = l, l <= Len(s)
  PROVE  /\ At(s, o, 4) \in Seq(Byte) /\ Len(At(s, o, 4)) = 4
         /\ At(s, 0, o) \o At(s, o, 4) = At(s, 0, l)
<1>1. 4 \in Nat /\ o + 4 <= Len(s)
  OBVIOUS
<1>. QED BY <1>1, Part, PartsMeet

LEMMA LittleRead ==
  ASSUME NEW x \in Seq(Byte), Len(x) = 4
  PROVE  U32LE(Number(Reverse(x))) = x
<1>1. Reverse(x) \in Seq(Byte) /\ Len(Reverse(x)) = 4 /\ Reverse(Reverse(x)) = x
  BY ReversedFour
<1>2. U32(Number(Reverse(x))) = Reverse(x)
  BY <1>1, LongRead
<1>. QED BY <1>1, <1>2 DEF U32LE

LEMMA FileWritten ==
  ASSUME NEW info \in FileInfo, Len(info.name) <= MaxU16
  PROVE  LET w == U32LE(info.type) \o U32LE(info.creator) \o U32(info.file_size) \o U32(0)
                    \o U16(info.name_script) \o U16(Len(info.name)) \o info.name
         IN  /\ w \in Seq(Byte) /\ Len(w) = 20 + Len(info.name)
             /\ Number(Reverse(At(w, 0, 4))) = info.type
             /\ Number(Reverse(At(w, 4, 4))) = info.creator
             /\ Read(w, 8, 4) = info.file_size /\ Read(w, 16, 2) = info.name_script
             /\ Read(w, 18, 2) = Len(info.name) /\ At(w, 20, Len(info.name)) = info.name
<1> DEFINE name == info.name
           n == Len(name)
           a == U32LE(info.type)
           b == U32LE(info.creator)
           u2 == a \o b
           u3 == u2 \o U32(info.file_size)
           u4 == u3 \o U32(0)
           u5 == u4 \o U16(info.name_script)
           u6 == u5 \o U16(n)
           u7 == u6 \o name
<1>0. /\ info.type \in Long /\ info.creator \in Long /\ info.file_size \in Long
      /\ info.name_script \in Word /\ name \in Seq(Byte) /\ n \in Nat /\ n \in Word /\ 0 \in Long
  BY Limits, Bases DEF FileInfo, Word, Long
<1> HIDE DEF name, n
<1>1. /\ a \in Seq(Byte) /\ Len(a) = 4 /\ Number(Reverse(a)) = info.type
      /\ b \in Seq(Byte) /\ Len(b) = 4 /\ Number(Reverse(b)) = info.creator
  BY <1>0, LittleWritten
<1> HIDE DEF a, b
<1>2. /\ u2 \in Seq(Byte) /\ Len(u2) = Len(a) + 4
      /\ At(u2, Len(a), 4) = b /\ Continues(u2, a)
  BY <1>1, RunAppended
<1> HIDE DEF u2
<1>3. /\ u3 \in Seq(Byte) /\ Len(u3) = Len(u2) + 4
      /\ Read(u3, Len(u2), 4) = info.file_size /\ Continues(u3, u2)
  BY <1>0, <1>2, LongAppended, Zenon
<1> HIDE DEF u3
<1>4. u4 \in Seq(Byte) /\ Len(u4) = Len(u3) + 4 /\ Continues(u4, u3)
  BY <1>0, <1>3, LongAppended, Zenon
<1> HIDE DEF u4
<1>5. /\ u5 \in Seq(Byte) /\ Len(u5) = Len(u4) + 2
      /\ Read(u5, Len(u4), 2) = info.name_script /\ Continues(u5, u4)
  BY <1>0, <1>4, WordAppended, Zenon
<1> HIDE DEF u5
<1>6. /\ u6 \in Seq(Byte) /\ Len(u6) = Len(u5) + 2
      /\ Read(u6, Len(u5), 2) = n /\ Continues(u6, u5)
  BY <1>0, <1>5, WordAppended, Zenon
<1> HIDE DEF u6
<1>7. /\ u7 \in Seq(Byte) /\ Len(u7) = Len(u6) + n
      /\ At(u7, Len(u6), n) = name /\ Continues(u7, u6)
  BY <1>0, <1>6, RunAppended DEF n
<1> HIDE DEF u7
<1>8. /\ Len(u2) = 8 /\ Len(u3) = 12 /\ Len(u4) = 16 /\ Len(u5) = 18 /\ Len(u6) = 20
      /\ Len(u7) = 20 + n
  BY <1>0, <1>1, <1>2, <1>3, <1>4, <1>5, <1>6, <1>7
<1>9. /\ At(u6, 0, 4) = a /\ At(u6, 4, 4) = b /\ Read(u6, 8, 4) = info.file_size
      /\ Read(u6, 16, 2) = info.name_script /\ Read(u6, 18, 2) = n
  <2>1. At(a, 0, 4) = a
    BY <1>1, AllOfIt
  <2>2. At(u2, 0, 4) = a /\ At(u2, 4, 4) = b
    BY <1>1, <1>2, <2>1 DEF Continues
  <2>3. At(u3, 0, 4) = a /\ At(u3, 4, 4) = b /\ Read(u3, 8, 4) = info.file_size
    BY <1>3, <1>8, <2>2 DEF Continues, Read
  <2>4. At(u4, 0, 4) = a /\ At(u4, 4, 4) = b /\ Read(u4, 8, 4) = info.file_size
    BY <1>4, <1>8, <2>3 DEF Continues, Read
  <2>5. /\ At(u5, 0, 4) = a /\ At(u5, 4, 4) = b /\ Read(u5, 8, 4) = info.file_size
        /\ Read(u5, 16, 2) = info.name_script
    BY <1>5, <1>8, <2>4 DEF Continues, Read
  <2>. QED BY <1>6, <1>8, <2>5 DEF Continues, Read
<1>10. /\ At(u7, 0, 4) = a /\ At(u7, 4, 4) = b /\ Read(u7, 8, 4) = info.file_size
       /\ Read(u7, 16, 2) = info.name_script /\ Read(u7, 18, 2) = n
  BY <1>7, <1>8, <1>9 DEF Continues, Read
<1>11. At(u7, 20, n) = name
  BY <1>7, <1>8, Zenon
<1>12. u7 = U32LE(info.type) \o U32LE(info.creator) \o U32(info.file_size) \o U32(0)
              \o U16(info.name_script) \o U16(n) \o name
  BY DEF a, b, u2, u3, u4, u5, u6, u7
<1>13. /\ u7 \in Seq(Byte) /\ Len(u7) = 20 + n
       /\ Number(Reverse(At(u7, 0, 4))) = info.type
       /\ Number(Reverse(At(u7, 4, 4))) = info.creator
  BY <1>1, <1>7, <1>8, <1>10, Zenon
<1>. QED BY <1>10, <1>11, <1>12, <1>13, Zenon DEF n, name

\* An entry of a file list, between whose size and script are four bytes of zeros.
LEMMA FileFaithful == Returned("file") /\ Reproduced("file") /\ Ended("file")
<1> DEFINE rec(s) == [type |-> Number(Reverse(At(s, 0, 4))),
                      creator |-> Number(Reverse(At(s, 4, 4))),
                      file_size |-> Read(s, 8, 4), name_script |-> Read(s, 16, 2),
                      name |-> Rest(s, 20)]
           fits(s) == Len(s) >= 20 /\ Len(s) = 20 + Read(s, 18, 2)
           bytesOf(v) == U32LE(v.type) \o U32LE(v.creator) \o U32(v.file_size) \o U32(0)
                           \o U16(v.name_script) \o U16(Len(v.name)) \o v.name
<1>1. /\ Holds("file") = FileInfo
      /\ \A v : Encode("file", v) = IF Len(v.name) > MaxU16 THEN Fail("string_too_long")
                                   ELSE Good(bytesOf(v))
      /\ \A s : Decode("file", s) = DecodeFileInfo(s)
  BY DEF Holds, Encode, Decode, EncodeFileInfo
<1>2. ASSUME NEW s \in Seq(Byte)
      PROVE  /\ Decode("file", s).ok <=> fits(s)
             /\ fits(s) => Decode("file", s) = Good(rec(s)) /\ Read(s, 18, 2) \in Word
  <2> DEFINE r == rec(s)
  <2>1. DecodeFileInfo(s) =
          IF Len(s) < 20 THEN Truncated
          ELSE IF Exactly(s, 20 + Read(s, 18, 2)).ok THEN Good(r)
               ELSE Exactly(s, 20 + Read(s, 18, 2))
    BY DEF DecodeFileInfo, Then, FileInfoHeaderSize
  <2> HIDE DEF r
  <2>2. ~ Truncated.ok
    BY DEF Truncated, Fail
  <2>3. CASE Len(s) < 20
    BY <1>1, <2>1, <2>2, <2>3
  <2>4. CASE ~ (Len(s) < 20)
    <3> DEFINE size == 20 + Read(s, 18, 2)
    <3>1. 20 <= Len(s) /\ Len(s) >= 20
      BY <2>4
    <3>2. Read(s, 18, 2) \in Word
      BY <3>1, WordBack, Offsets, Zenon
    <3>3. size \in Nat
      BY <3>2, Limits DEF Word
    <3>4. DecodeFileInfo(s) = IF Exactly(s, size).ok THEN Good(r) ELSE Exactly(s, size)
      BY <2>1, <2>4
    <3> HIDE DEF size
    <3>5. DecodeFileInfo(s).ok <=> Len(s) = size
      BY <3>3, <3>4, ExactlyIs, GoodIs
    <3>6. Len(s) = size => DecodeFileInfo(s) = Good(r)
      BY <3>3, <3>4, ExactlyIs
    <3>. QED BY <1>1, <3>1, <3>2, <3>5, <3>6 DEF size, r
  <2>. QED BY <2>3, <2>4
<1>3. Returned("file")
  <2> SUFFICES ASSUME NEW v \in FileInfo, Encode("file", v).ok
               PROVE  /\ Encode("file", v).value \in Seq(Byte)
                      /\ Decode("file", Encode("file", v).value) = Good(v)
    <3>1. \A v : Meant("file", v) = v
      BY DEF Meant
    <3>. QED BY <1>1, <3>1 DEF Returned
  <2>1. Len(v.name) <= MaxU16 /\ Encode("file", v) = Good(bytesOf(v))
    <3>1. ~ Fail("string_too_long").ok
      BY DEF Fail
    <3>2. v.name \in Seq(Byte) /\ Len(v.name) \in Nat
      BY DEF FileInfo
    <3>. QED BY <1>1, <3>1, <3>2, Limits, Bases
  <2> DEFINE w == bytesOf(v)
             n == Len(v.name)
  <2>2. /\ w \in Seq(Byte) /\ Len(w) = 20 + n
        /\ Number(Reverse(At(w, 0, 4))) = v.type /\ Number(Reverse(At(w, 4, 4))) = v.creator
        /\ Read(w, 8, 4) = v.file_size /\ Read(w, 16, 2) = v.name_script
        /\ Read(w, 18, 2) = n /\ At(w, 20, n) = v.name
    BY <2>1, FileWritten
  <2>3. n \in Nat
    BY DEF FileInfo
  <2>4. v = [type |-> v.type, creator |-> v.creator, file_size |-> v.file_size,
             name_script |-> v.name_script, name |-> v.name]
    BY DEF FileInfo
  <2>7. Encode("file", v).value = w
    BY <2>1, GoodIs
  <2> HIDE DEF w, n
  <2>5. Rest(w, 20) = v.name
    BY <2>2, <2>3, RestIs, Offsets
  <2>6. fits(w)
    BY <2>2, <2>3
  <2>8. rec(w) = v
    BY <2>2, <2>4, <2>5
  <2>. QED BY <1>2, <2>2, <2>6, <2>7, <2>8
<1>4. Reproduced("file")
  <2> SUFFICES ASSUME NEW s \in Seq(Byte), Decode("file", s).ok
               PROVE  LET again == Encode("file", Decode("file", s).value)
                      IN  /\ again.ok
                          /\ Len(again.value) = Len(s)
                          /\ {i \in 1..Len(s) : again.value[i] # s[i]}
                               \subseteq Ignored("file", Decode("file", s).value)
    BY Zenon DEF Reproduced
  <2> DEFINE n == Read(s, 18, 2)
             v == rec(s)
             S == Span(12, 4)
  <2>1. Len(s) = 20 + n /\ n \in Word /\ Decode("file", s).value = v
    BY <1>2, GoodIs
  <2>2. n \in Nat /\ n <= MaxU16 /\ MaxU16 \in Nat
    BY <2>1, Limits, Bases DEF Word
  <2>3. Rest(s, 20) \in Seq(Byte) /\ Len(Rest(s, 20)) = n /\ Rest(s, 20) = At(s, 20, n)
    <3> DEFINE o == 20
    <3>1. Len(s) = o + n /\ n \in Nat /\ o \in Nat
      BY <2>1, <2>2
    <3> HIDE DEF n, o
    <3>2. Rest(s, o) \in Seq(Byte) /\ Len(Rest(s, o)) = n /\ Rest(s, o) = At(s, o, n)
      BY <3>1, RestIs
    <3>. QED BY <3>2 DEF o
  <2>4. 4 <= Len(s) /\ 8 <= Len(s) /\ 12 <= Len(s) /\ 16 <= Len(s) /\ 18 <= Len(s) /\ 20 <= Len(s)
    BY <2>1, <2>2
  <2>5. U32LE(v.type) = At(s, 0, 4) /\ U32LE(v.creator) = At(s, 4, 4)
    <3>1. /\ At(s, 0, 4) \in Seq(Byte) /\ Len(At(s, 0, 4)) = 4
          /\ At(s, 4, 4) \in Seq(Byte) /\ Len(At(s, 4, 4)) = 4
      BY <2>4, FourAt, Offsets, Zenon
    <3>. QED BY <3>1, LittleRead
  <2>6. At(s, 0, 4) \o At(s, 4, 4) = At(s, 0, 8)
    BY <2>4, FourAt, Offsets, Zenon
  <2>7. At(s, 0, 8) \o U32(Read(s, 8, 4)) = At(s, 0, 12)
    BY <2>4, LongBack, Offsets, Zenon
  <2>8. U16(Read(s, 16, 2)) = At(s, 16, 2) /\ U16(Read(s, 18, 2)) = At(s, 18, 2)
    BY <2>4, WordBack, Offsets, Zenon
  <2> DEFINE u3 == At(s, 0, 12)
             u4 == u3 \o U32(0)
             u5 == u4 \o At(s, 16, 2)
             u6 == u5 \o At(s, 18, 2)
             u7 == u6 \o At(s, 20, n)
  <2>9. bytesOf(v) = u7 /\ Len(v.name) = n
    BY <2>3, <2>5, <2>6, <2>7, <2>8
  <2>10. Ignored("file", v) = S
    BY DEF Ignored
  <2>11. Encode("file", v) = Good(bytesOf(v))
    <3>1. ~ (Len(v.name) > MaxU16)
      BY <2>2, <2>9
    <3>. QED BY <1>1, <3>1, Zenon
  <2> HIDE DEF v, n, S
  <2>12. Agrees(u3, s, S, 12)
    BY <2>4, BeginsWith, Offsets, Zenon
  <2> HIDE DEF u3
  <2>13. Agrees(u4, s, S, 16)
    <3>1. U32(0) \in Seq(Byte) /\ Len(U32(0)) = 4
      BY LongWritten
    <3>2. 12 + 4 <= Len(s) /\ Span(12, 4) \subseteq S
      BY <2>4 DEF S
    <3>3. Comes(U32(0), s, S, 12, 4)
      BY <3>1, <3>2, Offsets, Zenon DEF Comes
    <3>4. 12 + 4 = 16
      OBVIOUS
    <3>. QED BY <2>12, <3>3, <3>4, AgreesOn, Zenon
  <2> HIDE DEF u4
  <2>14. Agrees(u5, s, S, 18)
    <3>1. 16 + 2 <= Len(s)
      BY <2>4
    <3>2. Comes(At(s, 16, 2), s, S, 16, 2)
      BY <3>1, CopyComes, Offsets, Zenon
    <3>3. 16 + 2 = 18
      OBVIOUS
    <3>. QED BY <2>13, <3>2, <3>3, AgreesOn, Zenon
  <2> HIDE DEF u5
  <2>15. Agrees(u6, s, S, 20)
    <3>1. 18 + 2 <= Len(s)
      BY <2>4
    <3>2. Comes(At(s, 18, 2), s, S, 18, 2)
      BY <3>1, CopyComes, Offsets, Zenon
    <3>3. 18 + 2 = 20
      OBVIOUS
    <3>. QED BY <2>14, <3>2, <3>3, AgreesOn, Zenon
  <2> HIDE DEF u6
  <2>16. Agrees(u7, s, S, Len(s))
    <3>1. 20 + n <= Len(s) /\ 20 + n = Len(s)
      BY <2>1, <2>2
    <3>2. Comes(At(s, 20, n), s, S, 20, n)
      BY <2>2, <3>1, CopyComes, Offsets, Zenon
    <3>. QED BY <2>15, <3>1, <3>2, AgreesOn, Zenon
  <2> HIDE DEF u7
  <2>17. Len(u7) = Len(s) /\ {i \in 1..Len(s) : u7[i] # s[i]} \subseteq S
    BY <2>16 DEF Agrees
  <2>18. Encode("file", v).ok /\ Encode("file", v).value = u7
    BY <2>9, <2>11, GoodIs
  <2>. QED BY <2>1, <2>10, <2>17, <2>18, Zenon
<1>5. Ended("file")
  <2> SUFFICES ASSUME NEW s \in Seq(Byte), NEW n \in Nat, n < Len(s),
                      Decode("file", s).ok, Decode("file", First(s, n)).ok
               PROVE  FALSE
    BY DEF Ended
  <2> DEFINE u == First(s, n)
  <2>1. u \in Seq(Byte) /\ Len(u) = n /\ Continues(s, u)
    BY Shorter
  <2>2. fits(s) /\ fits(u)
    BY <1>2, <2>1
  <2> HIDE DEF u
  <2>3. Read(s, 18, 2) = Read(u, 18, 2)
    BY <2>1, <2>2 DEF Continues, Read
  <2>. QED BY <2>1, <2>2, <2>3
<1>. QED BY <1>3, <1>4, <1>5

\* Behind what comes before it a run of bytes is where it was.
LEMMA Shifted ==
  ASSUME NEW u \in Seq(Byte), NEW v \in Seq(Byte), NEW o \in Nat, NEW n \in Nat, o + n <= Len(v),
         NEW p \in Nat, p = Len(u) + o
  PROVE  At(u \o v, p, n) = At(v, o, n)
<1> DEFINE w == u \o v
<1>1. /\ w \in Seq(Byte) /\ Len(w) = Len(u) + Len(v) /\ Len(u) \in Nat /\ Len(v) \in Nat
      /\ \A i \in 1..Len(u) + Len(v) : w[i] = IF i <= Len(u) THEN u[i] ELSE v[i - Len(u)]
  BY ConcatProperties
<1> DEFINE x == At(w, p, n)
           y == At(v, o, n)
<1>2. p + n <= Len(w)
  BY <1>1
<1> HIDE DEF w
<1>3. x \in Seq(Byte) /\ Len(x) = n /\ \A i \in 1..n : x[i] = w[p + i]
  <2>1. w \in Seq(Byte)
    BY <1>1
  <2>. QED BY <1>2, <2>1, Part
<1>4. y \in Seq(Byte) /\ Len(y) = n /\ \A i \in 1..n : y[i] = v[o + i]
  BY Part
<1>5. \A i \in 1..n : w[p + i] = v[o + i]
  <2> SUFFICES ASSUME NEW i \in 1..n
               PROVE  w[p + i] = v[o + i]
    OBVIOUS
  <2> DEFINE j == p + i
  <2>1. j \in 1..Len(u) + Len(v) /\ ~ (j <= Len(u)) /\ j - Len(u) = o + i
    BY <1>1
  <2> HIDE DEF j
  <2>2. w[j] = IF j <= Len(u) THEN u[j] ELSE v[j - Len(u)]
    BY <1>1, <2>1
  <2>3. w[j] = v[o + i]
    BY <2>1, <2>2
  <2>. QED BY <2>3 DEF j
<1> HIDE DEF x, y
<1>6. x = y
  <2>1. Len(x) = Len(y) /\ \A i \in 1..Len(x) : x[i] = y[i]
    BY <1>3, <1>4, <1>5
  <2>. QED BY <1>3, <1>4, <2>1, SameRun
<1>. QED BY <1>6 DEF x, y, w

\* The byte at an offset.
LEMMA OneByte ==
  ASSUME NEW s \in Seq(Byte), NEW o \in Nat, o + 1 <= Len(s)
  PROVE  s[o + 1] \in Byte /\ At(s, o, 1) = <<s[o + 1]>>
<1>1. 1 \in Nat /\ o + 1 \in 1..Len(s)
  OBVIOUS
<1>2. s[o + 1] \in Byte
  BY <1>1, ElementOfSeq, Zenon
<1> DEFINE x == At(s, o, 1)
<1>3. x \in Seq(Byte) /\ Len(x) = 1 /\ \A i \in 1..1 : x[i] = s[o + i]
  BY <1>1, Part, Zenon
<1> HIDE DEF x
<1>4. x = <<x[1]>> /\ x[1] = s[o + 1]
  BY <1>3
<1>. QED BY <1>2, <1>4 DEF x

\* A text that was cut fits its field.
LEMMA ClampedIs ==
  ASSUME NEW text \in Seq(Byte)
  PROVE  /\ Clamped(text) \in Seq(Byte) /\ Len(Clamped(text)) \in Nat
         /\ Len(Clamped(text)) < LoginFieldSize /\ Len(Clamped(text)) \in Byte
         /\ Len(text) < LoginFieldSize => Clamped(text) = text
<1>1. LoginFieldSize \in Nat /\ LoginFieldSize >= 1 /\ LoginFieldSize <= Base
  BY LoginAssumption, Limits
<1>2. CASE Len(text) < LoginFieldSize
  <2>1. Clamped(text) = text
    BY <1>2 DEF Clamped
  <2>. QED BY <1>1, <1>2, <2>1, Limits DEF Byte
<1>3. CASE ~ (Len(text) < LoginFieldSize)
  <2> DEFINE n == LoginFieldSize - 1
  <2>1. n \in Nat /\ n < Len(text) /\ n < LoginFieldSize /\ n \in Byte
    BY <1>1, <1>3, Limits DEF Byte
  <2>2. Clamped(text) = First(text, n)
    BY <1>3 DEF Clamped
  <2> HIDE DEF n
  <2>3. First(text, n) \in Seq(Byte) /\ Len(First(text, n)) = n
    BY <2>1, Shorter
  <2>. QED BY <1>3, <2>1, <2>2, <2>3
<1>. QED BY <1>2, <1>3

\* A field of a login: its length, its text and zeros.
LEMMA LoginFieldIs ==
  ASSUME NEW text \in Seq(Byte)
  PROVE  /\ LoginField(text) \in Seq(Byte) /\ Len(LoginField(text)) = LoginFieldSize
         /\ At(LoginField(text), 0, 1) = <<Len(Clamped(text))>>
         /\ At(LoginField(text), 1, Len(Clamped(text))) = Clamped(text)
<1> DEFINE c == Clamped(text)
           n == Len(c)
           size == LoginFieldSize
           z == Zeros(size - 1 - n)
           a == <<n>>
           b == a \o c
           f == b \o z
<1>1. c \in Seq(Byte) /\ n \in Nat /\ n < size /\ n \in Byte
  BY ClampedIs
<1>2. size \in Nat /\ size - 1 - n \in Nat
  BY <1>1, LoginAssumption, Limits
<1>3. z \in Seq(Byte) /\ Len(z) = size - 1 - n
  BY <1>2, ZerosTyped
<1>4. LoginField(text) = f
  BY DEF LoginField, PString
<1> HIDE DEF z, c
<1>5. a \in Seq(Byte) /\ Len(a) = 1
  BY <1>1
<1> HIDE DEF a, n, size
<1>6. b \in Seq(Byte) /\ Len(b) = Len(a) + n /\ At(b, Len(a), n) = c /\ Continues(b, a)
  BY <1>1, <1>5, RunAppended DEF n
<1> HIDE DEF b
<1>7. f \in Seq(Byte) /\ Len(f) = Len(b) + Len(z) /\ Continues(f, b)
  BY <1>3, <1>6, Appended
<1> HIDE DEF f
<1>8. Len(f) = size
  BY <1>1, <1>2, <1>3, <1>5, <1>6, <1>7
<1>9. At(f, 1, n) = c
  <2>1. At(b, 1, n) = c
    BY <1>5, <1>6, Zenon
  <2>2. At(f, 1, n) = At(b, 1, n)
    <3>1. 1 \in Nat /\ 1 + n <= Len(b)
      BY <1>1, <1>5, <1>6
    <3>. QED BY <1>1, <1>7, <3>1, Zenon DEF Continues
  <2>. QED BY <2>1, <2>2
<1>10. At(f, 0, 1) = a
  <2>1. At(a, 0, 1) = a
    BY <1>5, AllOfIt
  <2>2. 0 \in Nat /\ 1 \in Nat /\ 0 + 1 <= Len(a) /\ 0 + 1 <= Len(b)
    BY <1>1, <1>5, <1>6
  <2>. QED BY <1>6, <1>7, <2>1, <2>2, Zenon DEF Continues
<1>. QED BY <1>4, <1>7, <1>8, <1>9, <1>10 DEF a, n, c, size

LEMMA Associative ==
  ASSUME NEW u \in Seq(Byte), NEW v \in Seq(Byte), NEW w \in Seq(Byte)
  PROVE  u \o (v \o w) = (u \o v) \o w
BY ConcatAssociative

\* A field that is made again of the text that was read of it.
LEMMA LoginFieldAgrees ==
  ASSUME NEW s, NEW u, NEW S, NEW o, Agrees(u, s, S, o), o + LoginFieldSize <= Len(s),
         NEW n \in Byte, At(s, o, 1) = <<n>>, n < LoginFieldSize,
         Span(o + 1 + n, LoginFieldSize - 1 - n) \subseteq S
  PROVE  LET text == At(s, o + 1, n)
         IN  /\ text \in Seq(Byte) /\ Len(text) = n
             /\ Agrees(u \o LoginField(text), s, S, o + LoginFieldSize)
<1> DEFINE size == LoginFieldSize
           o1 == o + 1
           o2 == o1 + n
           m == size - 1 - n
           text == At(s, o1, n)
           a == <<n>>
           z == Zeros(m)
<1>1. size \in Nat /\ size >= 1 /\ s \in Seq(Byte) /\ u \in Seq(Byte) /\ o \in Nat
  BY LoginAssumption, Limits DEF Agrees
<1>2. o + 1 <= Len(s) /\ 1 \in Nat /\ Len(s) \in Nat
  BY <1>1
<1>3. At(s, o, 1) = a
  OBVIOUS
<1>4. n \in Nat /\ n < size
  BY Limits DEF Byte
<1>5. /\ m \in Nat /\ o1 \in Nat /\ o2 \in Nat /\ o2 + m = o + size
      /\ o1 + n <= Len(s) /\ o2 + m <= Len(s)
  BY <1>1, <1>2, <1>4
<1>6. Span(o2, m) \subseteq S
  OBVIOUS
<1>7. o + 1 = o1 /\ o1 + n = o2
  OBVIOUS
<1>8. a \in Seq(Byte)
  BY <1>3
<1> HIDE DEF o1, o2, m, a, size
<1>9. text \in Seq(Byte) /\ Len(text) = n
  BY <1>1, <1>4, <1>5, Part, Zenon
<1>10. z \in Seq(Byte) /\ Len(z) = m
  BY <1>5, ZerosTyped
<1>11. Comes(a, s, S, o, 1) /\ Comes(text, s, S, o1, n)
  BY <1>1, <1>2, <1>3, <1>4, <1>5, CopyComes
<1>12. Comes(z, s, S, o2, m)
  BY <1>5, <1>6, <1>10 DEF Comes
<1> HIDE DEF text, z
<1>13. LoginField(text) = (a \o text) \o z
  <2>1. Clamped(text) = text
    BY <1>9, ClampedIs
  <2>. QED BY <1>9, <2>1 DEF LoginField, PString, a, z, m, size
<1>14. u \o LoginField(text) = ((u \o a) \o text) \o z
  <2> DEFINE b == a \o text
  <2>1. b \in Seq(Byte) /\ u \o b = (u \o a) \o text
    BY <1>1, <1>8, <1>9, Associative, ConcatProperties
  <2> HIDE DEF b
  <2>2. u \o (b \o z) = (u \o b) \o z
    BY <1>1, <1>10, <2>1, Associative
  <2>3. LoginField(text) = b \o z
    BY <1>13 DEF b
  <2>. QED BY <2>1, <2>2, <2>3
<1> DEFINE v1 == u \o a
           v2 == v1 \o text
           v3 == v2 \o z
<1>15. Agrees(v1, s, S, o1)
  BY <1>7, <1>11, AgreesOn, Zenon
<1> HIDE DEF v1
<1>16. Agrees(v2, s, S, o2)
  BY <1>7, <1>11, <1>15, AgreesOn, Zenon
<1> HIDE DEF v2
<1>17. Agrees(v3, s, S, o + size)
  BY <1>5, <1>12, <1>16, AgreesOn, Zenon
<1>18. Agrees(u \o LoginField(text), s, S, o + size)
  BY <1>14, <1>17 DEF v1, v2, v3
<1>. QED BY <1>9, <1>18 DEF text, o1, size

\* What a handshake with a tracker is in either version.
FirstVersion(s) ==
  Len(s) = 6 /\ At(s, 0, 4) = TrackerTag /\ Read(s, 4, 2) = 1
SecondVersion(s) ==
  /\ Len(s) = (6 + LoginFieldSize) + LoginFieldSize
  /\ At(s, 0, 4) = TrackerTag /\ Read(s, 4, 2) = 2
  /\ s[6 + 1] < LoginFieldSize /\ s[6 + LoginFieldSize + 1] < LoginFieldSize

WithoutLogin == [version |-> 1, login |-> << >>, password |-> << >>]
WithLogin(s) ==
  [version |-> 2, login |-> At(s, 6 + 1, s[6 + 1]),
   password |-> At(s, 6 + LoginFieldSize + 1, s[6 + LoginFieldSize + 1])]

\* The sizes and offsets of the two versions.
LEMMA HandshakeSizes ==
  /\ LoginFieldSize \in Nat /\ LoginFieldSize >= 1
  /\ V1Size = 6 /\ V2Size = (6 + LoginFieldSize) + LoginFieldSize
  /\ V1Size + 0 * LoginFieldSize + 1 = 6 + 1
  /\ V1Size + 1 * LoginFieldSize + 1 = 6 + LoginFieldSize + 1
  /\ 6 + LoginFieldSize \in Nat /\ V2Size \in Nat /\ V2Size > 6
<1>1. LoginFieldSize \in Nat /\ LoginFieldSize >= 1
  BY LoginAssumption, Limits
<1> DEFINE size == LoginFieldSize
<1> HIDE DEF size
<1>2. size \in Nat /\ size >= 1
  BY <1>1 DEF size
<1>3. /\ 2 * size = size + size /\ 0 * size = 0 /\ 1 * size = size
      /\ 6 + 2 * size = (6 + size) + size /\ 6 + 2 * size > 6
  BY <1>2
<1>. QED BY <1>1, <1>3 DEF size, V1Size, V2Size

\* try_decode_tracker_handshake() takes a handshake of either version and nothing else.
LEMMA HandshakeRead ==
  ASSUME NEW s \in Seq(Byte)
  PROVE  /\ DecodeHandshake(s).ok <=> FirstVersion(s) \/ SecondVersion(s)
         /\ FirstVersion(s) => DecodeHandshake(s) = Good(WithoutLogin)
         /\ SecondVersion(s) => DecodeHandshake(s) = Good(WithLogin(s))
<1> DEFINE version == Read(s, 4, 2)
           tag == At(s, 0, 4)
           size == IF version = 1 THEN V1Size ELSE V2Size
           sized == Exactly(s, size)
           long == \E n \in {0, 1} : s[V1Size + n * LoginFieldSize + 1] >= LoginFieldSize
           read == [version |-> 2,
                    login |-> At(s, V1Size + 0 * LoginFieldSize + 1,
                                 s[V1Size + 0 * LoginFieldSize + 1]),
                    password |-> At(s, V1Size + 1 * LoginFieldSize + 1,
                                    s[V1Size + 1 * LoginFieldSize + 1])]
<1>1. First(s, 4) = tag
  BY DEF First, At
<1>2. DecodeHandshake(s) =
        IF Len(s) < V1Size THEN Truncated
        ELSE IF tag # TrackerTag THEN Fail("wrong_format_tag")
        ELSE IF version \notin {1, 2} THEN Fail("unsupported_version")
        ELSE IF sized.ok
             THEN IF version = 1 THEN Good(WithoutLogin)
                  ELSE IF long THEN Truncated ELSE Good(read)
             ELSE sized
  BY <1>1 DEF DecodeHandshake, Then, WithoutLogin
<1>3. read = WithLogin(s)
  BY HandshakeSizes DEF WithLogin
<1>4. long <=> s[6 + 1] >= LoginFieldSize \/ s[6 + LoginFieldSize + 1] >= LoginFieldSize
  BY HandshakeSizes
<1>5. size \in Nat /\ Len(s) \in Nat
  BY HandshakeSizes
<1> HIDE DEF read, long, tag, version, size
<1>6. sized.ok <=> Len(s) = size
  BY <1>5, ExactlyIs
<1> HIDE DEF sized
<1>7. ~ Truncated.ok /\ ~ Fail("wrong_format_tag").ok /\ ~ Fail("unsupported_version").ok
  BY DEF Truncated, Fail
<1>8. Good(WithoutLogin).ok /\ Good(read).ok
  BY GoodIs
<1>9. version = 1 => size = 6
  BY HandshakeSizes DEF size
<1>10. version = 2 => size = V2Size /\ size > 6
  BY HandshakeSizes DEF size
<1>11. /\ FirstVersion(s) <=> Len(s) = 6 /\ tag = TrackerTag /\ version = 1
       /\ SecondVersion(s) <=> /\ Len(s) = V2Size /\ tag = TrackerTag /\ version = 2
                               /\ s[6 + 1] < LoginFieldSize
                               /\ s[6 + LoginFieldSize + 1] < LoginFieldSize
  BY HandshakeSizes DEF FirstVersion, SecondVersion, tag, version
<1>12. SecondVersion(s) <=> Len(s) = V2Size /\ tag = TrackerTag /\ version = 2 /\ ~ long
  <2>1. Len(s) = V2Size => s[6 + 1] \in Nat /\ s[6 + LoginFieldSize + 1] \in Nat
    <3> SUFFICES ASSUME Len(s) = V2Size
                 PROVE  s[6 + 1] \in Nat /\ s[6 + LoginFieldSize + 1] \in Nat
      OBVIOUS
    <3>1. 6 + 1 \in 1..Len(s) /\ 6 + LoginFieldSize + 1 \in 1..Len(s)
      BY HandshakeSizes
    <3>2. s[6 + 1] \in Byte /\ s[6 + LoginFieldSize + 1] \in Byte
      BY <3>1, ElementOfSeq, Zenon
    <3>. QED BY <3>2, Limits DEF Byte
  <2>. QED BY <1>4, <1>11, <2>1, HandshakeSizes
<1>13. V1Size = 6 /\ V2Size \in Nat /\ V2Size > 6
  BY HandshakeSizes, Zenon
<1>14. CASE Len(s) < 6
  <2>1. DecodeHandshake(s) = Truncated
    BY <1>2, <1>13, <1>14
  <2>2. Len(s) # 6 /\ Len(s) # V2Size
    <3> DEFINE l == Len(s)
    <3>1. l \in Nat /\ l < 6
      BY <1>5, <1>14
    <3> HIDE DEF l
    <3>2. l # 6 /\ l # V2Size
      BY <1>13, <3>1
    <3>. QED BY <3>2 DEF l
  <2>. QED BY <1>7, <1>11, <2>1, <2>2
<1>15. CASE ~ (Len(s) < 6)
  <2>1. CASE tag = TrackerTag /\ version = 1
    BY <1>2, <1>6, <1>7, <1>8, <1>9, <1>11, <1>13, <1>15, <2>1
  <2>2. CASE tag = TrackerTag /\ version = 2
    <3>1. size = V2Size /\ version # 1 /\ version \in {1, 2}
      BY <1>10, <2>2
    <3>2. DecodeHandshake(s) = IF sized.ok THEN IF long THEN Truncated ELSE Good(read) ELSE sized
      BY <1>2, <1>13, <1>15, <2>2, <3>1
    <3>3. ~ FirstVersion(s) /\ (SecondVersion(s) <=> sized.ok /\ ~ long)
      BY <1>6, <1>11, <1>12, <2>2, <3>1
    <3>. QED BY <1>3, <1>7, <1>8, <3>2, <3>3, Zenon
  <2>3. CASE tag # TrackerTag \/ version \notin {1, 2}
    BY <1>2, <1>7, <1>11, <1>13, <1>15, <2>3
  <2>. QED BY <2>1, <2>2, <2>3
<1>. QED BY <1>14, <1>15

\* w ends with v, behind u.
Ends(w, u, v) ==
  \A o \in Nat, n \in Nat, p \in Nat :
    o + n <= Len(v) /\ p = Len(u) + o => At(w, p, n) = At(v, o, n)

LEMMA AppendedEnds ==
  ASSUME NEW u \in Seq(Byte), NEW v \in Seq(Byte)
  PROVE  Ends(u \o v, u, v)
BY Shifted DEF Ends

\* What is written is of the version it says.
LEMMA FirstVersionWritten ==
  LET w == TrackerTag \o U16(1) \o << >>
  IN  w \in Seq(Byte) /\ FirstVersion(w)
<1> DEFINE u == TrackerTag \o U16(1)
<1>1. TrackerTag \in Seq(Byte) /\ Len(TrackerTag) = 4 /\ 1 \in Word
  BY TrackerTagAssumption, Limits, Bases DEF Word
<1>2. u \in Seq(Byte) /\ Len(u) = Len(TrackerTag) + 2 /\ Read(u, Len(TrackerTag), 2) = 1
      /\ Continues(u, TrackerTag)
  BY <1>1, WordAppended, Zenon
<1>3. At(TrackerTag, 0, 4) = TrackerTag
  BY <1>1, AllOfIt
<1> HIDE DEF u
<1>4. u \o << >> = u
  BY <1>2
<1>5. Len(u) = 6 /\ Read(u, 4, 2) = 1
  BY <1>1, <1>2
<1>6. At(u, 0, 4) = TrackerTag
  <2>1. 0 \in Nat /\ 4 \in Nat /\ 0 + 4 <= Len(TrackerTag)
    BY <1>1
  <2>. QED BY <1>2, <1>3, <2>1, Zenon DEF Continues
<1>7. u \in Seq(Byte) /\ FirstVersion(u)
  BY <1>2, <1>5, <1>6 DEF FirstVersion
<1>. QED BY <1>4, <1>7 DEF u

LEMMA SecondVersionWritten ==
  ASSUME NEW login \in Seq(Byte), NEW password \in Seq(Byte)
  PROVE  LET w == TrackerTag \o U16(2) \o (LoginField(login) \o LoginField(password))
         IN  /\ w \in Seq(Byte) /\ SecondVersion(w)
             /\ WithLogin(w) = [version |-> 2, login |-> Clamped(login),
                                password |-> Clamped(password)]
<1> DEFINE size == LoginFieldSize
           e == 6 + size
           c == Clamped(login)
           d == Clamped(password)
           f == LoginField(login)
           g == LoginField(password)
           u == TrackerTag \o U16(2)
           v == f \o g
           w == u \o v
<1>1. TrackerTag \in Seq(Byte) /\ Len(TrackerTag) = 4 /\ 2 \in Word
  BY TrackerTagAssumption, Limits, Bases DEF Word
<1>2. /\ u \in Seq(Byte) /\ Len(u) = Len(TrackerTag) + 2
      /\ Read(u, Len(TrackerTag), 2) = 2 /\ Continues(u, TrackerTag)
  BY <1>1, WordAppended, Zenon
<1>3. At(TrackerTag, 0, 4) = TrackerTag
  BY <1>1, AllOfIt
<1>4. /\ f \in Seq(Byte) /\ Len(f) = size
      /\ At(f, 0, 1) = <<Len(c)>> /\ At(f, 1, Len(c)) = c
      /\ g \in Seq(Byte) /\ Len(g) = size
      /\ At(g, 0, 1) = <<Len(d)>> /\ At(g, 1, Len(d)) = d
  BY LoginFieldIs
<1>5. /\ Len(c) \in Nat /\ Len(c) < size /\ Len(d) \in Nat /\ Len(d) < size
      /\ size \in Nat /\ size >= 1
  BY ClampedIs, HandshakeSizes
<1> HIDE DEF size, c, d, f, g, u
<1>6. Len(u) = 6 /\ Read(u, 4, 2) = 2
  BY <1>1, <1>2
<1>7. At(u, 0, 4) = TrackerTag
  <2>1. 0 \in Nat /\ 4 \in Nat /\ 0 + 4 <= Len(TrackerTag)
    BY <1>1
  <2>. QED BY <1>2, <1>3, <2>1, Zenon DEF Continues
<1>8. v \in Seq(Byte) /\ Len(v) = Len(f) + Len(g) /\ Continues(v, f) /\ Ends(v, f, g)
  BY <1>4, Appended, AppendedEnds
<1> HIDE DEF v
<1>9. /\ At(v, 0, 1) = <<Len(c)>> /\ At(v, 1, Len(c)) = c
      /\ At(v, size, 1) = <<Len(d)>> /\ At(v, size + 1, Len(d)) = d
  <2>1. 0 \in Nat /\ 1 \in Nat /\ 0 + 1 <= Len(f) /\ 1 + Len(c) <= Len(f)
    BY <1>4, <1>5
  <2>2. At(v, 0, 1) = <<Len(c)>> /\ At(v, 1, Len(c)) = c
    BY <1>4, <1>5, <1>8, <2>1, Zenon DEF Continues
  <2>3. /\ 0 + 1 <= Len(g) /\ 1 + Len(d) <= Len(g) /\ size + 1 \in Nat
        /\ size = Len(f) + 0 /\ size + 1 = Len(f) + 1
    BY <1>4, <1>5
  <2>4. At(v, size, 1) = At(g, 0, 1)
    BY <1>4, <1>5, <1>8, <2>1, <2>3, Zenon DEF Ends
  <2>5. At(v, size + 1, Len(d)) = At(g, 1, Len(d))
    BY <1>4, <1>5, <1>8, <2>1, <2>3, Zenon DEF Ends
  <2>. QED BY <1>4, <2>2, <2>4, <2>5
<1>10. w \in Seq(Byte) /\ Len(w) = Len(u) + Len(v) /\ Continues(w, u) /\ Ends(w, u, v)
  BY <1>2, <1>8, Appended, AppendedEnds
<1> HIDE DEF w
<1>11. /\ At(w, 6, 1) = <<Len(c)>> /\ At(w, 6 + 1, Len(c)) = c
       /\ At(w, e, 1) = <<Len(d)>> /\ At(w, e + 1, Len(d)) = d
  <2>1. /\ 6 \in Nat /\ 6 + 1 \in Nat /\ e \in Nat /\ e + 1 \in Nat
        /\ 0 \in Nat /\ 1 \in Nat /\ size + 1 \in Nat /\ Len(v) = size + size
    BY <1>4, <1>5, <1>8
  <2>2. 6 = Len(u) + 0 /\ 6 + 1 = Len(u) + 1 /\ e = Len(u) + size /\ e + 1 = Len(u) + (size + 1)
    BY <1>5, <1>6
  <2>3. 0 + 1 <= Len(v) /\ 1 + Len(c) <= Len(v) /\ size + 1 <= Len(v)
        /\ (size + 1) + Len(d) <= Len(v)
    BY <1>5, <2>1
  <2> HIDE DEF e
  <2>4. At(w, 6, 1) = At(v, 0, 1)
    BY <1>10, <2>1, <2>2, <2>3, Zenon DEF Ends
  <2>5. At(w, 6 + 1, Len(c)) = At(v, 1, Len(c))
    <3> DEFINE p == 6 + 1
    <3>1. p \in Nat /\ p = Len(u) + 1
      BY <2>1, <2>2
    <3> HIDE DEF p
    <3>2. At(w, p, Len(c)) = At(v, 1, Len(c))
      BY <1>5, <1>10, <2>1, <2>3, <3>1, Zenon DEF Ends
    <3>. QED BY <3>2 DEF p
  <2>6. At(w, e, 1) = At(v, size, 1)
    BY <1>5, <1>10, <2>1, <2>2, <2>3, Zenon DEF Ends
  <2>7. At(w, e + 1, Len(d)) = At(v, size + 1, Len(d))
    BY <1>5, <1>10, <2>1, <2>2, <2>3, Zenon DEF Ends
  <2>. QED BY <1>9, <2>4, <2>5, <2>6, <2>7
<1>12. Len(w) = e + size /\ At(w, 0, 4) = TrackerTag /\ Read(w, 4, 2) = 2
  <2>1. Len(w) = e + size
    BY <1>4, <1>5, <1>6, <1>8, <1>10
  <2>2. 0 \in Nat /\ 4 \in Nat /\ 2 \in Nat /\ 0 + 4 <= Len(u) /\ 4 + 2 <= Len(u)
    BY <1>6
  <2>. QED BY <1>6, <1>7, <1>10, <2>1, <2>2, Zenon DEF Continues, Read
<1>13. w[6 + 1] = Len(c) /\ w[e + 1] = Len(d)
  <2>1. 6 \in Nat /\ e \in Nat /\ 6 + 1 <= Len(w) /\ e + 1 <= Len(w)
    BY <1>5, <1>12
  <2> HIDE DEF e
  <2>2. At(w, 6, 1) = <<w[6 + 1]>> /\ At(w, e, 1) = <<w[e + 1]>>
    BY <1>10, <2>1, OneByte, Zenon
  <2>. QED BY <1>11, <2>2
<1>14. SecondVersion(w)
  BY <1>5, <1>12, <1>13 DEF SecondVersion, size
<1>15. WithLogin(w) = [version |-> 2, login |-> c, password |-> d]
  BY <1>11, <1>13 DEF WithLogin, size
<1>. QED BY <1>10, <1>14, <1>15 DEF w, u, v, f, g, c, d

LEMMA HandshakeEncoded ==
  ASSUME NEW v
  PROVE  /\ v.version = 1 => Encode("handshake", v) = Good(TrackerTag \o U16(1) \o << >>)
         /\ v.version = 2 =>
              Encode("handshake", v) =
                Good(TrackerTag \o U16(2) \o (LoginField(v.login) \o LoginField(v.password)))
<1>1. Encode("handshake", v) = EncodeHandshake(v)
  BY DEF Encode
<1>2. CASE v.version = 1
  BY <1>1, <1>2 DEF EncodeHandshake
<1>3. CASE v.version = 2
  BY <1>1, <1>3 DEF EncodeHandshake
<1>. QED BY <1>2, <1>3

\* A handshake with a tracker: the first version sends no login, the second
\* cuts its texts to the size of their fields and pads them.
LEMMA HandshakeReturned == Returned("handshake")
<1> SUFFICES ASSUME NEW v \in TrackerHandshake, v.version \in {1, 2}
             PROVE  /\ Encode("handshake", v).value \in Seq(Byte)
                    /\ Decode("handshake", Encode("handshake", v).value)
                         = Good(Meant("handshake", v))
  BY DEF Returned, Holds
<1> DEFINE w == Encode("handshake", v).value
           login == v.login
           password == v.password
<1>1. \A s : Decode("handshake", s) = DecodeHandshake(s)
  BY DEF Decode
<1>2. login \in Seq(Byte) /\ password \in Seq(Byte)
  BY DEF TrackerHandshake
<1>3. CASE v.version = 1
  <2>1. w = TrackerTag \o U16(1) \o << >>
    BY <1>3, HandshakeEncoded, GoodIs
  <2>2. w \in Seq(Byte) /\ FirstVersion(w)
    BY <2>1, FirstVersionWritten
  <2>3. Meant("handshake", v) = WithoutLogin
    BY <1>3 DEF Meant, WithoutLogin
  <2> HIDE DEF w
  <2>4. DecodeHandshake(w) = Good(WithoutLogin)
    BY <2>2, HandshakeRead
  <2>. QED BY <1>1, <2>2, <2>3, <2>4 DEF w
<1>4. CASE v.version = 2
  <2> DEFINE x == TrackerTag \o U16(2) \o (LoginField(login) \o LoginField(password))
             r == [version |-> 2, login |-> Clamped(login), password |-> Clamped(password)]
  <2>1. w = x
    BY <1>4, HandshakeEncoded, GoodIs
  <2>2. Meant("handshake", v) = r
    BY <1>4 DEF Meant
  <2> HIDE DEF w, login, password
  <2>3. x \in Seq(Byte) /\ SecondVersion(x) /\ WithLogin(x) = r
    BY <1>2, SecondVersionWritten
  <2> HIDE DEF x, r
  <2>4. DecodeHandshake(x) = Good(WithLogin(x))
    BY <2>3, HandshakeRead
  <2>5. w \in Seq(Byte) /\ Decode("handshake", w) = Good(Meant("handshake", v))
    BY <1>1, <2>1, <2>2, <2>3, <2>4
  <2>. QED BY <2>5 DEF w
<1>. QED BY <1>3, <1>4

\* An accepted handshake is made again, but for what pads its texts.
LEMMA HandshakeReproduced == Reproduced("handshake")
<1> SUFFICES ASSUME NEW s \in Seq(Byte), Decode("handshake", s).ok
             PROVE  LET again == Encode("handshake", Decode("handshake", s).value)
                    IN  /\ again.ok
                        /\ Len(again.value) = Len(s)
                        /\ {i \in 1..Len(s) : again.value[i] # s[i]}
                             \subseteq Ignored("handshake", Decode("handshake", s).value)
  BY Zenon DEF Reproduced
<1> DEFINE v == Decode("handshake", s).value
           again == Encode("handshake", v)
           S == Ignored("handshake", v)
<1>1. Decode("handshake", s) = DecodeHandshake(s)
  BY DEF Decode
<1>2. FirstVersion(s) \/ SecondVersion(s)
  BY <1>1, HandshakeRead
<1>3. CASE FirstVersion(s)
  <2>1. v = WithoutLogin
    BY <1>1, <1>3, HandshakeRead, GoodIs
  <2>2. again = Good(TrackerTag \o U16(1) \o << >>)
    BY <2>1, HandshakeEncoded DEF WithoutLogin
  <2>3. Len(s) = 6 /\ At(s, 0, 4) = TrackerTag /\ Read(s, 4, 2) = 1
    BY <1>3 DEF FirstVersion
  <2>4. TrackerTag \o U16(1) = At(s, 0, 6)
    <3>1. At(s, 0, 4) \o U16(Read(s, 4, 2)) = At(s, 0, 6)
      <4>1. 6 <= Len(s)
        BY <2>3
      <4>. QED BY <4>1, WordBack, Offsets, Zenon
    <3>. QED BY <2>3, <3>1
  <2>5. At(s, 0, 6) = s
    BY <2>3, AllOfIt
  <2>6. (TrackerTag \o U16(1)) \o << >> = s
    BY <2>4, <2>5
  <2>7. again.ok /\ again.value = s
    BY <2>2, <2>6, GoodIs
  <2>. QED BY <2>7, Zenon
<1>4. CASE SecondVersion(s)
  <2> DEFINE size == LoginFieldSize
             e == 6 + size
             n == s[6 + 1]
             m == s[e + 1]
             a == At(s, 6 + 1, n)
             b == At(s, e + 1, m)
             u == At(s, 0, 6)
             f == LoginField(a)
             g == LoginField(b)
  <2>1. /\ Len(s) = e + size /\ At(s, 0, 4) = TrackerTag /\ Read(s, 4, 2) = 2
        /\ n < size /\ m < size
    BY <1>4 DEF SecondVersion
  <2>2. v = WithLogin(s)
    BY <1>1, <1>4, HandshakeRead, GoodIs
  <2>3. v.version = 2 /\ v.login = a /\ v.password = b
    BY <2>2 DEF WithLogin
  <2>4. again = Good(TrackerTag \o U16(2) \o (f \o g))
    BY <2>3, HandshakeEncoded, Zenon
  <2>5. size \in Nat /\ size >= 1 /\ e \in Nat /\ Len(s) \in Nat
    BY HandshakeSizes
  <2>6. 6 <= Len(s) /\ 6 + 1 <= Len(s) /\ e + 1 <= Len(s) /\ e <= Len(s) /\ 6 \in Nat
    BY <2>1, <2>5
  <2>7. n \in Byte /\ At(s, 6, 1) = <<n>>
    BY <2>6, OneByte, Zenon
  <2>8. m \in Byte /\ At(s, e, 1) = <<m>>
    BY <2>5, <2>6, OneByte, Zenon
  <2> DEFINE T == Span(6 + 1 + Len(a), size - 1 - Len(a)) \cup
                  Span(e + 1 + Len(b), size - 1 - Len(b))
  <2>9. S = T
    BY <2>3 DEF Ignored, V1Size
  <2> HIDE DEF v
  <2>10. TrackerTag \o U16(2) = u
    <3>1. At(s, 0, 4) \o U16(Read(s, 4, 2)) = At(s, 0, 6)
      BY <2>6, WordBack, Offsets, Zenon
    <3>. QED BY <2>1, <3>1
  <2>11. Len(a) = n /\ Len(b) = m
    <3>1. n \in Nat /\ m \in Nat
      BY <2>7, <2>8, Limits DEF Byte
    <3> HIDE DEF n, m, size
    <3>2. 6 + 1 \in Nat /\ e + 1 \in Nat /\ (6 + 1) + n <= Len(s) /\ (e + 1) + m <= Len(s)
      BY <2>1, <2>5, <3>1
    <3>. QED BY <3>1, <3>2, Part, Zenon
  <2>12. Span(6 + 1 + n, size - 1 - n) \subseteq S /\ Span(e + 1 + m, size - 1 - m) \subseteq S
    BY <2>9, <2>11
  <2> HIDE DEF n, m, S, T, e
  <2>13. Agrees(u, s, S, 6)
    BY <2>6, BeginsWith, Zenon
  <2> HIDE DEF u
  <2>14. f \in Seq(Byte) /\ Agrees(u \o f, s, S, e)
    <3>1. 6 + LoginFieldSize <= Len(s)
      BY <2>6 DEF e
    <3>2. Agrees(u \o LoginField(At(s, 6 + 1, n)), s, S, 6 + LoginFieldSize)
          /\ At(s, 6 + 1, n) \in Seq(Byte)
      BY <2>1, <2>7, <2>12, <2>13, <3>1, LoginFieldAgrees
    <3>. QED BY <3>2, LoginFieldIs DEF e
  <2>15. g \in Seq(Byte) /\ Agrees((u \o f) \o g, s, S, Len(s))
    <3>1. e + LoginFieldSize <= Len(s)
      BY <2>1, <2>5
    <3> DEFINE x == u \o f
    <3>2. Agrees(x, s, S, e)
      BY <2>14
    <3> HIDE DEF x
    <3>3. Agrees(x \o LoginField(At(s, e + 1, m)), s, S, e + LoginFieldSize)
          /\ At(s, e + 1, m) \in Seq(Byte)
      BY <2>1, <2>8, <2>12, <3>1, <3>2, LoginFieldAgrees
    <3>. QED BY <2>1, <3>3, LoginFieldIs DEF x
  <2> HIDE DEF f, g
  <2>16. u \o (f \o g) = (u \o f) \o g
    <3>1. u \in Seq(Byte)
      BY <2>13 DEF Agrees
    <3>. QED BY <2>14, <2>15, <3>1, Associative
  <2> DEFINE w == (u \o f) \o g
  <2>17. again.ok /\ again.value = w
    BY <2>4, <2>10, <2>16, GoodIs
  <2> HIDE DEF w, again
  <2>18. Len(w) = Len(s) /\ {i \in 1..Len(s) : w[i] # s[i]} \subseteq S
    BY <2>15 DEF Agrees, w
  <2>. QED BY <2>17, <2>18 DEF again, v, S
<1>. QED BY <1>2, <1>3, <1>4

\* The version and with it the size of a handshake are in its first bytes.
LEMMA HandshakeEnds == Ended("handshake")
<1> SUFFICES ASSUME NEW s \in Seq(Byte), NEW n \in Nat, n < Len(s),
                    Decode("handshake", s).ok, Decode("handshake", First(s, n)).ok
             PROVE  FALSE
  BY DEF Ended
<1> DEFINE u == First(s, n)
<1>1. u \in Seq(Byte) /\ Len(u) = n /\ Continues(s, u)
  BY Shorter
<1>2. \A t : Decode("handshake", t) = DecodeHandshake(t)
  BY DEF Decode
<1>3. /\ FirstVersion(s) \/ SecondVersion(s)
      /\ FirstVersion(u) \/ SecondVersion(u)
  BY <1>1, <1>2, HandshakeRead
<1> HIDE DEF u
<1>4. 6 <= Len(u)
  <2>1. CASE FirstVersion(u)
    BY <2>1 DEF FirstVersion
  <2>2. CASE SecondVersion(u)
    <3>1. Len(u) = (6 + LoginFieldSize) + LoginFieldSize
      BY <2>2 DEF SecondVersion
    <3>2. LoginFieldSize \in Nat
      BY HandshakeSizes
    <3>. QED BY <3>1, <3>2
  <2>. QED BY <1>3, <2>1, <2>2
<1>5. Read(s, 4, 2) = Read(u, 4, 2)
  <2>1. 4 \in Nat /\ 2 \in Nat /\ 4 + 2 <= Len(u)
    BY <1>4
  <2>. QED BY <1>1, <2>1, Zenon DEF Continues, Read
<1>6. Len(s) = Len(u)
  BY <1>3, <1>5 DEF FirstVersion, SecondVersion
<1>. QED BY <1>1, <1>6
=============================================================================
