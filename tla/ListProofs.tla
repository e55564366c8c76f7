------------------------------ MODULE ListProofs -----------------------------
(***************************************************************************)
(* The records of hotline/protocol that hold a list, of any length: the    *)
(* fields of a transaction, the path of an item of a folder, the texts of  *)
(* a registration, the servers of a tracker.                               *)
(*                                                                         *)
(* An encoder joins what it wrote of the elements, a decoder reads as many *)
(* as the count before them says.  Both are folds, shown below to be a     *)
(* step repeated once for every element; what a step keeps, all of them    *)
(* keep, by induction over the numbers of elements.                        *)
(***************************************************************************)
EXTENDS RecordProofs

-----------------------------------------------------------------------------
(* Sequences of sequences, joined.                                         *)

LEMMA Induction ==
  ASSUME NEW S \in SUBSET Nat, 0 \in S, \A k \in S : k + 1 \in S
  PROVE  S = Nat
<1> SUFFICES ASSUME Nat \ S # {}
             PROVE  FALSE
  OBVIOUS
<1>1. PICK d \in Nat \ S : \A e \in Nat \ S : d <= e
  BY LeastNatural
<1>2. d # 0 /\ d - 1 \in Nat /\ ~ (d <= d - 1) /\ (d - 1) + 1 = d
  OBVIOUS
<1>3. d - 1 \in S
  BY <1>1, <1>2
<1>. QED BY <1>2, <1>3

\* One more sequence is appended.
JoinStep(ss, g) ==
  [i \in 1..Len(ss) |-> IF i = 1 THEN ss[i] ELSE g[i - 1] \o ss[i]]
JoinFold(ss) == CHOOSE g : g = JoinStep(ss, g)

LEMMA FlattenIsJoined ==
  ASSUME NEW ss
  PROVE  FlattenSeq(ss) = IF Len(ss) = 0 THEN ss ELSE JoinFold(ss)[Len(ss)]
BY Zenon DEF FlattenSeq, JoinFold, JoinStep

\* g is right for the first k sequences.
JoinsUpTo(ss, g, k) == \A i \in 1..Len(ss) : i <= k => g[i] = JoinStep(ss, g)[i]

LEMMA JoinsFurther ==
  ASSUME NEW S, NEW ss \in Seq(S), NEW k \in Nat, NEW g, JoinsUpTo(ss, g, k)
  PROVE  JoinsUpTo(ss, JoinStep(ss, g), k + 1)
<1> DEFINE h == JoinStep(ss, g)
<1> SUFFICES ASSUME NEW i \in 1..Len(ss), i <= k + 1
             PROVE  h[i] = JoinStep(ss, h)[i]
  BY DEF JoinsUpTo
<1>1. CASE i = 1
  BY <1>1 DEF JoinStep
<1>2. CASE i # 1
  <2>1. i - 1 \in 1..Len(ss) /\ i - 1 <= k
    BY <1>2
  <2>2. g[i - 1] = h[i - 1]
    BY <2>1 DEF JoinsUpTo
  <2>3. h[i] = g[i - 1] \o ss[i]
    BY <1>2 DEF JoinStep
  <2> HIDE DEF h
  <2>4. JoinStep(ss, h)[i] = h[i - 1] \o ss[i]
    BY <1>2 DEF JoinStep
  <2>. QED BY <2>2, <2>3, <2>4
<1>. QED BY <1>1, <1>2

LEMMA JoinFolded ==
  ASSUME NEW S, NEW ss \in Seq(S)
  PROVE  JoinFold(ss) = JoinStep(ss, JoinFold(ss))
<1> DEFINE K == {k \in Nat : \E g : JoinsUpTo(ss, g, k)}
<1>1. 0 \in K
  <2>1. JoinsUpTo(ss, ss, 0)
    <3>1. \A i \in 1..Len(ss) : ~ (i <= 0)
      OBVIOUS
    <3>. QED BY <3>1 DEF JoinsUpTo
  <2>. QED BY <2>1
<1>2. ASSUME NEW k \in K
      PROVE  k + 1 \in K
  BY JoinsFurther
<1>3. K = Nat
  <2>1. K \in SUBSET Nat
    OBVIOUS
  <2> HIDE DEF K
  <2>. QED BY <1>1, <1>2, <2>1, Induction
<1>4. PICK g : JoinsUpTo(ss, g, Len(ss))
  <2>1. Len(ss) \in Nat
    OBVIOUS
  <2>. QED BY <1>3, <2>1
<1> DEFINE h == JoinStep(ss, g)
<1>5. \A i \in 1..Len(ss) : h[i] = JoinStep(ss, h)[i]
  <2>1. Len(ss) \in Nat /\ \A i \in 1..Len(ss) : i <= Len(ss) + 1
    OBVIOUS
  <2>2. JoinsUpTo(ss, h, Len(ss) + 1)
    BY <1>4, <2>1, JoinsFurther
  <2>. QED BY <2>1, <2>2 DEF JoinsUpTo
<1>6. h = JoinStep(ss, h)
  <2>1. h = [i \in 1..Len(ss) |-> h[i]]
    BY DEF JoinStep
  <2> DEFINE hh == JoinStep(ss, h)
  <2>2. hh = [i \in 1..Len(ss) |-> hh[i]]
    BY DEF JoinStep
  <2> HIDE DEF h, hh
  <2>3. h = hh
    BY <1>5, <2>1, <2>2 DEF hh
  <2>. QED BY <2>3 DEF hh
<1> HIDE DEF h
<1>. QED BY <1>6 DEF JoinFold

\* The first k sequences, joined.
FirstOnes(ss, k) == IF k = 0 THEN << >> ELSE JoinFold(ss)[k]

LEMMA FirstOnesNext ==
  ASSUME NEW S, NEW ss \in Seq(Seq(S)), NEW k \in Nat, k + 1 <= Len(ss)
  PROVE  FirstOnes(ss, k + 1) = FirstOnes(ss, k) \o ss[k + 1]
<1>1. k + 1 \in 1..Len(ss) /\ k + 1 # 0
  OBVIOUS
<1>2. ss[k + 1] \in Seq(S)
  BY <1>1, ElementOfSeq, Zenon
<1>3. JoinFold(ss)[k + 1] = JoinStep(ss, JoinFold(ss))[k + 1]
  BY JoinFolded
<1>4. CASE k = 0
  <2>1. FirstOnes(ss, k + 1) = ss[k + 1]
    BY <1>1, <1>3, <1>4 DEF FirstOnes, JoinStep
  <2>2. << >> \o ss[k + 1] = ss[k + 1]
    BY <1>2
  <2>. QED BY <1>4, <2>1, <2>2 DEF FirstOnes
<1>5. CASE k # 0
  <2>1. k + 1 # 1 /\ (k + 1) - 1 = k
    BY <1>5
  <2>2. JoinFold(ss)[k + 1] = JoinFold(ss)[k] \o ss[k + 1]
    BY <1>1, <1>3, <2>1 DEF JoinStep
  <2>. QED BY <1>1, <1>5, <2>2 DEF FirstOnes
<1>. QED BY <1>4, <1>5

LEMMA FirstOnesTyped ==
  ASSUME NEW S, NEW ss \in Seq(Seq(S)), NEW k \in Nat, k <= Len(ss)
  PROVE  FirstOnes(ss, k) \in Seq(S)
<1> DEFINE K == {l \in Nat : l <= Len(ss) => FirstOnes(ss, l) \in Seq(S)}
<1>1. 0 \in K
  BY DEF FirstOnes
<1>2. ASSUME NEW l \in K
      PROVE  l + 1 \in K
  <2> SUFFICES ASSUME l + 1 <= Len(ss)
               PROVE  FirstOnes(ss, l + 1) \in Seq(S)
    OBVIOUS
  <2>1. l \in Nat /\ l <= Len(ss) /\ l + 1 \in 1..Len(ss)
    OBVIOUS
  <2>2. FirstOnes(ss, l) \in Seq(S)
    BY <2>1
  <2>3. ss[l + 1] \in Seq(S)
    BY <2>1, ElementOfSeq, Zenon
  <2>4. FirstOnes(ss, l + 1) = FirstOnes(ss, l) \o ss[l + 1]
    BY <2>1, FirstOnesNext
  <2>. QED BY <2>2, <2>3, <2>4, ConcatProperties
<1>3. K = Nat
  <2>1. K \in SUBSET Nat
    OBVIOUS
  <2> HIDE DEF K
  <2>. QED BY <1>1, <1>2, <2>1, Induction
<1>. QED BY <1>3

LEMMA FlattenIs ==
  ASSUME NEW S, NEW ss \in Seq(Seq(S))
  PROVE  FlattenSeq(ss) = FirstOnes(ss, Len(ss)) /\ FlattenSeq(ss) \in Seq(S)
<1>1. Len(ss) \in Nat
  OBVIOUS
<1>2. FlattenSeq(ss) = FirstOnes(ss, Len(ss))
  <2>1. CASE Len(ss) = 0
    <3>1. ss = << >>
      BY <2>1
    <3>. QED BY <2>1, <3>1, FlattenIsJoined DEF FirstOnes
  <2>2. CASE Len(ss) # 0
    BY <2>2, FlattenIsJoined DEF FirstOnes
  <2>. QED BY <2>1, <2>2
<1>. QED BY <1>1, <1>2, FirstOnesTyped

\* What comes behind does not change what is in front.
LEMMA FirstOnesOfMore ==
  ASSUME NEW S, NEW ss \in Seq(Seq(S)), NEW x \in Seq(S), NEW k \in Nat, k <= Len(ss)
  PROVE  FirstOnes(Append(ss, x), k) = FirstOnes(ss, k)
<1> DEFINE tt == Append(ss, x)
           K == {l \in Nat : l <= Len(ss) => FirstOnes(tt, l) = FirstOnes(ss, l)}
<1>1. /\ tt \in Seq(Seq(S)) /\ Len(tt) = Len(ss) + 1 /\ Len(ss) \in Nat
      /\ \A i \in 1..Len(ss) : tt[i] = ss[i]
  OBVIOUS
<1>2. 0 \in K
  BY DEF FirstOnes
<1>3. ASSUME NEW l \in K
      PROVE  l + 1 \in K
  <2> SUFFICES ASSUME l + 1 <= Len(ss)
               PROVE  FirstOnes(tt, l + 1) = FirstOnes(ss, l + 1)
    OBVIOUS
  <2>1. l \in Nat /\ l <= Len(ss) /\ l + 1 \in 1..Len(ss)
    OBVIOUS
  <2>2. FirstOnes(tt, l) = FirstOnes(ss, l) /\ tt[l + 1] = ss[l + 1]
    BY <1>1, <2>1
  <2> HIDE DEF tt, K
  <2>3. l + 1 <= Len(tt)
    BY <1>1, <2>1
  <2>4. FirstOnes(tt, l + 1) = FirstOnes(tt, l) \o tt[l + 1]
    BY <1>1, <2>1, <2>3, FirstOnesNext
  <2>5. FirstOnes(ss, l + 1) = FirstOnes(ss, l) \o ss[l + 1]
    BY <2>1, FirstOnesNext
  <2>. QED BY <2>2, <2>4, <2>5
<1>4. K = Nat
  <2>1. K \in SUBSET Nat
    OBVIOUS
  <2> HIDE DEF K
  <2>. QED BY <1>2, <1>3, <2>1, Induction
<1>. QED BY <1>4

LEMMA FlattenNone == FlattenSeq(<< >>) = << >>
BY FlattenIsJoined

LEMMA FlattenMore ==
  ASSUME NEW S, NEW ss \in Seq(Seq(S)), NEW x \in Seq(S)
  PROVE  FlattenSeq(Append(ss, x)) = FlattenSeq(ss) \o x
<1> DEFINE tt == Append(ss, x)
           n == Len(ss)
<1>1. tt \in Seq(Seq(S)) /\ Len(tt) = n + 1 /\ n \in Nat /\ tt[n + 1] = x
  OBVIOUS
<1>2. FirstOnes(tt, n) = FirstOnes(ss, n)
  BY <1>1, FirstOnesOfMore
<1> HIDE DEF tt, n
<1>3. FirstOnes(tt, n + 1) = FirstOnes(tt, n) \o tt[n + 1]
  <2>1. n + 1 <= Len(tt)
    BY <1>1
  <2>. QED BY <1>1, <2>1, FirstOnesNext
<1>4. FlattenSeq(tt) = FirstOnes(tt, n + 1)
  BY <1>1, FlattenIs
<1>5. FlattenSeq(ss) = FirstOnes(ss, n)
  BY FlattenIs DEF n
<1>. QED BY <1>1, <1>2, <1>3, <1>4, <1>5 DEF tt

-----------------------------------------------------------------------------
(* Lists of elements.  Items() is a fold over the positions of a list; as  *)
(* for Number(), there is a function that it is the value of.              *)

\* The elements of lists: a field, a text behind its length, a server, a
\* component of a path, a fork of a file, an entry of an archive.
Elements == {"field", "text", "server", "component", "fork", "entry"}

ReadOne(r, s) ==
  CASE r = "field"     -> ReadField(s)
    [] r = "text"      -> ReadPString(s)
    [] r = "server"    -> ReadEntry(s)
    [] r = "component" -> ReadComponent(s)
    [] r = "fork"      -> ReadFork(s)
    [] r = "entry"     -> ReadEntryOf(s)

\* One more element, or what went wrong before.
AndNext(r, most) ==
  IF most.ok
    THEN IF ReadOne(r, most.rest).ok
           THEN Got(Append(most.value, ReadOne(r, most.rest).value), ReadOne(r, most.rest).rest)
           ELSE ReadOne(r, most.rest)
    ELSE most

ListStep(r, n, s, g) ==
  [T \in SUBSET DOMAIN [i \in 1..n |-> i] |->
     IF T = {} THEN Got(<< >>, s) ELSE AndNext(r, g[T \ {Max(T)}])]
ListFold(r, n, s) == CHOOSE g : g = ListStep(r, n, s, g)

ItemStep(n, s, g, One(_)) ==
  [T \in SUBSET DOMAIN [i \in 1..n |-> i] |->
     IF T = {} THEN Got(<< >>, s)
     ELSE IF g[T \ {Max(T)}].ok
          THEN IF One(g[T \ {Max(T)}].rest).ok
                 THEN Got(Append(g[T \ {Max(T)}].value, One(g[T \ {Max(T)}].rest).value),
                          One(g[T \ {Max(T)}].rest).rest)
                 ELSE One(g[T \ {Max(T)}].rest)
          ELSE g[T \ {Max(T)}]]

IsStep(r, n, s, g, f) ==
  /\ f = [T \in SUBSET DOMAIN [i \in 1..n |-> i] |-> f[T]]
  /\ \A T \in SUBSET DOMAIN [i \in 1..n |-> i] :
       f[T] = IF T = {} THEN Got(<< >>, s) ELSE AndNext(r, g[T \ {Max(T)}])

LEMMA SameStep ==
  ASSUME NEW r, NEW n, NEW s, NEW g, NEW f, IsStep(r, n, s, g, f)
  PROVE  f = ListStep(r, n, s, g)
<1> DEFINE D == SUBSET DOMAIN [i \in 1..n |-> i]
           h == ListStep(r, n, s, g)
<1>1. \A T \in D : h[T] = IF T = {} THEN Got(<< >>, s) ELSE AndNext(r, g[T \ {Max(T)}])
  BY Zenon DEF ListStep
<1>2. h = [T \in D |-> h[T]]
  BY Zenon DEF ListStep
<1> HIDE DEF h
<1>3. \A T \in D : f[T] = h[T]
  BY <1>1 DEF IsStep
<1>4. f = [T \in D |-> f[T]]
  BY Zenon DEF IsStep
<1> HIDE DEF D
<1>5. f = h
  BY <1>2, <1>3, <1>4
<1>. QED BY <1>5 DEF h

LEMMA FieldsAreFolded ==
  ASSUME NEW n, NEW s
  PROVE  Items(n, s, ReadField) = ListFold("field", n, s)[DOMAIN [i \in 1..n |-> i]]
<1>1. ASSUME NEW g
      PROVE  ItemStep(n, s, g, ReadField) = ListStep("field", n, s, g)
  <2> DEFINE f == ItemStep(n, s, g, ReadField)
  <2>1. ASSUME NEW T \in SUBSET DOMAIN [i \in 1..n |-> i]
        PROVE  f[T] = IF T = {} THEN Got(<< >>, s) ELSE AndNext("field", g[T \ {Max(T)}])
    <3> DEFINE most == g[T \ {Max(T)}]
               x == ReadField(most.rest)
    <3>1. ReadOne("field", most.rest) = x
      BY DEF ReadOne
    <3>2. f[T] = IF T = {} THEN Got(<< >>, s)
                 ELSE IF most.ok
                      THEN IF x.ok THEN Got(Append(most.value, x.value), x.rest) ELSE x
                      ELSE most
      BY Zenon DEF ItemStep
    <3> HIDE DEF most, f, x
    <3>3. AndNext("field", most)
            = IF most.ok THEN IF x.ok THEN Got(Append(most.value, x.value), x.rest) ELSE x
              ELSE most
      BY <3>1 DEF AndNext
    <3>4. f[T] = IF T = {} THEN Got(<< >>, s) ELSE AndNext("field", most)
      BY <3>2, <3>3
    <3>. QED BY <3>4 DEF most
  <2>2. f = [T \in SUBSET DOMAIN [i \in 1..n |-> i] |-> f[T]]
    BY Zenon DEF ItemStep
  <2> HIDE DEF f
  <2>3. IsStep("field", n, s, g, f)
    BY <2>1, <2>2, Zenon DEF IsStep
  <2>4. f = ListStep("field", n, s, g)
    BY <2>3, SameStep, Zenon
  <2>. QED BY <2>4 DEF f
<1>2. Items(n, s, ReadField)
        = (CHOOSE g : g = ItemStep(n, s, g, ReadField))[DOMAIN [i \in 1..n |-> i]]
  BY Zenon DEF Items, ItemStep, FoldLeft, MapThenFoldSet, Then
<1>3. (CHOOSE g : g = ItemStep(n, s, g, ReadField))
        = (CHOOSE g : g = ListStep("field", n, s, g))
  BY <1>1, Zenon
<1>. QED BY <1>2, <1>3 DEF ListFold

LEMMA TextsAreFolded ==
  ASSUME NEW n, NEW s
  PROVE  Items(n, s, ReadPString) = ListFold("text", n, s)[DOMAIN [i \in 1..n |-> i]]
<1>1. ASSUME NEW g
      PROVE  ItemStep(n, s, g, ReadPString) = ListStep("text", n, s, g)
  <2> DEFINE f == ItemStep(n, s, g, ReadPString)
  <2>1. ASSUME NEW T \in SUBSET DOMAIN [i \in 1..n |-> i]
        PROVE  f[T] = IF T = {} THEN Got(<< >>, s) ELSE AndNext("text", g[T \ {Max(T)}])
    <3> DEFINE most == g[T \ {Max(T)}]
               x == ReadPString(most.rest)
    <3>1. ReadOne("text", most.rest) = x
      BY DEF ReadOne
    <3>2. f[T] = IF T = {} THEN Got(<< >>, s)
                 ELSE IF most.ok
                      THEN IF x.ok THEN Got(Append(most.value, x.value), x.rest) ELSE x
                      ELSE most
      BY Zenon DEF ItemStep
    <3> HIDE DEF most, f, x
    <3>3. AndNext("text", most)
            = IF most.ok THEN IF x.ok THEN Got(Append(most.value, x.value), x.rest) ELSE x
              ELSE most
      BY <3>1 DEF AndNext
    <3>4. f[T] = IF T = {} THEN Got(<< >>, s) ELSE AndNext("text", most)
      BY <3>2, <3>3
    <3>. QED BY <3>4 DEF most
  <2>2. f = [T \in SUBSET DOMAIN [i \in 1..n |-> i] |-> f[T]]
    BY Zenon DEF ItemStep
  <2> HIDE DEF f
  <2>3. IsStep("text", n, s, g, f)
    BY <2>1, <2>2, Zenon DEF IsStep
  <2>4. f = ListStep("text", n, s, g)
    BY <2>3, SameStep, Zenon
  <2>. QED BY <2>4 DEF f
<1>2. Items(n, s, ReadPString)
        = (CHOOSE g : g = ItemStep(n, s, g, ReadPString))[DOMAIN [i \in 1..n |-> i]]
  BY Zenon DEF Items, ItemStep, FoldLeft, MapThenFoldSet, Then
<1>3. (CHOOSE g : g = ItemStep(n, s, g, ReadPString))
        = (CHOOSE g : g = ListStep("text", n, s, g))
  BY <1>1, Zenon
<1>. QED BY <1>2, <1>3 DEF ListFold

LEMMA ServersAreFolded ==
  ASSUME NEW n, NEW s
  PROVE  Items(n, s, ReadEntry) = ListFold("server", n, s)[DOMAIN [i \in 1..n |-> i]]
<1>1. ASSUME NEW g
      PROVE  ItemStep(n, s, g, ReadEntry) = ListStep("server", n, s, g)
  <2> DEFINE f == ItemStep(n, s, g, ReadEntry)
  <2>1. ASSUME NEW T \in SUBSET DOMAIN [i \in 1..n |-> i]
        PROVE  f[T] = IF T = {} THEN Got(<< >>, s) ELSE AndNext("server", g[T \ {Max(T)}])
    <3> DEFINE most == g[T \ {Max(T)}]
               x == ReadEntry(most.rest)
    <3>1. ReadOne("server", most.rest) = x
      BY DEF ReadOne
    <3>2. f[T] = IF T = {} THEN Got(<< >>, s)
                 ELSE IF most.ok
                      THEN IF x.ok THEN Got(Append(most.value, x.value), x.rest) ELSE x
                      ELSE most
      BY Zenon DEF ItemStep
    <3> HIDE DEF most, f, x
    <3>3. AndNext("server", most)
            = IF most.ok THEN IF x.ok THEN Got(Append(most.value, x.value), x.rest) ELSE x
              ELSE most
      BY <3>1 DEF AndNext
    <3>4. f[T] = IF T = {} THEN Got(<< >>, s) ELSE AndNext("server", most)
      BY <3>2, <3>3
    <3>. QED BY <3>4 DEF most
  <2>2. f = [T \in SUBSET DOMAIN [i \in 1..n |-> i] |-> f[T]]
    BY Zenon DEF ItemStep
  <2> HIDE DEF f
  <2>3. IsStep("server", n, s, g, f)
    BY <2>1, <2>2, Zenon DEF IsStep
  <2>4. f = ListStep("server", n, s, g)
    BY <2>3, SameStep, Zenon
  <2>. QED BY <2>4 DEF f
<1>2. Items(n, s, ReadEntry)
        = (CHOOSE g : g = ItemStep(n, s, g, ReadEntry))[DOMAIN [i \in 1..n |-> i]]
  BY Zenon DEF Items, ItemStep, FoldLeft, MapThenFoldSet, Then
<1>3. (CHOOSE g : g = ItemStep(n, s, g, ReadEntry))
        = (CHOOSE g : g = ListStep("server", n, s, g))
  BY <1>1, Zenon
<1>. QED BY <1>2, <1>3 DEF ListFold

LEMMA ComponentsAreFolded ==
  ASSUME NEW n, NEW s
  PROVE  Items(n, s, ReadComponent) = ListFold("component", n, s)[DOMAIN [i \in 1..n |-> i]]
<1>1. ASSUME NEW g
      PROVE  ItemStep(n, s, g, ReadComponent) = ListStep("component", n, s, g)
  <2> DEFINE f == ItemStep(n, s, g, ReadComponent)
  <2>1. ASSUME NEW T \in SUBSET DOMAIN [i \in 1..n |-> i]
        PROVE  f[T] = IF T = {} THEN Got(<< >>, s) ELSE AndNext("component", g[T \ {Max(T)}])
    <3> DEFINE most == g[T \ {Max(T)}]
               x == ReadComponent(most.rest)
    <3>1. ReadOne("component", most.rest) = x
      BY DEF ReadOne
    <3>2. f[T] = IF T = {} THEN Got(<< >>, s)
                 ELSE IF most.ok
                      THEN IF x.ok THEN Got(Append(most.value, x.value), x.rest) ELSE x
                      ELSE most
      BY Zenon DEF ItemStep
    <3> HIDE DEF most, f, x
    <3>3. AndNext("component", most)
            = IF most.ok THEN IF x.ok THEN Got(Append(most.value, x.value), x.rest) ELSE x
              ELSE most
      BY <3>1 DEF AndNext
    <3>4. f[T] = IF T = {} THEN Got(<< >>, s) ELSE AndNext("component", most)
      BY <3>2, <3>3
    <3>. QED BY <3>4 DEF most
  <2>2. f = [T \in SUBSET DOMAIN [i \in 1..n |-> i] |-> f[T]]
    BY Zenon DEF ItemStep
  <2> HIDE DEF f
  <2>3. IsStep("component", n, s, g, f)
    BY <2>1, <2>2, Zenon DEF IsStep
  <2>4. f = ListStep("component", n, s, g)
    BY <2>3, SameStep, Zenon
  <2>. QED BY <2>4 DEF f
<1>2. Items(n, s, ReadComponent)
        = (CHOOSE g : g = ItemStep(n, s, g, ReadComponent))[DOMAIN [i \in 1..n |-> i]]
  BY Zenon DEF Items, ItemStep, FoldLeft, MapThenFoldSet, Then
<1>3. (CHOOSE g : g = ItemStep(n, s, g, ReadComponent))
        = (CHOOSE g : g = ListStep("component", n, s, g))
  BY <1>1, Zenon
<1>. QED BY <1>2, <1>3 DEF ListFold

LEMMA ForksAreFolded ==
  ASSUME NEW n, NEW s
  PROVE  Items(n, s, ReadFork) = ListFold("fork", n, s)[DOMAIN [i \in 1..n |-> i]]
<1>1. ASSUME NEW g
      PROVE  ItemStep(n, s, g, ReadFork) = ListStep("fork", n, s, g)
  <2> DEFINE f == ItemStep(n, s, g, ReadFork)
  <2>1. ASSUME NEW T \in SUBSET DOMAIN [i \in 1..n |-> i]
        PROVE  f[T] = IF T = {} THEN Got(<< >>, s) ELSE AndNext("fork", g[T \ {Max(T)}])
    <3> DEFINE most == g[T \ {Max(T)}]
               x == ReadFork(most.rest)
    <3>1. ReadOne("fork", most.rest) = x
      BY DEF ReadOne
    <3>2. f[T] = IF T = {} THEN Got(<< >>, s)
                 ELSE IF most.ok
                      THEN IF x.ok THEN Got(Append(most.value, x.value), x.rest) ELSE x
                      ELSE most
      BY Zenon DEF ItemStep
    <3> HIDE DEF most, f, x
    <3>3. AndNext("fork", most)
            = IF most.ok THEN IF x.ok THEN Got(Append(most.value, x.value), x.rest) ELSE x
              ELSE most
      BY <3>1 DEF AndNext
    <3>4. f[T] = IF T = {} THEN Got(<< >>, s) ELSE AndNext("fork", most)
      BY <3>2, <3>3
    <3>. QED BY <3>4 DEF most
  <2>2. f = [T \in SUBSET DOMAIN [i \in 1..n |-> i] |-> f[T]]
    BY Zenon DEF ItemStep
  <2> HIDE DEF f
  <2>3. IsStep("fork", n, s, g, f)
    BY <2>1, <2>2, Zenon DEF IsStep
  <2>4. f = ListStep("fork", n, s, g)
    BY <2>3, SameStep, Zenon
  <2>. QED BY <2>4 DEF f
<1>2. Items(n, s, ReadFork)
        = (CHOOSE g : g = ItemStep(n, s, g, ReadFork))[DOMAIN [i \in 1..n |-> i]]
  BY Zenon DEF Items, ItemStep, FoldLeft, MapThenFoldSet, Then
<1>3. (CHOOSE g : g = ItemStep(n, s, g, ReadFork))
        = (CHOOSE g : g = ListStep("fork", n, s, g))
  BY <1>1, Zenon
<1>. QED BY <1>2, <1>3 DEF ListFold

LEMMA EntriesAreFolded ==
  ASSUME NEW n, NEW s
  PROVE  Items(n, s, ReadEntryOf) = ListFold("entry", n, s)[DOMAIN [i \in 1..n |-> i]]
<1>1. ASSUME NEW g
      PROVE  ItemStep(n, s, g, ReadEntryOf) = ListStep("entry", n, s, g)
  <2> DEFINE f == ItemStep(n, s, g, ReadEntryOf)
  <2>1. ASSUME NEW T \in SUBSET DOMAIN [i \in 1..n |-> i]
        PROVE  f[T] = IF T = {} THEN Got(<< >>, s) ELSE AndNext("entry", g[T \ {Max(T)}])
    <3> DEFINE most == g[T \ {Max(T)}]
               x == ReadEntryOf(most.rest)
    <3>1. ReadOne("entry", most.rest) = x
      BY DEF ReadOne
    <3>2. f[T] = IF T = {} THEN Got(<< >>, s)
                 ELSE IF most.ok
                      THEN IF x.ok THEN Got(Append(most.value, x.value), x.rest) ELSE x
                      ELSE most
      BY Zenon DEF ItemStep
    <3> HIDE DEF most, f, x
    <3>3. AndNext("entry", most)
            = IF most.ok THEN IF x.ok THEN Got(Append(most.value, x.value), x.rest) ELSE x
              ELSE most
      BY <3>1 DEF AndNext
    <3>4. f[T] = IF T = {} THEN Got(<< >>, s) ELSE AndNext("entry", most)
      BY <3>2, <3>3
    <3>. QED BY <3>4 DEF most
  <2>2. f = [T \in SUBSET DOMAIN [i \in 1..n |-> i] |-> f[T]]
    BY Zenon DEF ItemStep
  <2> HIDE DEF f
  <2>3. IsStep("entry", n, s, g, f)
    BY <2>1, <2>2, Zenon DEF IsStep
  <2>4. f = ListStep("entry", n, s, g)
    BY <2>3, SameStep, Zenon
  <2>. QED BY <2>4 DEF f
<1>2. Items(n, s, ReadEntryOf)
        = (CHOOSE g : g = ItemStep(n, s, g, ReadEntryOf))[DOMAIN [i \in 1..n |-> i]]
  BY Zenon DEF Items, ItemStep, FoldLeft, MapThenFoldSet, Then
<1>3. (CHOOSE g : g = ItemStep(n, s, g, ReadEntryOf))
        = (CHOOSE g : g = ListStep("entry", n, s, g))
  BY <1>1, Zenon
<1>. QED BY <1>2, <1>3 DEF ListFold

\* g is right for the sets of at most k positions.
ListRight(r, n, s, g, k) ==
  \A T \in SUBSET DOMAIN [i \in 1..n |-> i] :
    Cardinality(T) <= k => g[T] = ListStep(r, n, s, g)[T]

LEMMA PositionsOfList ==
  ASSUME NEW n \in Nat, NEW T \in SUBSET DOMAIN [i \in 1..n |-> i]
  PROVE  /\ IsFiniteSet(T) /\ Cardinality(T) \in Nat /\ Cardinality(T) <= n
         /\ T # {} => Max(T) \in T
<1> DEFINE p == [i \in 1..n |-> i]
<1>1. p \in Seq(Int) /\ Len(p) = n
  OBVIOUS
<1>2. T \in SUBSET DOMAIN p
  OBVIOUS
<1> HIDE DEF p
<1>. QED BY <1>1, <1>2, Positions

LEMMA ListRightStep ==
  ASSUME NEW r, NEW n \in Nat, NEW s, NEW k \in Nat, NEW g, ListRight(r, n, s, g, k)
  PROVE  ListRight(r, n, s, ListStep(r, n, s, g), k + 1)
<1> DEFINE h == ListStep(r, n, s, g)
           D == DOMAIN [i \in 1..n |-> i]
<1> SUFFICES ASSUME NEW T \in SUBSET D, Cardinality(T) <= k + 1
             PROVE  h[T] = ListStep(r, n, s, h)[T]
  BY DEF ListRight
<1>1. CASE T = {}
  BY <1>1 DEF ListStep
<1>2. CASE T # {}
  <2> DEFINE U == T \ {Max(T)}
  <2>1. IsFiniteSet(T) /\ Max(T) \in T
    BY <1>2, PositionsOfList
  <2>2. Cardinality(T) \in Nat /\ Cardinality(U) = Cardinality(T) - 1
    BY <2>1, FS_CardinalityType, FS_RemoveElement
  <2>3. U \in SUBSET D
    OBVIOUS
  <2>4. Cardinality(U) <= k
    <3> HIDE DEF U, D, h
    <3>. QED BY <2>2
  <2>5. g[U] = h[U]
    BY <2>3, <2>4 DEF ListRight
  <2> HIDE DEF h, U
  <2>6. ListStep(r, n, s, h)[T] = AndNext(r, h[U]) /\ ListStep(r, n, s, g)[T] = AndNext(r, g[U])
    BY <1>2 DEF ListStep, U
  <2>. QED BY <2>5, <2>6 DEF h
<1>. QED BY <1>1, <1>2

LEMMA ListFoldStep ==
  ASSUME NEW r, NEW n \in Nat, NEW s
  PROVE  ListFold(r, n, s) = ListStep(r, n, s, ListFold(r, n, s))
<1> DEFINE D == DOMAIN [i \in 1..n |-> i]
           K == {k \in Nat : \E g : ListRight(r, n, s, g, k)}
<1>1. 0 \in K
  <2> DEFINE g == [T \in SUBSET D |-> Got(<< >>, s)]
  <2>1. ASSUME NEW T \in SUBSET D, Cardinality(T) <= 0
        PROVE  g[T] = ListStep(r, n, s, g)[T]
    <3>1. IsFiniteSet(T) /\ Cardinality(T) \in Nat
      BY PositionsOfList
    <3>2. T = {}
      BY <2>1, <3>1, FS_EmptySet
    <3>. QED BY <3>2 DEF ListStep
  <2>2. ListRight(r, n, s, g, 0)
    BY <2>1 DEF ListRight
  <2>. QED BY <2>2
<1>2. ASSUME NEW k \in K
      PROVE  k + 1 \in K
  <2>1. PICK g : ListRight(r, n, s, g, k)
    OBVIOUS
  <2>2. ListRight(r, n, s, ListStep(r, n, s, g), k + 1)
    BY <2>1, ListRightStep
  <2>. QED BY <2>2
<1>3. K = Nat
  <2>1. K \in SUBSET Nat
    OBVIOUS
  <2> HIDE DEF K
  <2>. QED BY <1>1, <1>2, <2>1, Induction
<1>4. PICK g : ListRight(r, n, s, g, n)
  BY <1>3
<1> DEFINE h == ListStep(r, n, s, g)
           hh == ListStep(r, n, s, h)
<1>5. ASSUME NEW T \in SUBSET D
      PROVE  h[T] = hh[T]
  <2>1. Cardinality(T) \in Nat /\ Cardinality(T) <= n
    BY PositionsOfList
  <2>2. ListRight(r, n, s, h, n + 1)
    BY <1>4, ListRightStep
  <2>3. Cardinality(T) <= n + 1
    BY <2>1
  <2>. QED BY <2>2, <2>3 DEF ListRight
<1>6. h = [T \in SUBSET D |-> h[T]] /\ hh = [T \in SUBSET D |-> hh[T]]
  BY Zenon DEF ListStep
<1> HIDE DEF D, h, hh
<1>7. h = hh
  BY <1>5, <1>6
<1>. QED BY <1>7 DEF ListFold, hh

\* The first k elements.
SomeOf(r, n, s, k) == ListFold(r, n, s)[1..k]

LEMMA NoneOf ==
  ASSUME NEW r, NEW n \in Nat, NEW s
  PROVE  SomeOf(r, n, s, 0) = Got(<< >>, s)
<1>1. 1..0 = {} /\ {} \in SUBSET DOMAIN [i \in 1..n |-> i]
  OBVIOUS
<1>2. ListFold(r, n, s)[{}] = ListStep(r, n, s, ListFold(r, n, s))[{}]
  BY ListFoldStep, Zenon
<1>. QED BY <1>1, <1>2 DEF ListStep, SomeOf

LEMMA OneMoreOf ==
  ASSUME NEW r, NEW n \in Nat, NEW s, NEW k \in Nat, k + 1 <= n
  PROVE  SomeOf(r, n, s, k + 1) = AndNext(r, SomeOf(r, n, s, k))
<1> DEFINE l == k + 1
           D == DOMAIN [i \in 1..n |-> i]
<1>1. D = 1..n /\ l \in 1..l /\ \A i \in 1..l : i \in 1..n
  OBVIOUS
<1>2. 1..l \in SUBSET D /\ 1..l # {}
  BY <1>1
<1>3. Max(1..l) = l /\ (1..l) \ {l} = 1..k
  <2>1. 1..l \in SUBSET (1..l) /\ l \in Nat
    OBVIOUS
  <2>2. Max(1..l) \in 1..l /\ \A x \in 1..l : Max(1..l) >= x
    BY <1>2, <2>1, MaxOf
  <2>. QED BY <1>1, <2>2
<1>4. ListFold(r, n, s)[1..l] = ListStep(r, n, s, ListFold(r, n, s))[1..l]
  BY ListFoldStep, Zenon
<1> HIDE DEF l
<1>5. ListStep(r, n, s, ListFold(r, n, s))[1..l]
        = AndNext(r, ListFold(r, n, s)[(1..l) \ {Max(1..l)}])
  BY <1>2 DEF ListStep
<1>. QED BY <1>3, <1>4, <1>5 DEF SomeOf, l

LEMMA FieldsAre ==
  ASSUME NEW n \in Nat, NEW s
  PROVE  Items(n, s, ReadField) = SomeOf("field", n, s, n)
<1>1. DOMAIN [i \in 1..n |-> i] = 1..n
  OBVIOUS
<1>. QED BY <1>1, FieldsAreFolded DEF SomeOf

LEMMA TextsAre ==
  ASSUME NEW n \in Nat, NEW s
  PROVE  Items(n, s, ReadPString) = SomeOf("text", n, s, n)
<1>1. DOMAIN [i \in 1..n |-> i] = 1..n
  OBVIOUS
<1>. QED BY <1>1, TextsAreFolded DEF SomeOf

LEMMA ServersAre ==
  ASSUME NEW n \in Nat, NEW s
  PROVE  Items(n, s, ReadEntry) = SomeOf("server", n, s, n)
<1>1. DOMAIN [i \in 1..n |-> i] = 1..n
  OBVIOUS
<1>. QED BY <1>1, ServersAreFolded DEF SomeOf

LEMMA ComponentsAre ==
  ASSUME NEW n \in Nat, NEW s
  PROVE  Items(n, s, ReadComponent) = SomeOf("component", n, s, n)
<1>1. DOMAIN [i \in 1..n |-> i] = 1..n
  OBVIOUS
<1>. QED BY <1>1, ComponentsAreFolded DEF SomeOf

LEMMA ForksAre ==
  ASSUME NEW n \in Nat, NEW s
  PROVE  Items(n, s, ReadFork) = SomeOf("fork", n, s, n)
<1>1. DOMAIN [i \in 1..n |-> i] = 1..n
  OBVIOUS
<1>. QED BY <1>1, ForksAreFolded DEF SomeOf

LEMMA EntriesAre ==
  ASSUME NEW n \in Nat, NEW s
  PROVE  Items(n, s, ReadEntryOf) = SomeOf("entry", n, s, n)
<1>1. DOMAIN [i \in 1..n |-> i] = 1..n
  OBVIOUS
<1>. QED BY <1>1, EntriesAreFolded DEF SomeOf

\* Runs of bytes whose length a number of so many values can say.
Runs(limit) == {d \in Seq(Byte) : Len(d) <= limit}

Element(r) ==
  CASE r = "field"     -> [id : Word, data : Runs(MaxU16)]
    [] r = "text"      -> Runs(MaxU8)
    [] r = "server"    -> [address : {d \in Seq(Byte) : Len(d) = 4}, port : Word, user_count : Word,
                           flags : Word, texts : {t \in Seq(Runs(MaxU8)) : Len(t) = 2}]
    [] r = "component" -> [script : Word, name : Runs(MaxU8)]
    [] r = "fork"      -> [type : Long, compression : Long, data : Runs(MaxU32)]
    [] r = "entry"     -> {e \in ArchiveEntry : EntryFitting(e)}

WriteOne(r, x) ==
  CASE r = "field"     -> EncodeField(x)
    [] r = "text"      -> PString(x)
    [] r = "server"    -> EncodeEntry(x)
    [] r = "component" -> U16(x.script) \o << Len(x.name) >> \o x.name
    [] r = "fork"      -> EncodeFork(x)
    [] r = "entry"     -> WriteEntry(x)

\* An element is read as it was written, whatever comes behind it, and one
\* that was read is what was written there.
ElementWritten(r) ==
  \A x \in Element(r) :
    /\ WriteOne(r, x) \in Seq(Byte)
    /\ \A c \in Seq(Byte) : ReadOne(r, WriteOne(r, x) \o c) = Got(x, c)

ElementRead(r) ==
  \A s \in Seq(Byte) :
    ReadOne(r, s).ok =>
      /\ ReadOne(r, s).value \in Element(r) /\ ReadOne(r, s).rest \in Seq(Byte)
      /\ s = WriteOne(r, ReadOne(r, s).value) \o ReadOne(r, s).rest

AllOf(r, xs) == FlattenSeq([i \in 1..Len(xs) |-> WriteOne(r, xs[i])])

LEMMA AllOfNone ==
  ASSUME NEW r
  PROVE  AllOf(r, << >>) = << >>
<1>1. [i \in 1..Len(<< >>) |-> WriteOne(r, << >>[i])] = << >>
  OBVIOUS
<1>. QED BY <1>1, FlattenNone DEF AllOf

LEMMA AllOfTyped ==
  ASSUME NEW r, ElementWritten(r), NEW xs \in Seq(Element(r))
  PROVE  /\ [i \in 1..Len(xs) |-> WriteOne(r, xs[i])] \in Seq(Seq(Byte))
         /\ AllOf(r, xs) \in Seq(Byte)
<1> DEFINE ss == [i \in 1..Len(xs) |-> WriteOne(r, xs[i])]
<1>1. \A i \in 1..Len(xs) : WriteOne(r, xs[i]) \in Seq(Byte)
  <2>1. \A i \in 1..Len(xs) : xs[i] \in Element(r)
    BY ElementOfSeq
  <2>. QED BY <2>1 DEF ElementWritten
<1>2. ss \in Seq(Seq(Byte))
  <2>1. Len(xs) \in Nat
    OBVIOUS
  <2>. QED BY <1>1, <2>1
<1> HIDE DEF ss
<1>3. FlattenSeq(ss) \in Seq(Byte)
  BY <1>2, FlattenIs
<1>. QED BY <1>2, <1>3 DEF ss, AllOf

LEMMA AllOfMore ==
  ASSUME NEW r, ElementWritten(r), NEW xs \in Seq(Element(r)), NEW x \in Element(r)
  PROVE  AllOf(r, Append(xs, x)) = AllOf(r, xs) \o WriteOne(r, x)
<1> DEFINE ss == [i \in 1..Len(xs) |-> WriteOne(r, xs[i])]
           ys == Append(xs, x)
           tt == [i \in 1..Len(ys) |-> WriteOne(r, ys[i])]
           y == WriteOne(r, x)
<1>1. ss \in Seq(Seq(Byte)) /\ y \in Seq(Byte)
  BY AllOfTyped DEF ElementWritten
<1>2. tt = Append(ss, y)
  <2>1. /\ Len(ys) = Len(xs) + 1 /\ Len(xs) \in Nat
        /\ \A i \in 1..Len(xs) : ys[i] = xs[i]
        /\ ys[Len(xs) + 1] = x
    OBVIOUS
  <2>2. Len(ss) = Len(xs) /\ \A i \in 1..Len(xs) : ss[i] = WriteOne(r, xs[i])
    BY <2>1
  <2>3. tt = [i \in 1..Len(xs) + 1 |-> tt[i]]
    BY <2>1
  <2>4. \A i \in 1..Len(xs) + 1 : tt[i] = IF i = Len(xs) + 1 THEN y ELSE ss[i]
    <3> SUFFICES ASSUME NEW i \in 1..Len(xs) + 1
                 PROVE  tt[i] = IF i = Len(xs) + 1 THEN y ELSE ss[i]
      OBVIOUS
    <3>1. tt[i] = WriteOne(r, ys[i])
      BY <2>1
    <3>2. CASE i = Len(xs) + 1
      BY <2>1, <3>1, <3>2
    <3>3. CASE i # Len(xs) + 1
      <4>1. i \in 1..Len(xs)
        BY <2>1, <3>3
      <4> HIDE DEF tt, ys, ss
      <4>. QED BY <2>1, <2>2, <3>1, <3>3, <4>1
    <3>. QED BY <3>2, <3>3
  <2> HIDE DEF ss, tt, y, ys
  <2>5. Append(ss, y) = [i \in 1..Len(xs) + 1 |-> IF i = Len(xs) + 1 THEN y ELSE ss[i]]
    <3> DEFINE n == Len(xs)
               a == Append(ss, y)
    <3>1. n \in Nat /\ Len(ss) = n
      BY <2>1, <2>2
    <3> HIDE DEF n
    <3>2. /\ a \in Seq(Seq(Byte)) /\ Len(a) = n + 1 /\ a[n + 1] = y
          /\ \A i \in 1..n : a[i] = ss[i]
      BY <1>1, <3>1, AppendProperties
    <3> HIDE DEF a
    <3>3. a = [i \in 1..n + 1 |-> a[i]]
      BY <3>2
    <3>4. \A i \in 1..n + 1 : a[i] = IF i = n + 1 THEN y ELSE ss[i]
      BY <3>1, <3>2
    <3>5. a = [i \in 1..n + 1 |-> IF i = n + 1 THEN y ELSE ss[i]]
      BY <3>3, <3>4
    <3>. QED BY <3>5 DEF a, n
  <2>. QED BY <2>3, <2>4, <2>5
<1> HIDE DEF ss, y, tt
<1>3. FlattenSeq(Append(ss, y)) = FlattenSeq(ss) \o y
  BY <1>1, FlattenMore
<1>4. FlattenSeq(tt) = AllOf(r, ys)
  BY DEF AllOf, tt
<1>5. FlattenSeq(ss) = AllOf(r, xs)
  BY DEF AllOf, ss
<1>. QED BY <1>2, <1>3, <1>4, <1>5 DEF y

Longer(xs, ys, x) == xs = Append(ys, x)

\* A list without its last element.
LEMMA LastOf ==
  ASSUME NEW S, NEW xs \in Seq(S), NEW m \in Nat, Len(xs) = m + 1
  PROVE  \E ys \in Seq(S), x \in S : Len(ys) = m /\ Longer(xs, ys, x)
<1> DEFINE ys == [i \in 1..m |-> xs[i]]
           x == xs[m + 1]
<1>1. x \in S
  OBVIOUS
<1>2. ys \in Seq(S) /\ Len(ys) = m
  OBVIOUS
<1>3. xs = Append(ys, x)
  OBVIOUS
<1> HIDE DEF ys, x
<1>. QED BY <1>1, <1>2, <1>3 DEF Longer

\* The first m of n elements are read as they were written.
ReadAsWritten(r, n, m) ==
  \A ys \in Seq(Element(r)), d \in Seq(Byte) :
    Len(ys) = m => SomeOf(r, n, AllOf(r, ys) \o d, m) = Got(ys, d)

\* What was read of s are m elements, and what is left of it.
AreThere(r, s, most, m) ==
  /\ most.value \in Seq(Element(r)) /\ Len(most.value) = m /\ most.rest \in Seq(Byte)
  /\ s = AllOf(r, most.value) \o most.rest

LEMMA GotIs ==
  ASSUME NEW v, NEW d
  PROVE  Got(v, d).ok /\ Got(v, d).value = v /\ Got(v, d).rest = d
BY DEF Got

\* What was written is read, element by element.
LEMMA ItemsWritten ==
  ASSUME NEW r, ElementWritten(r), NEW n \in Nat, NEW xs \in Seq(Element(r)), Len(xs) = n,
         NEW c \in Seq(Byte)
  PROVE  SomeOf(r, n, AllOf(r, xs) \o c, n) = Got(xs, c)
<1> DEFINE K == {m \in Nat : m <= n => ReadAsWritten(r, n, m)}
<1>1. 0 \in K
  <2> SUFFICES ASSUME NEW ys \in Seq(Element(r)), NEW d \in Seq(Byte), Len(ys) = 0
               PROVE  SomeOf(r, n, AllOf(r, ys) \o d, 0) = Got(ys, d)
    BY DEF ReadAsWritten
  <2>1. ys = << >>
    OBVIOUS
  <2>2. AllOf(r, ys) \o d = d
    BY <2>1, AllOfNone
  <2>. QED BY <2>1, <2>2, NoneOf
<1>2. ASSUME NEW m \in K
      PROVE  m + 1 \in K
  <2> SUFFICES ASSUME m + 1 <= n, NEW ys \in Seq(Element(r)), NEW d \in Seq(Byte), Len(ys) = m + 1
               PROVE  SomeOf(r, n, AllOf(r, ys) \o d, m + 1) = Got(ys, d)
    BY DEF ReadAsWritten
  <2>1. m \in Nat /\ m <= n /\ ReadAsWritten(r, n, m)
    OBVIOUS
  <2> HIDE DEF K
  <2>2. PICK zs \in Seq(Element(r)), x \in Element(r) : Len(zs) = m /\ ys = Append(zs, x)
    <3>1. \E zs \in Seq(Element(r)), x \in Element(r) : Len(zs) = m /\ Longer(ys, zs, x)
      BY <2>1, LastOf, Zenon
    <3>. QED BY <3>1 DEF Longer
  <2> DEFINE a == AllOf(r, zs)
             b == WriteOne(r, x)
  <2>3. a \in Seq(Byte) /\ b \in Seq(Byte) /\ ReadOne(r, b \o d) = Got(x, d)
    BY AllOfTyped DEF ElementWritten
  <2>4. AllOf(r, ys) = a \o b
    BY <2>2, AllOfMore
  <2> HIDE DEF a, b
  <2>5. AllOf(r, ys) \o d = a \o (b \o d) /\ b \o d \in Seq(Byte)
    <3>1. (a \o b) \o d = a \o (b \o d)
      BY <2>3, Associative
    <3>2. b \o d \in Seq(Byte)
      BY <2>3, ConcatProperties
    <3>. QED BY <2>4, <3>1, <3>2
  <2>6. SomeOf(r, n, AllOf(r, ys) \o d, m) = Got(zs, b \o d)
    BY <2>1, <2>2, <2>5 DEF ReadAsWritten, a
  <2>7. SomeOf(r, n, AllOf(r, ys) \o d, m + 1) = AndNext(r, Got(zs, b \o d))
    BY <2>1, <2>6, OneMoreOf
  <2>8. AndNext(r, Got(zs, b \o d)) = Got(ys, d)
    <3> DEFINE f == b \o d
               g == Got(zs, f)
    <3>1. ReadOne(r, f) = Got(x, d)
      BY <2>3, Zenon
    <3> HIDE DEF f
    <3>2. g.ok /\ g.value = zs /\ g.rest = f
      BY GotIs
    <3> HIDE DEF g
    <3>3. ReadOne(r, g.rest) = Got(x, d) /\ Got(x, d).ok /\ Got(x, d).value = x
          /\ Got(x, d).rest = d
      BY <3>2, <3>1, GotIs
    <3>4. AndNext(r, g) = Got(Append(zs, x), d)
      BY <3>2, <3>3 DEF AndNext
    <3>. QED BY <2>2, <3>4 DEF f, g
  <2>. QED BY <2>7, <2>8
<1>3. K = Nat
  <2>1. K \in SUBSET Nat
    OBVIOUS
  <2> HIDE DEF K
  <2>. QED BY <1>1, <1>2, <2>1, Induction
<1>4. ReadAsWritten(r, n, n)
  BY <1>3
<1>. QED BY <1>4 DEF ReadAsWritten

\* What was read is what is written there, element by element.
LEMMA ItemsRead ==
  ASSUME NEW r, ElementWritten(r), ElementRead(r), NEW n \in Nat, NEW s \in Seq(Byte),
         SomeOf(r, n, s, n).ok
  PROVE  AreThere(r, s, SomeOf(r, n, s, n), n)
<1> DEFINE K == {m \in Nat : m <= n /\ SomeOf(r, n, s, m).ok
                               => AreThere(r, s, SomeOf(r, n, s, m), m)}
<1>1. 0 \in K
  <2>1. /\ Got(<< >>, s).value = << >> /\ Got(<< >>, s).rest = s
        /\ << >> \in Seq(Element(r)) /\ Len(<< >>) = 0 /\ << >> \o s = s
    BY DEF Got
  <2>2. AreThere(r, s, Got(<< >>, s), 0)
    BY <2>1, AllOfNone DEF AreThere
  <2>. QED BY <2>2, NoneOf
<1>2. ASSUME NEW m \in K
      PROVE  m + 1 \in K
  <2> DEFINE most == SomeOf(r, n, s, m)
             one == ReadOne(r, most.rest)
  <2> SUFFICES ASSUME m + 1 <= n, SomeOf(r, n, s, m + 1).ok
               PROVE  AreThere(r, s, SomeOf(r, n, s, m + 1), m + 1)
    OBVIOUS
  <2>1. m \in Nat /\ m <= n /\ (most.ok => AreThere(r, s, most, m))
    OBVIOUS
  <2>2. SomeOf(r, n, s, m + 1) = AndNext(r, most)
    BY <2>1, OneMoreOf
  <2> HIDE DEF most, one, K
  <2>3. most.ok /\ one.ok
    BY <2>2 DEF AndNext, one
  <2>4. SomeOf(r, n, s, m + 1) = Got(Append(most.value, one.value), one.rest)
    BY <2>2, <2>3 DEF AndNext, one
  <2> DEFINE ys == most.value
             x == one.value
             d == one.rest
             b == WriteOne(r, x)
             a == AllOf(r, ys)
  <2>5. ys \in Seq(Element(r)) /\ Len(ys) = m /\ most.rest \in Seq(Byte) /\ s = a \o most.rest
    BY <2>1, <2>3 DEF AreThere
  <2>6. x \in Element(r) /\ d \in Seq(Byte) /\ most.rest = b \o d
    BY <2>3, <2>5 DEF ElementRead, one
  <2>7. a \in Seq(Byte) /\ b \in Seq(Byte)
    BY <2>5, <2>6, AllOfTyped DEF ElementWritten
  <2>8. AllOf(r, Append(ys, x)) = a \o b
    BY <2>5, <2>6, AllOfMore
  <2>9. Append(ys, x) \in Seq(Element(r)) /\ Len(Append(ys, x)) = m + 1
    <3> HIDE DEF ys, x
    <3>. QED BY <2>5, <2>6, AppendProperties
  <2> HIDE DEF ys, x, d, a, b
  <2>10. s = (a \o b) \o d
    <3>1. s = a \o (b \o d)
      BY <2>5, <2>6
    <3>2. (a \o b) \o d = a \o (b \o d)
      BY <2>6, <2>7, Associative
    <3>. QED BY <3>1, <3>2
  <2>11. SomeOf(r, n, s, m + 1).value = Append(ys, x) /\ SomeOf(r, n, s, m + 1).rest = d
    BY <2>4 DEF Got, ys, x, d
  <2>. QED BY <2>6, <2>8, <2>9, <2>10, <2>11 DEF AreThere
<1>3. K = Nat
  <2>1. K \in SUBSET Nat
    OBVIOUS
  <2> HIDE DEF K
  <2>. QED BY <1>1, <1>2, <2>1, Induction
<1>. QED BY <1>3

-----------------------------------------------------------------------------
(* The elements of lists.                                                  *)

\* What comes behind u is what is left without it.
LEMMA LeftBehind ==
  ASSUME NEW u \in Seq(Byte), NEW c \in Seq(Byte), NEW o \in Nat, o = Len(u)
  PROVE  Rest(u \o c, o) = c
<1> DEFINE n == Len(c)
           w == u \o c
<1>1. w \in Seq(Byte) /\ Len(w) = o + n /\ At(w, o, n) = c
  BY Appended
<1>2. o \in Nat /\ n \in Nat
  OBVIOUS
<1> HIDE DEF n, w
<1>3. Rest(w, o) = At(w, o, n)
  BY <1>1, <1>2, RestIs
<1>. QED BY <1>1, <1>3 DEF w

LEMMA CountedIs ==
  ASSUME NEW s \in Seq(Byte), NEW o \in Nat, NEW n \in Nat, NEW p \in Nat, p = o + n,
         p <= Len(s), NEW m \in Nat, Read(s, o, n) = m
  PROVE  /\ Counted(s, o, n).ok <=> p + m <= Len(s)
         /\ p + m <= Len(s) => Counted(s, o, n) = Got(At(s, p, m), Rest(s, p + m))
<1>1. Len(s) \in Nat
  OBVIOUS
<1>2. Counted(s, o, n) = IF Len(s) < p + m THEN Truncated ELSE Got(At(s, p, m), Rest(s, p + m))
  BY <1>1 DEF Counted
<1>3. ~ Truncated.ok
  BY DEF Truncated, Fail
<1>. QED BY <1>1, <1>2, <1>3, GotIs

LEMMA FieldElement == ElementWritten("field")
<1> SUFFICES ASSUME NEW x \in Element("field")
             PROVE  /\ WriteOne("field", x) \in Seq(Byte)
                    /\ \A c \in Seq(Byte) : ReadOne("field", WriteOne("field", x) \o c) = Got(x, c)
  BY DEF ElementWritten
<1> DEFINE id == x.id
           data == x.data
           m == Len(data)
           u == U16(id)
           v == u \o U16(m)
           w == v \o data
<1>1. /\ x = [id |-> id, data |-> data] /\ id \in Word /\ data \in Seq(Byte)
      /\ m \in Nat /\ m <= MaxU16 /\ Len(data) = m
  BY DEF Element, Runs
<1>2. WriteOne("field", x) = w
  BY DEF WriteOne, EncodeField
<1>3. m \in Word
  BY <1>1, Limits DEF Word
<1>4. \A s : ReadOne("field", s)
               = IF Counted(s, 2, 2).ok
                   THEN Got([id |-> Read(s, 0, 2), data |-> Counted(s, 2, 2).value],
                            Counted(s, 2, 2).rest)
                   ELSE Counted(s, 2, 2)
  BY DEF ReadOne, ReadField, Then
<1> HIDE DEF id, data
<1>5. u \in Seq(Byte) /\ Len(u) = 2 /\ Read(u, 0, 2) = id
  BY <1>1, WordFirst
<1> HIDE DEF u
<1>6. v \in Seq(Byte) /\ Len(v) = 4 /\ Read(v, 2, 2) = m /\ Continues(v, u)
  BY <1>3, <1>5, WordAppended
<1> HIDE DEF v
<1> HIDE DEF m
<1>7. /\ w \in Seq(Byte) /\ Len(w) = 4 + m /\ At(w, 4, m) = data /\ Continues(w, v)
  <2>1. w \in Seq(Byte) /\ Len(w) = Len(v) + m /\ At(w, Len(v), m) = data /\ Continues(w, v)
    BY <1>1, <1>6, RunAppended
  <2> HIDE DEF w
  <2>. QED BY <1>6, <2>1
<1> HIDE DEF w
<1> SUFFICES ASSUME NEW c \in Seq(Byte)
             PROVE  ReadOne("field", w \o c) = Got(x, c)
  BY <1>2, <1>7
<1> DEFINE s == w \o c
<1>8. s \in Seq(Byte) /\ Len(s) = (4 + m) + Len(c) /\ Continues(s, w)
  <2>1. s \in Seq(Byte) /\ Len(s) = Len(w) + Len(c) /\ Continues(s, w)
    BY <1>7, Appended
  <2>. QED BY <1>7, <2>1
<1>9. Rest(s, 4 + m) = c
  <2>1. Len(w) = 4 + m /\ w \in Seq(Byte) /\ 4 + m \in Nat
    BY <1>1, <1>7
  <2>. QED BY <2>1, LeftBehind
<1> HIDE DEF s
<1>10. Read(s, 0, 2) = id
  <2>1. At(v, 0, 2) = At(u, 0, 2)
    BY <1>5, <1>6 DEF Continues
  <2>2. At(w, 0, 2) = At(v, 0, 2)
    BY <1>6, <1>7 DEF Continues
  <2>3. At(s, 0, 2) = At(w, 0, 2)
    <3>1. 0 + 2 <= Len(w)
      BY <1>1, <1>7
    <3>. QED BY <1>8, <3>1 DEF Continues
  <2>. QED BY <1>5, <2>1, <2>2, <2>3 DEF Read
<1>11. Read(s, 2, 2) = m
  <2>1. At(w, 2, 2) = At(v, 2, 2)
    BY <1>6, <1>7 DEF Continues
  <2>2. At(s, 2, 2) = At(w, 2, 2)
    <3>1. 2 + 2 <= Len(w)
      BY <1>1, <1>7
    <3>. QED BY <1>8, <3>1 DEF Continues
  <2>. QED BY <1>6, <2>1, <2>2 DEF Read
<1>12. At(s, 4, m) = data
  <2>1. 4 + m <= Len(w)
    BY <1>1, <1>7
  <2>. QED BY <1>1, <1>7, <1>8, <2>1 DEF Continues
<1>13. 4 + m <= Len(s) /\ 4 <= Len(s) /\ 2 + 2 = 4
  <2>1. Len(c) \in Nat
    OBVIOUS
  <2>. QED BY <1>1, <1>8, <2>1
<1>14. Counted(s, 2, 2) = Got(data, c)
  BY <1>1, <1>8, <1>9, <1>11, <1>12, <1>13, CountedIs
<1>15. ReadOne("field", s) = Got([id |-> id, data |-> data], c)
  BY <1>4, <1>10, <1>14, GotIs
<1>. QED BY <1>1, <1>15 DEF s

LEMMA FieldBack == ElementRead("field")
<1> SUFFICES ASSUME NEW s \in Seq(Byte), ReadOne("field", s).ok
             PROVE  /\ ReadOne("field", s).value \in Element("field")
                    /\ ReadOne("field", s).rest \in Seq(Byte)
                    /\ s = WriteOne("field", ReadOne("field", s).value) \o ReadOne("field", s).rest
  BY DEF ElementRead
<1> DEFINE l == Len(s)
           m == Read(s, 2, 2)
           data == At(s, 4, m)
           rest == Rest(s, 4 + m)
           x == [id |-> Read(s, 0, 2), data |-> data]
<1>1. ReadOne("field", s)
        = IF Counted(s, 2, 2).ok
            THEN Got([id |-> Read(s, 0, 2), data |-> Counted(s, 2, 2).value],
                     Counted(s, 2, 2).rest)
            ELSE Counted(s, 2, 2)
  BY DEF ReadOne, ReadField, Then
<1>2. Counted(s, 2, 2).ok
  BY <1>1
<1>3. 4 <= l /\ l \in Nat
  <2>1. CASE l < 2 + 2
    BY <1>2, <2>1 DEF Counted, Truncated, Fail
  <2>2. CASE ~ (l < 2 + 2)
    BY <2>2
  <2>. QED BY <2>1, <2>2
<1>4. m \in Word /\ U16(m) = At(s, 2, 2) /\ At(s, 0, 2) \o U16(m) = At(s, 0, 4)
  <2>1. 2 \in Nat /\ 4 \in Nat /\ 2 + 2 = 4 /\ 4 <= Len(s)
    BY <1>3
  <2>. QED BY <2>1, WordBack, Zenon
<1>5. Read(s, 0, 2) \in Word /\ U16(Read(s, 0, 2)) = At(s, 0, 2)
  <2>1. 0 \in Nat /\ 2 \in Nat /\ 0 + 2 = 2 /\ 2 <= Len(s)
    BY <1>3
  <2>. QED BY <2>1, WordBack, Zenon
<1>6. m \in Nat /\ m <= MaxU16
  BY <1>4, Limits DEF Word
<1>7. 4 + m <= l /\ Counted(s, 2, 2) = Got(data, rest)
  <2>1. Read(s, 2, 2) = m /\ 2 \in Nat /\ 4 \in Nat /\ 4 = 2 + 2
    OBVIOUS
  <2> HIDE DEF m
  <2>. QED BY <1>2, <1>3, <1>6, <2>1, CountedIs
<1>8. ReadOne("field", s) = Got(x, rest)
  BY <1>1, <1>2, <1>7, GotIs
<1>9. data \in Seq(Byte) /\ Len(data) = m /\ At(s, 0, 4) \o data = At(s, 0, 4 + m)
  <2>1. 4 \in Nat /\ 4 + m \in Nat
    BY <1>6
  <2> HIDE DEF m
  <2>. QED BY <1>6, <1>7, <2>1, Part, PartsMeet
<1>10. rest \in Seq(Byte) /\ At(s, 0, 4 + m) \o rest = s
  <2> DEFINE o == 4 + m
             n == l - o
  <2>1. o \in Nat /\ n \in Nat /\ l = o + n
    BY <1>3, <1>6, <1>7
  <2> HIDE DEF o, n, m
  <2>2. Rest(s, o) \in Seq(Byte) /\ At(s, 0, o) \o Rest(s, o) = s
    BY <2>1, RestIs
  <2>. QED BY <2>2 DEF o
<1>11. x \in Element("field") /\ WriteOne("field", x) = At(s, 0, 4 + m)
  <2>1. x.id = Read(s, 0, 2) /\ x.data = data
    OBVIOUS
  <2>2. x \in Element("field")
    BY <1>5, <1>6, <1>9 DEF Element, Runs
  <2> HIDE DEF x, data, m
  <2>3. WriteOne("field", x) = U16(x.id) \o U16(Len(x.data)) \o x.data
    BY DEF WriteOne, EncodeField
  <2>. QED BY <1>4, <1>5, <1>9, <2>1, <2>2, <2>3
<1> HIDE DEF x, rest, m
<1>12. ReadOne("field", s).value = x /\ ReadOne("field", s).rest = rest
  BY <1>8, GotIs
<1>13. WriteOne("field", x) \o rest = s
  BY <1>10, <1>11
<1>. QED BY <1>10, <1>11, <1>12, <1>13, Zenon

-----------------------------------------------------------------------------
(* The body of a transaction.                                              *)

LEMMA RunsAreSeqs ==
  ASSUME NEW limit
  PROVE  Runs(limit) \subseteq Seq(Byte)
BY DEF Runs

\* A count and as many elements behind it are read as they were written.
LEMMA ListWritten ==
  ASSUME NEW r, ElementWritten(r), NEW xs \in Seq(Element(r)), Len(xs) <= MaxU16
  PROVE  LET w == U16(Len(xs)) \o AllOf(r, xs)
             n == Len(xs)
         IN  /\ w \in Seq(Byte) /\ 2 <= Len(w) /\ Read(w, 0, 2) = n
             /\ SomeOf(r, n, Rest(w, 2), n) = Got(xs, << >>)
             /\ \A c \in Seq(Byte) : SomeOf(r, n, Rest(w \o c, 2), n) = Got(xs, c)
<1> DEFINE n == Len(xs)
           u == U16(n)
           a == AllOf(r, xs)
           w == u \o a
<1>1. n \in Nat /\ n <= MaxU16 /\ n \in Word
  BY Limits DEF Word
<1>2. a \in Seq(Byte)
  BY AllOfTyped
<1>3. u \in Seq(Byte) /\ Len(u) = 2 /\ Read(u, 0, 2) = n
  BY <1>1, WordFirst
<1>4. \A c \in Seq(Byte) : SomeOf(r, n, a \o c, n) = Got(xs, c)
  BY <1>1, ItemsWritten
<1> HIDE DEF n, u, a
<1>5. w \in Seq(Byte) /\ Len(w) = Len(u) + Len(a) /\ Continues(w, u)
  BY <1>2, <1>3, Appended
<1>6. 2 <= Len(w) /\ Read(w, 0, 2) = n
  <2>1. Len(a) \in Nat
    BY <1>2
  <2> HIDE DEF w
  <2>2. At(w, 0, 2) = At(u, 0, 2)
    BY <1>3, <1>5 DEF Continues
  <2>. QED BY <1>3, <1>5, <2>1, <2>2 DEF Read
<1>7. Rest(w, 2) = a
  BY <1>2, <1>3, LeftBehind
<1>8. SomeOf(r, n, Rest(w, 2), n) = Got(xs, << >>)
  <2>1. a \o << >> = a /\ << >> \in Seq(Byte)
    BY <1>2
  <2>2. SomeOf(r, n, a \o << >>, n) = Got(xs, << >>)
    BY <1>4, <2>1
  <2>. QED BY <1>7, <2>1, <2>2
<1>9. ASSUME NEW c \in Seq(Byte)
      PROVE  SomeOf(r, n, Rest(w \o c, 2), n) = Got(xs, c)
  <2> DEFINE b == a \o c
             d == u \o b
  <2>1. (u \o a) \o c = u \o (a \o c)
    BY <1>2, <1>3, Associative
  <2>2. b \in Seq(Byte)
    BY <1>2, ConcatProperties
  <2> HIDE DEF b
  <2>3. Rest(u \o b, 2) = b
    BY <1>3, <2>2, LeftBehind
  <2>4. w \o c = d
    BY <2>1 DEF b
  <2> HIDE DEF d, w
  <2>5. Rest(w \o c, 2) = b
    BY <2>3, <2>4 DEF d
  <2>. QED BY <1>4, <2>5 DEF b
<1> HIDE DEF w
<1>. QED BY <1>5, <1>6, <1>8, <1>9 DEF w, u, a, n

\* A count and elements that were read are what is written there, and with
\* more behind them they are no list.
LEMMA ListRead ==
  ASSUME NEW r, ElementWritten(r), ElementRead(r), NEW s \in Seq(Byte), 2 <= Len(s),
         NEW n \in Nat, n = Read(s, 0, 2),
         SomeOf(r, n, Rest(s, 2), n).ok, SomeOf(r, n, Rest(s, 2), n).rest = << >>
  PROVE  LET xs == SomeOf(r, n, Rest(s, 2), n).value
         IN  /\ xs \in Seq(Element(r)) /\ Len(xs) = n /\ n <= MaxU16
             /\ U16(n) \o AllOf(r, xs) = s
<1> DEFINE t == Rest(s, 2)
           all == SomeOf(r, n, t, n)
           xs == all.value
           a == AllOf(r, xs)
           l == Len(s)
<1>1. n \in Word /\ U16(n) = At(s, 0, 2)
  <2>1. 0 \in Nat /\ 2 \in Nat /\ 0 + 2 = 2
    OBVIOUS
  <2>. QED BY <2>1, WordBack
<1>2. t \in Seq(Byte) /\ At(s, 0, 2) \o t = s
  <2> DEFINE m == l - 2
  <2>1. m \in Nat /\ l = 2 + m
    OBVIOUS
  <2> HIDE DEF m
  <2>. QED BY <2>1, RestIs
<1> HIDE DEF t
<1>3. AreThere(r, t, all, n)
  <2>1. all.ok
    BY DEF t
  <2>. QED BY <1>2, <2>1, ItemsRead
<1>4. all.rest = << >>
  BY DEF t
<1> HIDE DEF all
<1>5. xs \in Seq(Element(r)) /\ Len(xs) = n /\ t = a \o << >>
  BY <1>3, <1>4 DEF AreThere
<1>6. a \in Seq(Byte)
  BY <1>5, AllOfTyped
<1>7. t = a
  <2> HIDE DEF a
  <2>1. a \o << >> = a
    BY <1>6
  <2>. QED BY <1>5, <2>1
<1>8. n <= MaxU16
  BY <1>1, Limits DEF Word
<1>9. U16(n) \o a = s
  BY <1>1, <1>2, <1>7
<1>. QED BY <1>5, <1>8, <1>9 DEF all, t

\* What is read of a list is what is read of one with more behind it.
Listed(r, s) ==
  IF Len(s) < 2 THEN Truncated
  ELSE Whole(SomeOf(r, Read(s, 0, 2), Rest(s, 2), Read(s, 0, 2)))

LEMMA WholeIs ==
  ASSUME NEW g
  PROVE  /\ Whole(g).ok => g.ok /\ g.rest = << >> /\ Whole(g) = Good(g.value)
         /\ g.ok /\ g.rest = << >> => Whole(g) = Good(g.value)
BY DEF Whole, Then, Good, Fail

LEMMA ListedWritten ==
  ASSUME NEW r, ElementWritten(r), NEW xs \in Seq(Element(r)), Len(xs) <= MaxU16
  PROVE  LET w == U16(Len(xs)) \o AllOf(r, xs)
         IN  /\ w \in Seq(Byte) /\ Listed(r, w) = Good(xs)
             /\ \A c \in Seq(Byte) : c # << >> => ~ Listed(r, w \o c).ok
<1> DEFINE w == U16(Len(xs)) \o AllOf(r, xs)
           n == Len(xs)
<1>1. /\ w \in Seq(Byte) /\ 2 <= Len(w) /\ Read(w, 0, 2) = n
      /\ SomeOf(r, n, Rest(w, 2), n) = Got(xs, << >>)
      /\ \A c \in Seq(Byte) : SomeOf(r, n, Rest(w \o c, 2), n) = Got(xs, c)
  BY ListWritten
<1>2. n \in Nat
  OBVIOUS
<1> HIDE DEF w, n
<1>3. Listed(r, w) = Good(xs)
  <2>1. ~ (Len(w) < 2)
    BY <1>1
  <2>2. Listed(r, w) = Whole(Got(xs, << >>))
    BY <1>1, <2>1 DEF Listed
  <2>. QED BY <2>2, WholeIs, GotIs
<1>4. ASSUME NEW c \in Seq(Byte), c # << >>
      PROVE  ~ Listed(r, w \o c).ok
  <2> DEFINE d == w \o c
  <2>1. d \in Seq(Byte) /\ Len(d) = Len(w) + Len(c) /\ Continues(d, w)
    BY <1>1, Appended
  <2>2. SomeOf(r, n, Rest(d, 2), n) = Got(xs, c)
    BY <1>1
  <2> HIDE DEF d
  <2>3. Len(c) \in Nat /\ Len(w) \in Nat
    BY <1>1
  <2>4. ~ (Len(d) < 2) /\ At(d, 0, 2) = At(w, 0, 2)
    BY <1>1, <2>1, <2>3 DEF Continues
  <2>5. Read(d, 0, 2) = n
    BY <1>1, <2>4 DEF Read
  <2>6. Listed(r, d) = Whole(Got(xs, c))
    BY <2>2, <2>4, <2>5 DEF Listed
  <2>7. ~ Whole(Got(xs, c)).ok
    BY <1>4, WholeIs, GotIs
  <2>. QED BY <2>6, <2>7 DEF d
<1>. QED BY <1>1, <1>3, <1>4 DEF w

LEMMA ListedRead ==
  ASSUME NEW r, ElementWritten(r), ElementRead(r), NEW s \in Seq(Byte), Listed(r, s).ok
  PROVE  LET xs == Listed(r, s).value
         IN  /\ xs \in Seq(Element(r)) /\ Len(xs) <= MaxU16 /\ Listed(r, s) = Good(xs)
             /\ U16(Len(xs)) \o AllOf(r, xs) = s
<1> DEFINE n == Read(s, 0, 2)
           all == SomeOf(r, n, Rest(s, 2), n)
           l == Len(s)
<1>1. ~ (l < 2) /\ l \in Nat
  <2>1. ~ Truncated.ok
    BY DEF Truncated, Fail
  <2>. QED BY <2>1 DEF Listed
<1>2. Listed(r, s) = Whole(all)
  BY <1>1 DEF Listed
<1>3. 2 <= l /\ n \in Nat
  <2>1. 0 \in Nat /\ 2 \in Nat /\ 0 + 2 = 2 /\ 2 <= l
    BY <1>1
  <2>2. n \in Word
    BY <2>1, WordBack
  <2>. QED BY <2>1, <2>2, Limits DEF Word
<1>4. all.ok /\ all.rest = << >> /\ Listed(r, s) = Good(all.value)
  <2> HIDE DEF all
  <2>. QED BY <1>2, WholeIs
<1>5. n = Read(s, 0, 2)
  OBVIOUS
<1> HIDE DEF n
<1>6. /\ all.value \in Seq(Element(r)) /\ Len(all.value) = n /\ n <= MaxU16
      /\ U16(n) \o AllOf(r, all.value) = s
  BY <1>3, <1>4, <1>5, ListRead
<1> HIDE DEF all
<1>7. Listed(r, s).value = all.value
  BY <1>4, GoodIs
<1>. QED BY <1>4, <1>6, <1>7

\* A list ends where its count says.
LEMMA ListedEnds ==
  ASSUME NEW r, ElementWritten(r), ElementRead(r), NEW s \in Seq(Byte), NEW n \in Nat,
         n < Len(s), Listed(r, s).ok
  PROVE  ~ Listed(r, First(s, n)).ok
<1> DEFINE t == First(s, n)
           xs == Listed(r, t).value
           w == U16(Len(xs)) \o AllOf(r, xs)
           c == Rest(s, n)
           m == Len(s) - n
<1> SUFFICES ASSUME Listed(r, t).ok
             PROVE  FALSE
  OBVIOUS
<1>1. t \in Seq(Byte)
  BY Shorter
<1>2. t = At(s, 0, n)
  <2>1. 0 + 1 = 1 /\ 0 + n = n
    OBVIOUS
  <2>. QED BY <2>1 DEF First, At
<1>3. m \in Nat /\ m # 0 /\ Len(s) = n + m
  OBVIOUS
<1> HIDE DEF m
<1>4. c \in Seq(Byte) /\ Len(c) = m /\ At(s, 0, n) \o c = s
  BY <1>3, RestIs
<1>5. c # << >>
  BY <1>3, <1>4
<1> HIDE DEF t, c
<1>6. xs \in Seq(Element(r)) /\ Len(xs) <= MaxU16 /\ w = t
  BY <1>1, ListedRead
<1> HIDE DEF xs
<1>7. ~ Listed(r, w \o c).ok
  BY <1>4, <1>5, <1>6, ListedWritten
<1>8. w \o c = s
  BY <1>2, <1>4, <1>6
<1>. QED BY <1>7, <1>8

LEMMA ReadIsNat ==
  ASSUME NEW s \in Seq(Byte), NEW o \in Nat, NEW l \in Nat, o + 2 = l, l <= Len(s)
  PROVE  Read(s, o, 2) \in Nat
BY WordBack, Limits DEF Word

LEMMA FieldsListed ==
  ASSUME NEW s \in Seq(Byte)
  PROVE  Decode("fields", s) = Listed("field", s)
<1> DEFINE n == Read(s, 0, 2)
           t == Rest(s, 2)
<1>1. Decode("fields", s) = IF Len(s) < 2 THEN Truncated ELSE Whole(Items(n, t, ReadField))
  BY DEF Decode, DecodeFieldList
<1>2. CASE Len(s) < 2
  BY <1>1, <1>2 DEF Listed
<1>3. CASE ~ (Len(s) < 2)
  <2>1. n \in Nat
    <3>1. 0 \in Nat /\ 2 \in Nat /\ 0 + 2 = 2 /\ 2 <= Len(s)
      BY <1>3
    <3>. QED BY <3>1, ReadIsNat
  <2>2. Listed("field", s) = Whole(SomeOf("field", n, t, n))
    BY <1>3 DEF Listed
  <2>3. Decode("fields", s) = Whole(Items(n, t, ReadField))
    BY <1>1, <1>3
  <2> HIDE DEF n, t
  <2>4. Items(n, t, ReadField) = SomeOf("field", n, t, n)
    BY <2>1, FieldsAre
  <2>. QED BY <2>2, <2>3, <2>4
<1>. QED BY <1>2, <1>3

LEMMA FieldsEncoded ==
  ASSUME NEW v \in Seq(FieldRecord)
  PROVE  /\ Encode("fields", v).ok <=> v \in Seq(Element("field")) /\ Len(v) <= MaxU16
         /\ Encode("fields", v).ok => Encode("fields", v) = Good(U16(Len(v)) \o AllOf("field", v))
<1> DEFINE w == U16(Len(v)) \o AllOf("field", v)
           large == \E i \in 1..Len(v) : Len(v[i].data) > MaxU16
<1>1. AllOf("field", v) = FlattenSeq([i \in 1..Len(v) |-> EncodeField(v[i])])
  BY DEF AllOf, WriteOne
<1>2. Encode("fields", v) = IF Len(v) > MaxU16 THEN Fail("count_too_large")
                            ELSE IF large THEN Fail("element_too_large")
                            ELSE Good(w)
  BY <1>1 DEF Encode, EncodeFieldList
<1>3. Len(v) \in Nat /\ MaxU16 \in Nat /\ \A i \in 1..Len(v) : v[i] \in FieldRecord
  BY Limits, ElementOfSeq
<1>4. ~ large <=> v \in Seq(Element("field"))
  <2>1. \A x \in FieldRecord : Len(x.data) \in Nat
                               /\ (x \in Element("field") <=> Len(x.data) <= MaxU16)
    BY DEF FieldRecord, Element, Runs
  <2>2. ASSUME ~ large
        PROVE  v \in Seq(Element("field"))
    <3>1. \A i \in 1..Len(v) : v[i] \in Element("field")
      BY <1>3, <2>1, <2>2
    <3>. QED BY <3>1
  <2>3. ASSUME v \in Seq(Element("field")), NEW i \in 1..Len(v)
        PROVE  ~ (Len(v[i].data) > MaxU16)
    <3>1. v[i] \in Element("field")
      BY <2>3, ElementOfSeq
    <3>. QED BY <1>3, <2>1, <3>1
  <2>. QED BY <2>2, <2>3
<1> HIDE DEF w, large
<1>5. ~ Fail("count_too_large").ok /\ ~ Fail("element_too_large").ok
  BY DEF Fail
<1>. QED BY <1>2, <1>3, <1>4, <1>5, GoodIs DEF w

\* The body of a transaction, for any number of fields.
LEMMA FieldsFaithful == Faithful("fields")
<1>1. Written("fields")
  <2> SUFFICES ASSUME NEW v \in Seq(FieldRecord), Encode("fields", v).ok
               PROVE  /\ Encode("fields", v).value \in Seq(Byte)
                      /\ Decode("fields", Encode("fields", v).value) = Good(v)
    BY DEF Written, Holds
  <2> DEFINE w == U16(Len(v)) \o AllOf("field", v)
  <2>1. v \in Seq(Element("field")) /\ Len(v) <= MaxU16 /\ Encode("fields", v) = Good(w)
    BY FieldsEncoded
  <2>2. w \in Seq(Byte) /\ Listed("field", w) = Good(v)
    BY <2>1, FieldElement, ListedWritten
  <2> HIDE DEF w
  <2>. QED BY <2>1, <2>2, FieldsListed, GoodIs
<1>2. Understood("fields")
  <2> SUFFICES ASSUME NEW s \in Seq(Byte), Decode("fields", s).ok
               PROVE  Encode("fields", Decode("fields", s).value) = Good(s)
    BY DEF Understood
  <2> DEFINE v == Listed("field", s).value
  <2>1. /\ v \in Seq(Element("field")) /\ Len(v) <= MaxU16
        /\ U16(Len(v)) \o AllOf("field", v) = s
    BY FieldElement, FieldBack, FieldsListed, ListedRead
  <2>2. Decode("fields", s).value = v
    BY FieldsListed
  <2>3. v \in Seq(FieldRecord)
    <3>1. Element("field") \subseteq FieldRecord
      BY DEF Element, FieldRecord, Runs
    <3> HIDE DEF v
    <3>. QED BY <2>1, <3>1, SeqMonotonic
  <2> HIDE DEF v
  <2>4. Encode("fields", v) = Good(U16(Len(v)) \o AllOf("field", v))
    BY <2>1, <2>3, FieldsEncoded
  <2>. QED BY <2>1, <2>2, <2>4
<1>3. Ended("fields")
  <2> SUFFICES ASSUME NEW s \in Seq(Byte), NEW n \in Nat, n < Len(s), Decode("fields", s).ok
               PROVE  ~ Decode("fields", First(s, n)).ok
    BY DEF Ended
  <2>1. First(s, n) \in Seq(Byte)
    BY Shorter
  <2>. QED BY <2>1, FieldElement, FieldBack, FieldsListed, ListedEnds
<1>. QED BY <1>1, <1>2, <1>3 DEF Faithful

-----------------------------------------------------------------------------
(* Texts behind their length.                                              *)

LEMMA NumberOfOne ==
  ASSUME NEW s \in Seq(Byte), Len(s) = 1
  PROVE  Number(s) = s[1] /\ Number(s) \in Byte /\ Number(s) \in Nat /\ << Number(s) >> = s
<1>1. 1 \in 1..Len(s) /\ s \in Seq(Int)
  BY BytesAreNumbers
<1>2. s[1] \in Byte /\ s[1] \in Nat
  <2>1. s[1] \in Byte
    BY <1>1, ElementOfSeq
  <2>. QED BY <2>1, Limits DEF Byte
<1>3. 0 \in Nat /\ 1 \in Nat /\ 1 = 0 + 1 /\ 1 <= Len(s)
  OBVIOUS
<1>4. Upto(s, 1) = Upto(s, 0) * Base + s[1]
  BY <1>1, <1>3, UptoNext
<1>5. Upto(s, 0) = 0 /\ Number(s) = Upto(s, Len(s))
  BY <1>1, UptoNone, UptoAll
<1>6. 0 * Base = 0
  BY Limits
<1>7. Number(s) = s[1]
  BY <1>2, <1>4, <1>5, <1>6
<1>8. << s[1] >> = s
  OBVIOUS
<1>. QED BY <1>2, <1>7, <1>8

\* A byte of a length, as it was written and as it is read.
LEMMA ByteFirst ==
  ASSUME NEW m \in Nat, m <= MaxU8
  PROVE  << m >> \in Seq(Byte) /\ Len(<< m >>) = 1 /\ Number(<< m >>) = m
<1>1. m \in Byte
  BY Limits DEF Byte
<1> DEFINE u == << m >>
<1>2. u \in Seq(Byte) /\ Len(u) = 1 /\ u[1] = m
  BY <1>1
<1> HIDE DEF u
<1>3. Number(u) = m
  BY <1>2, NumberOfOne
<1>. QED BY <1>2, <1>3 DEF u

LEMMA ByteBack ==
  ASSUME NEW s \in Seq(Byte), NEW o \in Nat, NEW l \in Nat, o + 1 = l, l <= Len(s)
  PROVE  /\ Read(s, o, 1) \in Nat /\ Read(s, o, 1) <= MaxU8
         /\ << Read(s, o, 1) >> = At(s, o, 1)
         /\ At(s, 0, o) \o << Read(s, o, 1) >> = At(s, 0, l)
<1> DEFINE u == At(s, o, 1)
<1>1. u \in Seq(Byte) /\ Len(u) = 1 /\ At(s, 0, o) \o u = At(s, 0, l)
  <2>1. 1 \in Nat /\ o + 1 <= Len(s)
    OBVIOUS
  <2>. QED BY <2>1, Part, PartsMeet
<1> HIDE DEF u
<1>2. Number(u) \in Byte /\ Number(u) \in Nat /\ << Number(u) >> = u
  BY <1>1, NumberOfOne
<1>3. Number(u) <= MaxU8
  BY <1>2, Limits DEF Byte
<1>4. Number(u) = Read(s, o, 1)
  BY DEF Read, u
<1>. QED BY <1>1, <1>2, <1>3, <1>4 DEF u

\* A text behind u is where Counted() looks for it, whatever comes behind.
LEMMA TextBehind ==
  ASSUME NEW u \in Seq(Byte), NEW o \in Nat, Len(u) = o, NEW text \in Runs(MaxU8)
  PROVE  LET w == (u \o << Len(text) >>) \o text
         IN  /\ w \in Seq(Byte) /\ Continues(w, u) /\ o <= Len(w)
             /\ \A c \in Seq(Byte) : Counted(w \o c, o, 1) = Got(text, c)
<1> DEFINE m == Len(text)
           b == << m >>
           v == u \o b
           w == v \o text
<1>1. text \in Seq(Byte) /\ m \in Nat /\ m <= MaxU8 /\ Len(text) = m
  BY DEF Runs
<1>2. b \in Seq(Byte) /\ Len(b) = 1 /\ Number(b) = m
  BY <1>1, ByteFirst
<1> HIDE DEF m, b
<1>3. v \in Seq(Byte) /\ Len(v) = o + 1 /\ At(v, o, 1) = b /\ Continues(v, u)
  <2>1. v \in Seq(Byte) /\ Len(v) = Len(u) + 1 /\ At(v, Len(u), 1) = b /\ Continues(v, u)
    BY <1>2, RunAppended
  <2> HIDE DEF v
  <2>. QED BY <2>1
<1> HIDE DEF v
<1> DEFINE p == o + 1
<1>4. p \in Nat /\ p = o + 1
  OBVIOUS
<1> HIDE DEF p
<1>5. w \in Seq(Byte) /\ Len(w) = p + m /\ At(w, p, m) = text /\ Continues(w, v)
  <2>1. /\ w \in Seq(Byte) /\ Len(w) = Len(v) + Len(text) /\ At(w, Len(v), Len(text)) = text
        /\ Continues(w, v)
    BY <1>1, <1>3, Appended
  <2> HIDE DEF w
  <2>. QED BY <1>1, <1>3, <1>4, <2>1
<1> HIDE DEF w
<1>6. o <= Len(w)
  BY <1>1, <1>4, <1>5
<1>7. Continues(w, u)
  <2> SUFFICES ASSUME NEW i \in Nat, NEW n \in Nat, i + n <= Len(u)
               PROVE  At(w, i, n) = At(u, i, n)
    BY DEF Continues
  <2>1. i + n <= Len(v)
    BY <1>3
  <2>. QED BY <1>3, <1>5, <2>1 DEF Continues
<1>8. ASSUME NEW c \in Seq(Byte)
      PROVE  Counted(w \o c, o, 1) = Got(text, c)
  <2> DEFINE s == w \o c
  <2>1. s \in Seq(Byte) /\ Len(s) = Len(w) + Len(c) /\ Continues(s, w)
    BY <1>5, Appended
  <2>2. Rest(s, p + m) = c
    <3>1. Len(w) = p + m /\ p + m \in Nat
      BY <1>1, <1>4, <1>5
    <3>. QED BY <1>5, <3>1, LeftBehind
  <2> HIDE DEF s
  <2>3. Len(c) \in Nat
    OBVIOUS
  <2>4. p <= Len(s) /\ p + m <= Len(s) /\ o + 1 <= Len(v) /\ o + 1 <= Len(w) /\ p + m <= Len(w)
    BY <1>1, <1>3, <1>4, <1>5, <2>1, <2>3
  <2>5. Read(s, o, 1) = m
    <3>1. At(s, o, 1) = At(w, o, 1) /\ At(w, o, 1) = At(v, o, 1)
      BY <1>5, <2>1, <2>4 DEF Continues
    <3>. QED BY <1>2, <1>3, <3>1 DEF Read
  <2>6. At(s, p, m) = text
    BY <1>1, <1>4, <1>5, <2>1, <2>4 DEF Continues
  <2>7. Counted(s, o, 1) = Got(At(s, p, m), Rest(s, p + m))
    BY <1>1, <1>4, <2>1, <2>4, <2>5, CountedIs
  <2>. QED BY <2>2, <2>6, <2>7 DEF s
<1>. QED BY <1>5, <1>6, <1>7, <1>8 DEF w, v, b, m

\* What Counted() took from behind the first o bytes is a text with its length.
LEMMA TextTaken ==
  ASSUME NEW s \in Seq(Byte), NEW o \in Nat, Counted(s, o, 1).ok
  PROVE  LET one == Counted(s, o, 1)
         IN  /\ one.value \in Runs(MaxU8) /\ one.rest \in Seq(Byte) /\ o <= Len(s)
             /\ one = Got(one.value, one.rest)
             /\ ((At(s, 0, o) \o << Len(one.value) >>) \o one.value) \o one.rest = s
<1> DEFINE l == Len(s)
           m == Read(s, o, 1)
           p == o + 1
           text == At(s, p, m)
           rest == Rest(s, p + m)
           one == Counted(s, o, 1)
<1>1. p <= l /\ l \in Nat /\ p \in Nat
  <2>1. CASE l < o + 1
    BY <2>1 DEF Counted, Truncated, Fail
  <2>2. CASE ~ (l < o + 1)
    BY <2>2
  <2>. QED BY <2>1, <2>2
<1>2. /\ m \in Nat /\ m <= MaxU8 /\ At(s, 0, o) \o << m >> = At(s, 0, p)
  <2>1. o + 1 = p /\ p \in Nat /\ p <= Len(s)
    BY <1>1
  <2> HIDE DEF p
  <2>. QED BY <2>1, ByteBack
<1>3. p + m <= l /\ one = Got(text, rest)
  <2>1. p = o + 1 /\ Read(s, o, 1) = m /\ 1 \in Nat
    OBVIOUS
  <2> HIDE DEF m, p
  <2>. QED BY <1>1, <1>2, <2>1, CountedIs
<1>4. text \in Seq(Byte) /\ Len(text) = m /\ At(s, 0, p) \o text = At(s, 0, p + m)
  <2>1. p + m \in Nat
    BY <1>1, <1>2
  <2> HIDE DEF m, p
  <2>2. text \in Seq(Byte) /\ Len(text) = m
    BY <1>1, <1>2, <1>3, Part
  <2>3. At(s, 0, p) \o At(s, p, m) = At(s, 0, p + m)
    BY <1>1, <1>2, <1>3, <2>1, PartsMeet
  <2>. QED BY <2>2, <2>3
<1>5. rest \in Seq(Byte) /\ At(s, 0, p + m) \o rest = s
  <2> DEFINE q == p + m
             n == l - q
  <2>1. q \in Nat /\ n \in Nat /\ l = q + n
    BY <1>1, <1>2, <1>3
  <2> HIDE DEF q, n, m, p
  <2>2. Rest(s, q) \in Seq(Byte) /\ At(s, 0, q) \o Rest(s, q) = s
    BY <2>1, RestIs
  <2>. QED BY <2>2 DEF q
<1> HIDE DEF one, m
<1>6. one.value = text /\ one.rest = rest
  BY <1>3, GotIs
<1> HIDE DEF text, rest, p
<1>7. text \in Runs(MaxU8)
  BY <1>2, <1>4 DEF Runs
<1>8. ((At(s, 0, o) \o << Len(text) >>) \o text) \o rest = s
  BY <1>2, <1>4, <1>5
<1>9. o <= Len(s)
  BY <1>1 DEF p
<1>. QED BY <1>3, <1>5, <1>6, <1>7, <1>8, <1>9 DEF one

LEMMA TextElement == ElementWritten("text")
<1> SUFFICES ASSUME NEW x \in Element("text")
             PROVE  /\ WriteOne("text", x) \in Seq(Byte)
                    /\ \A c \in Seq(Byte) : ReadOne("text", WriteOne("text", x) \o c) = Got(x, c)
  BY DEF ElementWritten
<1> DEFINE u == << >>
           w == (u \o << Len(x) >>) \o x
<1>1. x \in Runs(MaxU8)
  BY DEF Element
<1>2. u \in Seq(Byte) /\ Len(u) = 0
  OBVIOUS
<1>3. WriteOne("text", x) = w
  BY DEF WriteOne, PString
<1>4. \A s : ReadOne("text", s) = Counted(s, 0, 1)
  BY DEF ReadOne, ReadPString
<1> HIDE DEF u
<1>5. w \in Seq(Byte) /\ \A c \in Seq(Byte) : Counted(w \o c, 0, 1) = Got(x, c)
  <2> DEFINE o == 0
  <2>1. o \in Nat /\ Len(u) = o
    BY <1>2
  <2> HIDE DEF o
  <2>2. w \in Seq(Byte) /\ \A c \in Seq(Byte) : Counted(w \o c, o, 1) = Got(x, c)
    BY <1>1, <1>2, <2>1, TextBehind
  <2>. QED BY <2>2 DEF o
<1> HIDE DEF w
<1>. QED BY <1>3, <1>4, <1>5

LEMMA TextBack == ElementRead("text")
<1> SUFFICES ASSUME NEW s \in Seq(Byte), ReadOne("text", s).ok
             PROVE  /\ ReadOne("text", s).value \in Element("text")
                    /\ ReadOne("text", s).rest \in Seq(Byte)
                    /\ s = WriteOne("text", ReadOne("text", s).value) \o ReadOne("text", s).rest
  BY DEF ElementRead
<1> DEFINE one == Counted(s, 0, 1)
           x == one.value
           u == At(s, 0, 0)
<1>1. ReadOne("text", s) = one
  BY DEF ReadOne, ReadPString
<1>2. /\ x \in Runs(MaxU8) /\ one.rest \in Seq(Byte)
      /\ ((u \o << Len(x) >>) \o x) \o one.rest = s
  <2>1. one.ok /\ 0 \in Nat
    BY <1>1
  <2>. QED BY <2>1, TextTaken
<1> HIDE DEF one
<1>3. u = << >>
  <2>1. 0 \in Nat /\ 0 + 0 <= Len(s)
    OBVIOUS
  <2>2. u \in Seq(Byte) /\ Len(u) = 0
    BY <2>1, Part
  <2> HIDE DEF u
  <2>. QED BY <2>2
<1> HIDE DEF u, x
<1>4. WriteOne("text", x) = (u \o << Len(x) >>) \o x
  BY <1>3 DEF WriteOne, PString
<1>5. WriteOne("text", x) \o one.rest = s
  BY <1>2, <1>4
<1>6. x \in Element("text")
  BY <1>2 DEF Element
<1>. QED BY <1>1, <1>2, <1>5, <1>6, Zenon DEF x

LEMMA ComponentElement == ElementWritten("component")
<1> SUFFICES ASSUME NEW x \in Element("component")
             PROVE  /\ WriteOne("component", x) \in Seq(Byte)
                    /\ \A c \in Seq(Byte) :
                         ReadOne("component", WriteOne("component", x) \o c) = Got(x, c)
  BY DEF ElementWritten
<1> DEFINE script == x.script
           name == x.name
           u == U16(script)
           w == (u \o << Len(name) >>) \o name
<1>1. x = [script |-> script, name |-> name] /\ script \in Word /\ name \in Runs(MaxU8)
  BY DEF Element
<1>2. WriteOne("component", x) = w
  BY DEF WriteOne
<1>3. \A s : ReadOne("component", s)
               = IF Counted(s, 2, 1).ok
                   THEN Got([script |-> Read(s, 0, 2), name |-> Counted(s, 2, 1).value],
                            Counted(s, 2, 1).rest)
                   ELSE Counted(s, 2, 1)
  BY DEF ReadOne, ReadComponent, Then
<1> HIDE DEF script, name
<1>4. u \in Seq(Byte) /\ Len(u) = 2 /\ Read(u, 0, 2) = script
  BY <1>1, WordFirst
<1> HIDE DEF u
<1>5. /\ w \in Seq(Byte) /\ Continues(w, u) /\ 2 <= Len(w)
      /\ \A c \in Seq(Byte) : Counted(w \o c, 2, 1) = Got(name, c)
  <2>1. 2 \in Nat /\ Len(u) = 2 /\ u \in Seq(Byte) /\ name \in Runs(MaxU8)
    BY <1>1, <1>4
  <2>. QED BY <2>1, TextBehind
<1> HIDE DEF w
<1> SUFFICES ASSUME NEW c \in Seq(Byte)
             PROVE  ReadOne("component", w \o c) = Got(x, c)
  BY <1>2, <1>5
<1> DEFINE s == w \o c
<1>6. s \in Seq(Byte) /\ Continues(s, w)
  BY <1>5, Appended
<1>7. Counted(s, 2, 1) = Got(name, c)
  BY <1>5
<1> HIDE DEF s
<1>8. Read(s, 0, 2) = script
  <2>1. At(w, 0, 2) = At(u, 0, 2)
    BY <1>4, <1>5 DEF Continues
  <2>2. At(s, 0, 2) = At(w, 0, 2)
    BY <1>5, <1>6 DEF Continues
  <2>. QED BY <1>4, <2>1, <2>2 DEF Read
<1>9. ReadOne("component", s) = Got([script |-> script, name |-> name], c)
  BY <1>3, <1>7, <1>8, GotIs
<1>. QED BY <1>1, <1>9 DEF s

LEMMA ComponentBack == ElementRead("component")
<1> SUFFICES ASSUME NEW s \in Seq(Byte), ReadOne("component", s).ok
             PROVE  /\ ReadOne("component", s).value \in Element("component")
                    /\ ReadOne("component", s).rest \in Seq(Byte)
                    /\ s = WriteOne("component", ReadOne("component", s).value)
                             \o ReadOne("component", s).rest
  BY DEF ElementRead
<1> DEFINE one == Counted(s, 2, 1)
           name == one.value
           script == Read(s, 0, 2)
           x == [script |-> script, name |-> name]
           u == At(s, 0, 2)
<1>1. ReadOne("component", s) = IF one.ok THEN Got(x, one.rest) ELSE one
  BY DEF ReadOne, ReadComponent, Then
<1>2. one.ok
  BY <1>1
<1>3. /\ name \in Runs(MaxU8) /\ one.rest \in Seq(Byte) /\ 2 <= Len(s)
      /\ ((u \o << Len(name) >>) \o name) \o one.rest = s
  <2>1. 2 \in Nat
    OBVIOUS
  <2>. QED BY <1>2, <2>1, TextTaken
<1> HIDE DEF one
<1>4. script \in Word /\ U16(script) = u
  <2>1. 0 \in Nat /\ 2 \in Nat /\ 0 + 2 = 2
    OBVIOUS
  <2>. QED BY <1>3, <2>1, WordBack
<1> HIDE DEF u, script, name
<1>5. x.script = script /\ x.name = name /\ x \in Element("component")
  BY <1>3, <1>4 DEF Element
<1> HIDE DEF x
<1>6. WriteOne("component", x) = (u \o << Len(name) >>) \o name
  BY <1>4, <1>5 DEF WriteOne
<1>7. WriteOne("component", x) \o one.rest = s
  BY <1>3, <1>6
<1>8. ReadOne("component", s).value = x /\ ReadOne("component", s).rest = one.rest
  BY <1>1, <1>2, GotIs
<1>. QED BY <1>3, <1>5, <1>7, <1>8, Zenon

-----------------------------------------------------------------------------
(* What comes before the elements of a list.                               *)

\* A list behind o other bytes.
LEMMA ListInside ==
  ASSUME NEW r, NEW s \in Seq(Byte), NEW o \in Nat, NEW p \in Nat, p = o + 2, p <= Len(s)
  PROVE  /\ Rest(s, o) \in Seq(Byte) /\ At(s, 0, o) \o Rest(s, o) = s
         /\ Listed(r, Rest(s, o)) = Whole(SomeOf(r, Read(s, o, 2), Rest(s, p), Read(s, o, 2)))
<1> DEFINE l == Len(s)
           n == l - o
           t == Rest(s, o)
           a == At(s, 0, o)
<1>1. n \in Nat /\ l = o + n /\ 2 <= n
  OBVIOUS
<1>2. l \in Nat
  OBVIOUS
<1> HIDE DEF n
<1>3. t = At(s, o, n) /\ t \in Seq(Byte) /\ Len(t) = n /\ a \o t = s
  BY <1>1, RestIs
<1>4. a \in Seq(Byte) /\ Len(a) = o
  <2>1. 0 \in Nat /\ 0 + o <= Len(s)
    BY <1>1
  <2>. QED BY <2>1, Part
<1> HIDE DEF a, t
<1>5. t \in Seq(Byte) /\ Len(t) = n
  BY <1>3
<1>6. At(a \o t, o, 2) = At(t, 0, 2)
  <2>1. 0 \in Nat /\ 2 \in Nat /\ 0 + 2 <= Len(t) /\ o = Len(a) + 0
    BY <1>1, <1>4, <1>5
  <2>. QED BY <1>4, <1>5, <2>1, Shifted
<1>7. Read(t, 0, 2) = Read(s, o, 2)
  BY <1>3, <1>6 DEF Read
<1>8. Rest(t, 2) = Rest(s, p)
  <2> DEFINE m == n - 2
             u == At(s, o, 2)
             v == At(t, 2, m)
  <2>1. m \in Nat /\ n = 2 + m /\ l = p + m /\ 2 \in Nat
    BY <1>1, <1>2
  <2> HIDE DEF m
  <2>2. Rest(t, 2) = At(t, 2, m) /\ Rest(s, p) = At(s, p, m)
    BY <1>3, <2>1, RestIs
  <2>3. At(a \o t, p, m) = At(t, 2, m)
    <3>1. p = Len(a) + 2 /\ 2 + m <= Len(t)
      BY <1>4, <1>5, <2>1
    <3>. QED BY <1>4, <1>5, <2>1, <3>1, Shifted
  <2>4. a \o t = s
    BY <1>3
  <2>. QED BY <2>2, <2>3, <2>4
<1>9. ~ (Len(t) < 2)
  BY <1>1, <1>3
<1>10. Listed(r, t) = Whole(SomeOf(r, Read(s, o, 2), Rest(s, p), Read(s, o, 2)))
  BY <1>7, <1>8, <1>9 DEF Listed
<1>. QED BY <1>3, <1>10 DEF t, a

\* Elements that are not empty are at least as many bytes as they are elements.
LEMMA AllOfLong ==
  ASSUME NEW r, ElementWritten(r), \A x \in Element(r) : Len(WriteOne(r, x)) >= 1,
         NEW xs \in Seq(Element(r))
  PROVE  Len(AllOf(r, xs)) >= Len(xs)
<1> DEFINE K == {m \in Nat : \A ys \in Seq(Element(r)) :
                               Len(ys) = m => Len(AllOf(r, ys)) >= m}
<1>1. 0 \in K
  <2>1. \A ys \in Seq(Element(r)) : Len(AllOf(r, ys)) \in Nat
    BY AllOfTyped
  <2>. QED BY <2>1
<1>2. ASSUME NEW m \in K
      PROVE  m + 1 \in K
  <2> SUFFICES ASSUME NEW ys \in Seq(Element(r)), Len(ys) = m + 1
               PROVE  Len(AllOf(r, ys)) >= m + 1
    OBVIOUS
  <2>1. m \in Nat /\ \A zs \in Seq(Element(r)) : Len(zs) = m => Len(AllOf(r, zs)) >= m
    OBVIOUS
  <2> HIDE DEF K
  <2>2. PICK zs \in Seq(Element(r)), x \in Element(r) : Len(zs) = m /\ ys = Append(zs, x)
    <3>1. \E zs \in Seq(Element(r)), x \in Element(r) : Len(zs) = m /\ Longer(ys, zs, x)
      BY <2>1, LastOf, Zenon
    <3>. QED BY <3>1 DEF Longer
  <2> DEFINE a == AllOf(r, zs)
             b == WriteOne(r, x)
             c == a \o b
  <2>3. a \in Seq(Byte) /\ b \in Seq(Byte) /\ Len(a) >= m /\ Len(b) >= 1
    BY <2>1, <2>2, AllOfTyped DEF ElementWritten
  <2>4. AllOf(r, ys) = c
    BY <2>2, AllOfMore
  <2> HIDE DEF a, b
  <2>5. Len(c) = Len(a) + Len(b) /\ Len(a) \in Nat /\ Len(b) \in Nat
    BY <2>3, ConcatProperties
  <2> HIDE DEF c
  <2>. QED BY <2>1, <2>3, <2>4, <2>5
<1>3. K = Nat
  <2>1. K \in SUBSET Nat
    OBVIOUS
  <2> HIDE DEF K
  <2>. QED BY <1>1, <1>2, <2>1, Induction
<1>4. Len(xs) \in Nat
  OBVIOUS
<1>. QED BY <1>3, <1>4

-----------------------------------------------------------------------------
(* An item of a folder.                                                    *)

ItemFits(s) == 6 <= Len(s) /\ 4 <= Read(s, 0, 2) /\ Len(s) = 2 + Read(s, 0, 2)
ItemOf(s) ==
  [folder |-> Read(s, 2, 2) % 2 = 1, path |-> Listed("component", Rest(s, 4)).value]

LEMMA ItemDecoded ==
  ASSUME NEW s \in Seq(Byte)
  PROVE  /\ Decode("item", s).ok <=> ItemFits(s) /\ Listed("component", Rest(s, 4)).ok
         /\ Decode("item", s).ok => Decode("item", s) = Good(ItemOf(s))
<1> DEFINE size == Read(s, 0, 2)
           l == Len(s)
           path == PathOf(s)
           v == [folder |-> Read(s, 2, 2) % 2 = 1, path |-> path.value]
           d == Decode("item", s)
<1>1. d = IF l < 2 \/ size < 4 THEN Truncated
          ELSE IF Exactly(s, 2 + size).ok THEN (IF path.ok THEN Good(v) ELSE path)
          ELSE Exactly(s, 2 + size)
  BY DEF Decode, DecodeFolderItem, Then
<1>2. ~ Truncated.ok /\ l \in Nat
  BY DEF Truncated, Fail
<1> HIDE DEF d
<1>3. CASE l < 2
  <2>1. ~ d.ok
    BY <1>1, <1>2, <1>3
  <2>. QED BY <1>2, <1>3, <2>1 DEF ItemFits, d
<1>4. CASE ~ (l < 2)
  <2>1. size \in Nat
    <3>1. 0 \in Nat /\ 2 \in Nat /\ 0 + 2 = 2 /\ 2 <= Len(s)
      BY <1>2, <1>4
    <3>. QED BY <3>1, ReadIsNat
  <2> HIDE DEF v, path, size
  <2>2. Exactly(s, 2 + size).ok <=> l = 2 + size
    BY <2>1, ExactlyIs
  <2>3. d.ok <=> ~ (size < 4) /\ l = 2 + size /\ path.ok
    BY <1>1, <1>2, <1>4, <2>2, GoodIs
  <2>4. d.ok => d = Good(v)
    BY <1>1, <1>2, <1>4, <2>2
  <2>5. ASSUME 6 <= l
        PROVE  path = Listed("component", Rest(s, 4))
    <3> DEFINE n == Read(s, 4, 2)
               t == Rest(s, 6)
    <3>1. 4 \in Nat /\ 6 \in Nat /\ 6 = 4 + 2 /\ 4 + 2 = 6 /\ 6 <= Len(s)
      BY <2>5
    <3>2. n \in Nat
      BY <3>1, ReadIsNat, Zenon
    <3>3. path = Whole(Items(n, t, ReadComponent))
      BY DEF path, PathOf, ReadComponents
    <3>4. Listed("component", Rest(s, 4)) = Whole(SomeOf("component", n, t, n))
      BY <3>1, ListInside, ZenonT(40)
    <3> HIDE DEF n, t
    <3>5. Items(n, t, ReadComponent) = SomeOf("component", n, t, n)
      BY <3>2, ComponentsAre
    <3>. QED BY <3>3, <3>4, <3>5
  <2>6. ItemFits(s) <=> ~ (size < 4) /\ l = 2 + size
    BY <1>2, <2>1 DEF ItemFits, size
  <2>7. ItemFits(s) => path = Listed("component", Rest(s, 4)) /\ v = ItemOf(s)
    BY <2>5 DEF ItemFits, ItemOf, v
  <2>. QED BY <2>3, <2>4, <2>6, <2>7 DEF d
<1>. QED BY <1>3, <1>4

LEMMA ItemEncoded ==
  ASSUME NEW v \in FolderItem
  PROVE  LET a    == AllOf("component", v.path)
             size == 4 + Len(a)
             w    == ((U16(size) \o U16(IF v.folder THEN 1 ELSE 0)) \o U16(Len(v.path))) \o a
         IN  /\ Encode("item", v).ok <=> v.path \in Seq(Element("component")) /\ size <= MaxU16
             /\ Encode("item", v).ok => Encode("item", v) = Good(w)
<1> DEFINE path == v.path
           a == AllOf("component", path)
           size == 4 + Len(a)
           w == ((U16(size) \o U16(IF v.folder THEN 1 ELSE 0)) \o U16(Len(path))) \o a
           large == \E i \in 1..Len(path) : Len(path[i].name) > MaxU8
<1>1. a = EncodePath(path)
  BY DEF AllOf, WriteOne, EncodePath
<1>2. Encode("item", v) = IF large THEN Fail("string_too_long")
                          ELSE IF size > MaxU16 THEN Fail("element_too_large")
                          ELSE Good(w)
  BY <1>1 DEF Encode, EncodeFolderItem
<1>3. /\ path \in Seq(PathComponent) /\ Len(path) \in Nat /\ MaxU8 \in Nat /\ MaxU16 \in Nat
      /\ \A i \in 1..Len(path) : path[i] \in PathComponent
  <2>1. path \in Seq(PathComponent)
    BY DEF FolderItem
  <2> HIDE DEF path
  <2>2. \A i \in 1..Len(path) : path[i] \in PathComponent
    BY <2>1, ElementOfSeq
  <2>. QED BY <2>1, <2>2, Limits
<1> HIDE DEF path
<1>4. ~ large <=> path \in Seq(Element("component"))
  <2>1. \A x \in PathComponent :
          Len(x.name) \in Nat /\ (x \in Element("component") <=> Len(x.name) <= MaxU8)
    BY DEF PathComponent, Element, Runs
  <2>2. ASSUME ~ large
        PROVE  path \in Seq(Element("component"))
    <3>1. \A i \in 1..Len(path) : path[i] \in Element("component")
      BY <1>3, <2>1, <2>2
    <3>. QED BY <1>3, <3>1
  <2>3. ASSUME path \in Seq(Element("component")), NEW i \in 1..Len(path)
        PROVE  ~ (Len(path[i].name) > MaxU8)
    <3>1. path[i] \in Element("component")
      BY <2>3, ElementOfSeq
    <3>. QED BY <1>3, <2>1, <3>1
  <2>. QED BY <2>2, <2>3
<1>5. ASSUME path \in Seq(Element("component"))
      PROVE  size \in Nat
  <2>1. a \in Seq(Byte)
    BY <1>5, ComponentElement, AllOfTyped
  <2> HIDE DEF a
  <2>. QED BY <2>1
<1> HIDE DEF w, large, size
<1>6. ~ Fail("string_too_long").ok /\ ~ Fail("element_too_large").ok
  BY DEF Fail
<1>7. Encode("item", v).ok <=> path \in Seq(Element("component")) /\ size <= MaxU16
  BY <1>2, <1>3, <1>4, <1>5, <1>6, GoodIs
<1>8. Encode("item", v).ok => Encode("item", v) = Good(w)
  BY <1>2, <1>6
<1>. QED BY <1>7, <1>8 DEF w, size, a, path

\* A component of a path is not empty.
LEMMA ComponentLong == \A x \in Element("component") : Len(WriteOne("component", x)) >= 1
<1> SUFFICES ASSUME NEW x \in Element("component")
             PROVE  Len(WriteOne("component", x)) >= 1
  OBVIOUS
<1> DEFINE u == U16(x.script)
           b == << Len(x.name) >>
           c == u \o b
<1>1. x.script \in Word /\ x.name \in Seq(Byte) /\ Len(x.name) \in Nat /\ Len(x.name) <= MaxU8
  BY DEF Element, Runs
<1>2. u \in Seq(Byte) /\ b \in Seq(Byte) /\ Len(b) = 1
  BY <1>1, WordFirst, ByteFirst
<1>3. WriteOne("component", x) = c \o x.name
  BY DEF WriteOne
<1> HIDE DEF u, b
<1>4. c \in Seq(Byte) /\ Len(c) = Len(u) + 1 /\ Len(u) \in Nat
  <2>1. c \in Seq(Byte) /\ Len(c) = Len(u) + 1
    BY <1>2, RunAppended, Zenon
  <2>. QED BY <1>2, <2>1
<1> HIDE DEF c
<1>5. Len(c \o x.name) = Len(c) + Len(x.name)
  BY <1>1, <1>4, ConcatProperties
<1>. QED BY <1>1, <1>3, <1>4, <1>5

\* Whether it is a folder is what the lowest bit of its kind says.
LEMMA ItemReturned == Returned("item")
<1> SUFFICES ASSUME NEW v \in FolderItem, Encode("item", v).ok
             PROVE  /\ Encode("item", v).value \in Seq(Byte)
                    /\ Decode("item", Encode("item", v).value) = Good(v)
  <2>1. \A x : Meant("item", x) = x
    BY DEF Meant
  <2>2. Holds("item") = FolderItem
    BY DEF Holds
  <2>. QED BY <2>1, <2>2 DEF Returned
<1> DEFINE path == v.path
           a == AllOf("component", path)
           n == Len(path)
           size == 4 + Len(a)
           f == IF v.folder THEN 1 ELSE 0
           u == U16(size) \o U16(f)
           t == U16(n) \o a
           w == (u \o U16(n)) \o a
<1>1. v = [folder |-> v.folder, path |-> path] /\ v.folder \in BOOLEAN
      /\ path \in Seq(PathComponent)
  BY DEF FolderItem
<1>2. path \in Seq(Element("component")) /\ size <= MaxU16 /\ Encode("item", v) = Good(w)
  BY ItemEncoded
<1>3. f \in Word /\ (f % 2 = 1 <=> v.folder)
  BY <1>1, Limits DEF Word
<1> HIDE DEF path, f
<1>4. a \in Seq(Byte) /\ Len(a) \in Nat /\ Len(a) >= n /\ n \in Nat
  <2>1. a \in Seq(Byte)
    BY <1>2, ComponentElement, AllOfTyped
  <2>2. Len(a) >= n
    BY <1>2, ComponentElement, ComponentLong, AllOfLong
  <2> HIDE DEF a
  <2>. QED BY <1>1, <2>1, <2>2
<1> HIDE DEF a
<1>5. size \in Word /\ n \in Word /\ n <= MaxU16
  BY <1>2, <1>4, Limits DEF Word
<1>6. Listed("component", t) = Good(path)
  BY <1>2, <1>5, ComponentElement, ListedWritten DEF a
<1> HIDE DEF n
<1>7. /\ u \in Seq(Byte) /\ Len(u) = 4 /\ Read(u, 0, 2) = size /\ Read(u, 2, 2) = f
  <2> DEFINE m == size
             b == U16(m)
             c == b \o U16(f)
  <2> HIDE DEF m
  <2>1. b \in Seq(Byte) /\ Len(b) = 2 /\ Read(b, 0, 2) = m
    BY <1>5, WordFirst DEF m
  <2> HIDE DEF b
  <2>2. c \in Seq(Byte) /\ Len(c) = Len(b) + 2 /\ Read(c, Len(b), 2) = f /\ Continues(c, b)
    BY <1>3, <2>1, WordAppended
  <2> HIDE DEF c
  <2>3. Read(c, 0, 2) = m
    BY <2>1, <2>2 DEF Read, Continues
  <2>4. c \in Seq(Byte) /\ Len(c) = 4 /\ Read(c, 0, 2) = m /\ Read(c, 2, 2) = f
    BY <2>1, <2>2, <2>3
  <2>. QED BY <2>4 DEF c, b, m
<1> HIDE DEF u
<1>8. t \in Seq(Byte) /\ Len(t) = 2 + Len(a)
  <2> DEFINE b == U16(n)
  <2>1. b \in Seq(Byte) /\ Len(b) = 2
    BY <1>5, WordFirst
  <2> HIDE DEF b
  <2>2. b \o a \in Seq(Byte) /\ Len(b \o a) = Len(b) + Len(a)
    BY <1>4, <2>1, Appended
  <2>. QED BY <2>1, <2>2 DEF b
<1>9. u \o t = w
  BY <1>4, <1>5, <1>7, WordFirst, Associative
<1> HIDE DEF t, w
<1>10. w \in Seq(Byte) /\ Len(w) = 6 + Len(a) /\ At(w, 4, Len(t)) = t /\ Continues(w, u)
  <2> DEFINE x == u \o t
  <2>1. u \in Seq(Byte) /\ t \in Seq(Byte)
    BY <1>7, <1>8
  <2>2. /\ x \in Seq(Byte) /\ Len(x) = Len(u) + Len(t)
        /\ At(x, Len(u), Len(t)) = t /\ Continues(x, u)
    BY <2>1, Appended
  <2>3. x = w
    BY <1>9
  <2> HIDE DEF x
  <2>. QED BY <1>4, <1>7, <1>8, <2>2, <2>3
<1>11. Read(w, 0, 2) = size /\ Read(w, 2, 2) = f
  BY <1>7, <1>10 DEF Read, Continues
<1>12. Rest(w, 4) = t
  <2> DEFINE m == Len(t)
  <2>1. m \in Nat /\ Len(w) = 4 + m /\ 4 \in Nat
    BY <1>4, <1>8, <1>10
  <2> HIDE DEF m
  <2>2. Rest(w, 4) = At(w, 4, m)
    BY <1>10, <2>1, RestIs
  <2>. QED BY <1>10, <2>2 DEF m
<1>13. ItemFits(w)
  BY <1>4, <1>10, <1>11 DEF ItemFits
<1>14. ItemOf(w) = v
  BY <1>1, <1>3, <1>6, <1>11, <1>12, GoodIs DEF ItemOf
<1>15. Decode("item", w) = Good(v)
  BY <1>6, <1>10, <1>12, <1>13, <1>14, ItemDecoded, GoodIs
<1>. QED BY <1>2, <1>10, <1>15, GoodIs

LEMMA ItemEnds == Ended("item")
<1> SUFFICES ASSUME NEW s \in Seq(Byte), NEW n \in Nat, n < Len(s),
                    Decode("item", s).ok, Decode("item", First(s, n)).ok
             PROVE  FALSE
  BY DEF Ended
<1> DEFINE u == First(s, n)
<1>1. u \in Seq(Byte) /\ Len(u) = n /\ Continues(s, u)
  BY Shorter
<1>2. ItemFits(s) /\ ItemFits(u)
  BY <1>1, ItemDecoded
<1> HIDE DEF u
<1>3. Read(s, 0, 2) = Read(u, 0, 2)
  BY <1>1, <1>2 DEF ItemFits, Continues, Read
<1>. QED BY <1>1, <1>2, <1>3 DEF ItemFits

\* Where the parts behind one another are.
LEMMA PartsOf ==
  ASSUME NEW h \in Seq(Byte), NEW k \in Seq(Byte), NEW a \in Seq(Byte), Len(h) = 4, Len(k) = 2
  PROVE  LET w == h \o (k \o a)
         IN  Len(w) = 6 + Len(a) /\ At(w, 4, 2) = k /\ At(w, 6, Len(a)) = a
<1> DEFINE z == h \o k
           w == z \o a
<1>1. h \o (k \o a) = w
  BY Associative
<1>2. z \in Seq(Byte) /\ Len(z) = 6 /\ At(z, 4, 2) = k
  <2>1. z \in Seq(Byte) /\ Len(z) = Len(h) + Len(k) /\ At(z, Len(h), Len(k)) = k
    BY Appended
  <2> HIDE DEF z
  <2>. QED BY <2>1
<1> HIDE DEF z
<1>3. w \in Seq(Byte) /\ Len(w) = Len(z) + Len(a) /\ At(w, Len(z), Len(a)) = a /\ Continues(w, z)
  BY <1>2, Appended
<1> HIDE DEF w
<1>4. At(w, 4, 2) = k
  BY <1>2, <1>3 DEF Continues
<1>. QED BY <1>1, <1>2, <1>3, <1>4

\* The kind of an item is made again of its lowest bit, all else of what
\* was read of it.
LEMMA ItemReproduced == Reproduced("item")
<1> SUFFICES ASSUME NEW s \in Seq(Byte), Decode("item", s).ok
             PROVE  LET again == Encode("item", Decode("item", s).value)
                    IN  /\ again.ok
                        /\ Len(again.value) = Len(s)
                        /\ {i \in 1..Len(s) : again.value[i] # s[i]}
                             \subseteq Ignored("item", Decode("item", s).value)
  BY Zenon DEF Reproduced
<1> DEFINE v == ItemOf(s)
           path == v.path
           a == AllOf("component", path)
           size == 4 + Len(a)
           S == Span(2, 2)
           u1 == U16(size)
           f == IF v.folder THEN 1 ELSE 0
           u2 == u1 \o U16(f)
           u3 == u2 \o U16(Len(path))
           u4 == u3 \o a
           l == Len(a)
<1>1. Decode("item", s).value = v /\ ItemFits(s) /\ Listed("component", Rest(s, 4)).ok
  BY ItemDecoded, GoodIs
<1>2. 6 <= Len(s) /\ 4 <= Len(s) /\ 2 <= Len(s) /\ Len(s) = 2 + Read(s, 0, 2)
  BY <1>1 DEF ItemFits
<1>3. path = Listed("component", Rest(s, 4)).value /\ v.folder \in BOOLEAN
      /\ v = [folder |-> v.folder, path |-> path]
  BY DEF ItemOf
<1>4. Rest(s, 4) \in Seq(Byte) /\ At(s, 0, 4) \o Rest(s, 4) = s
  BY <1>2, ListInside, Offsets, Zenon
<1> HIDE DEF v
<1>5. /\ path \in Seq(Element("component")) /\ Len(path) <= MaxU16
      /\ U16(Len(path)) \o a = Rest(s, 4)
  BY <1>1, <1>3, <1>4, ComponentElement, ComponentBack, ListedRead
<1>6. a \in Seq(Byte) /\ l \in Nat
  BY <1>5, ComponentElement, AllOfTyped
<1> HIDE DEF path
<1>7. Len(path) \in Word
  BY <1>5, Limits DEF Word
<1>8. v \in FolderItem
  <2>1. Element("component") \subseteq PathComponent
    BY DEF Element, PathComponent, Runs
  <2>2. path \in Seq(PathComponent)
    BY <1>5, <2>1, SeqMonotonic
  <2>. QED BY <1>3, <2>2 DEF FolderItem
<1> HIDE DEF a
<1> DEFINE n == Len(path)
           k == U16(n)
           t == Rest(s, 4)
<1>9. k \in Seq(Byte) /\ Len(k) = 2
  BY <1>7, WordFirst
<1> HIDE DEF k, n
<1>10. Len(s) = 6 + l /\ k = At(s, 4, 2) /\ a = At(s, 6, l)
  <2> DEFINE h == At(s, 0, 4)
             x == h \o (k \o a)
  <2>1. h \in Seq(Byte) /\ Len(h) = 4
    <3>1. 0 \in Nat /\ 4 \in Nat /\ 0 + 4 <= Len(s)
      BY <1>2
    <3>. QED BY <3>1, Part
  <2>2. x = s
    BY <1>4, <1>5 DEF k, n, t
  <2> HIDE DEF h
  <2>3. Len(x) = 6 + l /\ At(x, 4, 2) = k /\ At(x, 6, l) = a
    BY <1>6, <1>9, <2>1, PartsOf
  <2> HIDE DEF x
  <2>. QED BY <2>2, <2>3
<1> HIDE DEF t
<1>11. size = Read(s, 0, 2) /\ Read(s, 0, 2) \in Word /\ U16(Read(s, 0, 2)) = At(s, 0, 2)
  <2>1. Read(s, 0, 2) \in Word /\ U16(Read(s, 0, 2)) = At(s, 0, 2)
    BY <1>2, WordBack, Offsets, Zenon
  <2>2. Read(s, 0, 2) \in Nat
    BY <2>1, Limits DEF Word
  <2>. QED BY <1>2, <1>6, <1>10, <2>1, <2>2
<1>12. Encode("item", v) = Good(u4)
  <2>1. size <= MaxU16
    BY <1>11, Limits DEF Word
  <2>2. Encode("item", v).ok
    BY <1>5, <1>8, <2>1, ItemEncoded DEF a, path
  <2>. QED BY <1>8, <2>2, ItemEncoded DEF a, path
<1>13. Ignored("item", v) = S
  BY DEF Ignored
<1>14. u1 = At(s, 0, 2)
  BY <1>11
<1>15. f \in Word
  BY Limits DEF Word
<1>16. u3 = u2 \o k
  BY DEF k, n
<1> HIDE DEF S, f, l
<1>17. Agrees(u1, s, S, 2)
  BY <1>2, <1>14, BeginsWith, Offsets, Zenon
<1> HIDE DEF u1
<1>18. Agrees(u2, s, S, 4)
  <2>1. U16(f) \in Seq(Byte) /\ Len(U16(f)) = 2
    BY <1>15, WordFirst
  <2>2. 2 + 2 <= Len(s) /\ Span(2, 2) \subseteq S
    BY <1>2 DEF S
  <2>3. Comes(U16(f), s, S, 2, 2)
    BY <2>1, <2>2, Offsets, Zenon DEF Comes
  <2>. QED BY <1>17, <2>3, AgreesOn, Offsets, Zenon
<1> HIDE DEF u2
<1>19. Agrees(u3, s, S, 6)
  <2>1. 4 + 2 <= Len(s)
    BY <1>2
  <2>2. Comes(k, s, S, 4, 2)
    BY <1>10, <2>1, CopyComes, Offsets, Zenon
  <2>3. Agrees(u2 \o k, s, S, 6)
    BY <1>18, <2>2, AgreesOn, Offsets, Zenon
  <2>. QED BY <2>3 DEF k, n
<1> HIDE DEF u3
<1>20. Agrees(u4, s, S, Len(s))
  <2>1. 6 + l <= Len(s) /\ 6 + l = Len(s) /\ l \in Nat
    BY <1>6, <1>10 DEF l
  <2>2. Comes(a, s, S, 6, l)
    BY <1>10, <2>1, CopyComes, Offsets, Zenon
  <2>. QED BY <1>19, <2>1, <2>2, AgreesOn, Zenon
<1> HIDE DEF u4
<1>21. Len(u4) = Len(s) /\ {i \in 1..Len(s) : u4[i] # s[i]} \subseteq S
  BY <1>20 DEF Agrees
<1>22. Encode("item", v).ok /\ Encode("item", v).value = u4
  BY <1>12, GoodIs
<1>. QED BY <1>1, <1>13, <1>21, <1>22, Zenon

-----------------------------------------------------------------------------
(* Servers: what an entry of a list has before its two texts.              *)

ServerHead(x) == ((x.address \o U16(x.port)) \o U16(x.user_count)) \o U16(x.flags)
ServerOf(s, texts) ==
  [address |-> First(s, 4), port |-> Read(s, 4, 2), user_count |-> Read(s, 6, 2),
   flags |-> Read(s, 8, 2), texts |-> texts]
HeadTyped(x) ==
  /\ x.address \in Seq(Byte) /\ Len(x.address) = 4
  /\ x.port \in Word /\ x.user_count \in Word /\ x.flags \in Word

LEMMA HeadWritten ==
  ASSUME NEW x, HeadTyped(x), NEW u, u = ServerHead(x)
  PROVE  /\ u \in Seq(Byte) /\ Len(u) = 10 /\ At(u, 0, 4) = x.address
         /\ Read(u, 4, 2) = x.port /\ Read(u, 6, 2) = x.user_count /\ Read(u, 8, 2) = x.flags
<1> DEFINE u1 == x.address
           u2 == u1 \o U16(x.port)
           u3 == u2 \o U16(x.user_count)
           u4 == u3 \o U16(x.flags)
<1>1. u1 \in Seq(Byte) /\ Len(u1) = 4 /\ x.port \in Word /\ x.user_count \in Word
      /\ x.flags \in Word
  BY DEF HeadTyped
<1>2. u4 = u
  BY DEF ServerHead
<1> HIDE DEF u1
<1>3. u2 \in Seq(Byte) /\ Len(u2) = Len(u1) + 2 /\ Read(u2, Len(u1), 2) = x.port
      /\ Continues(u2, u1)
  BY <1>1, WordAppended, Zenon
<1> HIDE DEF u2
<1>4. /\ u3 \in Seq(Byte) /\ Len(u3) = Len(u2) + 2 /\ Read(u3, Len(u2), 2) = x.user_count
      /\ Continues(u3, u2)
  BY <1>1, <1>3, WordAppended, Zenon
<1> HIDE DEF u3
<1>5. u4 \in Seq(Byte) /\ Len(u4) = Len(u3) + 2 /\ Read(u4, Len(u3), 2) = x.flags
      /\ Continues(u4, u3)
  BY <1>1, <1>4, WordAppended, Zenon
<1> HIDE DEF u4
<1>6. Len(u2) = 6 /\ Len(u3) = 8 /\ Len(u4) = 10
  BY <1>1, <1>3, <1>4, <1>5
<1>7. At(u1, 0, 4) = u1
  BY <1>1, AllOfIt
<1>8. At(u2, 0, 4) = u1 /\ Read(u2, 4, 2) = x.port
  BY <1>1, <1>3, <1>7 DEF Continues
<1>9. At(u3, 0, 4) = u1 /\ Read(u3, 4, 2) = x.port /\ Read(u3, 6, 2) = x.user_count
  BY <1>4, <1>6, <1>8 DEF Continues, Read
<1>10. /\ At(u4, 0, 4) = u1 /\ Read(u4, 4, 2) = x.port /\ Read(u4, 6, 2) = x.user_count
       /\ Read(u4, 8, 2) = x.flags
  BY <1>5, <1>6, <1>9 DEF Continues, Read
<1>. QED BY <1>2, <1>5, <1>6, <1>10 DEF u1

LEMMA HeadBack ==
  ASSUME NEW s \in Seq(Byte), 10 <= Len(s), NEW texts
  PROVE  HeadTyped(ServerOf(s, texts)) /\ ServerHead(ServerOf(s, texts)) = At(s, 0, 10)
<1> DEFINE x == ServerOf(s, texts)
           a == Read(s, 4, 2)
           b == Read(s, 6, 2)
           c == Read(s, 8, 2)
           d == At(s, 0, 4)
<1>1. 4 <= Len(s) /\ 6 <= Len(s) /\ 8 <= Len(s) /\ 0 + 4 <= Len(s)
  OBVIOUS
<1>2. First(s, 4) = d
  BY Offsets DEF First, At
<1>3. x.address = d /\ x.port = a /\ x.user_count = b /\ x.flags = c
  BY <1>2 DEF ServerOf
<1>4. d \in Seq(Byte) /\ Len(d) = 4
  BY <1>1, Part, Offsets, Zenon
<1>5. /\ a \in Word /\ b \in Word /\ c \in Word
      /\ d \o U16(a) = At(s, 0, 6)
      /\ At(s, 0, 6) \o U16(b) = At(s, 0, 8)
      /\ At(s, 0, 8) \o U16(c) = At(s, 0, 10)
  BY <1>1, WordBack, Offsets, Zenon
<1> HIDE DEF a, b, c, d, x
<1>6. HeadTyped(x)
  BY <1>3, <1>4, <1>5 DEF HeadTyped
<1>7. ServerHead(x) = At(s, 0, 10)
  BY <1>3, <1>5 DEF ServerHead
<1>. QED BY <1>6, <1>7 DEF x

\* The texts of an entry, one behind the other.
LEMMA AllOfTwo ==
  ASSUME NEW ys \in Seq(Element("text")), Len(ys) = 2
  PROVE  AllOf("text", ys) = PString(ys[1]) \o PString(ys[2])
<1> DEFINE y1 == ys[1]
           y2 == ys[2]
<1>1. y1 \in Element("text") /\ y2 \in Element("text") /\ << >> \in Seq(Element("text"))
  <2>1. 1 \in 1..Len(ys) /\ 2 \in 1..Len(ys)
    OBVIOUS
  <2>. QED BY <2>1, ElementOfSeq
<1>2. Append(Append(<< >>, y1), y2) = ys
  OBVIOUS
<1> HIDE DEF y1, y2
<1>3. Append(<< >>, y1) \in Seq(Element("text"))
  BY <1>1
<1>4. PString(y1) \in Seq(Byte) /\ WriteOne("text", y1) = PString(y1)
      /\ WriteOne("text", y2) = PString(y2)
  BY <1>1, TextElement DEF ElementWritten, WriteOne
<1>5. AllOf("text", Append(<< >>, y1)) = AllOf("text", << >>) \o PString(y1)
  BY <1>1, <1>4, TextElement, AllOfMore
<1>6. AllOf("text", Append(Append(<< >>, y1), y2)) = AllOf("text", Append(<< >>, y1)) \o PString(y2)
  BY <1>1, <1>3, <1>4, TextElement, AllOfMore
<1>7. << >> \o PString(y1) = PString(y1)
  BY <1>4
<1>8. AllOf("text", << >>) = << >>
  BY AllOfNone
<1>. QED BY <1>2, <1>5, <1>6, <1>7, <1>8 DEF y1, y2

\* An entry is its head and its texts, and is read so.
LEMMA ServerRead ==
  ASSUME NEW s
  PROVE  LET texts == SomeOf("text", 2, Rest(s, 10), 2)
         IN  ReadOne("server", s) = IF Len(s) < 12 THEN Truncated
                                    ELSE IF texts.ok
                                         THEN Got(ServerOf(s, texts.value), texts.rest)
                                         ELSE texts
<1> DEFINE t == Rest(s, 10)
           texts == Items(2, t, ReadPString)
           x == ServerOf(s, texts.value)
<1>1. ReadOne("server", s) = IF Len(s) < 12 THEN Truncated
                             ELSE IF texts.ok THEN Got(x, texts.rest) ELSE texts
  BY DEF ReadOne, ReadEntry, Then, ServerOf
<1>2. texts = SomeOf("text", 2, t, 2)
  <2> DEFINE n == 2
  <2>1. n \in Nat
    OBVIOUS
  <2> HIDE DEF n, t
  <2>2. Items(n, t, ReadPString) = SomeOf("text", n, t, n)
    BY <2>1, TextsAre
  <2>. QED BY <2>2 DEF n
<1>. QED BY <1>1, <1>2

LEMMA ServerTyped ==
  ASSUME NEW x \in Element("server")
  PROVE  /\ HeadTyped(x) /\ x.texts \in Seq(Element("text")) /\ Len(x.texts) = 2
         /\ x = [address |-> x.address, port |-> x.port, user_count |-> x.user_count,
                 flags |-> x.flags, texts |-> x.texts]
         /\ WriteOne("server", x) = ServerHead(x) \o AllOf("text", x.texts)
<1>1. /\ x \in [address : {d \in Seq(Byte) : Len(d) = 4}, port : Word, user_count : Word,
                flags : Word, texts : {t \in Seq(Runs(MaxU8)) : Len(t) = 2}]
      /\ Element("text") = Runs(MaxU8)
  BY DEF Element
<1>2. HeadTyped(x)
  BY <1>1 DEF HeadTyped
<1>3. x.texts \in Seq(Element("text")) /\ Len(x.texts) = 2
  BY <1>1
<1>4. x = [address |-> x.address, port |-> x.port, user_count |-> x.user_count,
           flags |-> x.flags, texts |-> x.texts]
  BY <1>1
<1>5. WriteOne("server", x) = ServerHead(x) \o AllOf("text", x.texts)
  <2> DEFINE texts == x.texts
             u == ServerHead(x)
             b == PString(texts[1])
             c == PString(texts[2])
  <2>1. WriteOne("server", x) = (u \o b) \o c
    BY DEF WriteOne, EncodeEntry, ServerHead
  <2>2. AllOf("text", texts) = b \o c
    BY <1>3, AllOfTwo
  <2>3. b \in Seq(Byte) /\ c \in Seq(Byte)
    <3>1. texts[1] \in Element("text") /\ texts[2] \in Element("text")
      <4>1. 1 \in 1..Len(texts) /\ 2 \in 1..Len(texts)
        BY <1>3
      <4>. QED BY <1>3, <4>1, ElementOfSeq
    <3> HIDE DEF texts
    <3>. QED BY <3>1, TextElement DEF ElementWritten, WriteOne
  <2>4. u \in Seq(Byte)
    BY <1>2, HeadWritten
  <2> HIDE DEF u, b, c, texts
  <2>5. u \o (b \o c) = (u \o b) \o c
    BY <2>3, <2>4, Associative
  <2>. QED BY <2>1, <2>2, <2>5 DEF u, texts
<1>. QED BY <1>2, <1>3, <1>4, <1>5

LEMMA TextLong == \A x \in Element("text") : Len(WriteOne("text", x)) >= 1
<1> SUFFICES ASSUME NEW x \in Element("text")
             PROVE  Len(WriteOne("text", x)) >= 1
  OBVIOUS
<1> DEFINE b == << Len(x) >>
<1>1. x \in Seq(Byte) /\ Len(x) \in Nat /\ Len(x) <= MaxU8
  BY DEF Element, Runs
<1>2. b \in Seq(Byte) /\ Len(b) = 1
  BY <1>1, ByteFirst
<1>3. WriteOne("text", x) = b \o x
  BY DEF WriteOne, PString
<1> HIDE DEF b
<1>4. Len(b \o x) = Len(b) + Len(x)
  BY <1>1, <1>2, ConcatProperties
<1>. QED BY <1>1, <1>2, <1>3, <1>4

LEMMA ServerElement == ElementWritten("server")
<1> SUFFICES ASSUME NEW x \in Element("server")
             PROVE  /\ WriteOne("server", x) \in Seq(Byte)
                    /\ \A c \in Seq(Byte) :
                         ReadOne("server", WriteOne("server", x) \o c) = Got(x, c)
  BY DEF ElementWritten
<1> DEFINE texts == x.texts
           u == ServerHead(x)
           a == AllOf("text", texts)
           w == u \o a
<1>1. /\ HeadTyped(x) /\ texts \in Seq(Element("text")) /\ Len(texts) = 2
      /\ x = [address |-> x.address, port |-> x.port, user_count |-> x.user_count,
              flags |-> x.flags, texts |-> texts]
      /\ WriteOne("server", x) = w
  BY ServerTyped
<1>2. /\ u \in Seq(Byte) /\ Len(u) = 10 /\ At(u, 0, 4) = x.address
      /\ Read(u, 4, 2) = x.port /\ Read(u, 6, 2) = x.user_count /\ Read(u, 8, 2) = x.flags
  BY <1>1, HeadWritten
<1> HIDE DEF texts
<1>3. a \in Seq(Byte) /\ Len(a) >= 2
      /\ \A c \in Seq(Byte) : SomeOf("text", 2, a \o c, 2) = Got(texts, c)
  <2>1. a \in Seq(Byte)
    BY <1>1, TextElement, AllOfTyped
  <2>2. Len(a) >= 2
    BY <1>1, TextElement, TextLong, AllOfLong
  <2>3. \A c \in Seq(Byte) : SomeOf("text", 2, a \o c, 2) = Got(texts, c)
    <3> DEFINE n == 2
    <3>1. n \in Nat /\ Len(texts) = n
      BY <1>1
    <3> HIDE DEF n
    <3>2. \A c \in Seq(Byte) : SomeOf("text", n, a \o c, n) = Got(texts, c)
      BY <1>1, <3>1, TextElement, ItemsWritten
    <3>. QED BY <3>2 DEF n
  <2>. QED BY <2>1, <2>2, <2>3
<1> HIDE DEF u, a
<1>4. w \in Seq(Byte)
  BY <1>2, <1>3, Appended
<1> SUFFICES ASSUME NEW c \in Seq(Byte)
             PROVE  ReadOne("server", w \o c) = Got(x, c)
  BY <1>1, <1>4
<1> DEFINE t == a \o c
           s == u \o t
<1>5. t \in Seq(Byte) /\ Len(t) = Len(a) + Len(c)
  BY <1>3, ConcatProperties
<1>6. SomeOf("text", 2, t, 2) = Got(texts, c)
  BY <1>3
<1>7. s = w \o c
  BY <1>2, <1>3, Associative
<1> HIDE DEF t, w
<1>8. s \in Seq(Byte) /\ Len(s) = Len(u) + Len(t) /\ Continues(s, u)
  BY <1>2, <1>5, Appended
<1>9. Rest(s, 10) = t
  <2> DEFINE o == 10
  <2>1. o \in Nat /\ o = Len(u)
    BY <1>2
  <2> HIDE DEF o
  <2>2. Rest(s, o) = t
    BY <1>2, <1>5, <2>1, LeftBehind
  <2>. QED BY <2>2 DEF o
<1> HIDE DEF s
<1>10. ~ (Len(s) < 12)
  BY <1>2, <1>3, <1>5, <1>8
<1>11. ServerOf(s, texts) = x
  <2>1. First(s, 4) = At(s, 0, 4)
    BY Offsets DEF First, At
  <2>2. /\ At(s, 0, 4) = x.address /\ Read(s, 4, 2) = x.port /\ Read(s, 6, 2) = x.user_count
        /\ Read(s, 8, 2) = x.flags
    BY <1>2, <1>8 DEF Continues, Read
  <2>. QED BY <1>1, <2>1, <2>2 DEF ServerOf
<1>12. ReadOne("server", s) = Got(x, c)
  BY <1>6, <1>9, <1>10, <1>11, ServerRead, GotIs
<1>. QED BY <1>7, <1>12

LEMMA ServerBack == ElementRead("server")
<1> SUFFICES ASSUME NEW s \in Seq(Byte), ReadOne("server", s).ok
             PROVE  /\ ReadOne("server", s).value \in Element("server")
                    /\ ReadOne("server", s).rest \in Seq(Byte)
                    /\ s = WriteOne("server", ReadOne("server", s).value)
                             \o ReadOne("server", s).rest
  BY DEF ElementRead
<1> DEFINE t == Rest(s, 10)
           all == SomeOf("text", 2, t, 2)
           texts == all.value
           c == all.rest
           x == ServerOf(s, texts)
           l == Len(s)
           u == At(s, 0, 10)
<1>1. ~ Truncated.ok /\ l \in Nat
  BY DEF Truncated, Fail
<1>2. ReadOne("server", s) = IF l < 12 THEN Truncated
                             ELSE IF all.ok THEN Got(x, c) ELSE all
  BY ServerRead
<1> HIDE DEF all, x
<1>3. 12 <= l /\ all.ok /\ ReadOne("server", s) = Got(x, c)
  BY <1>1, <1>2
<1>4. t \in Seq(Byte) /\ u \in Seq(Byte) /\ u \o t = s
  <2> DEFINE o == 10
             m == l - o
  <2>1. o \in Nat /\ m \in Nat /\ l = o + m /\ 0 \in Nat /\ 0 + o <= Len(s)
    BY <1>3
  <2> HIDE DEF m, o
  <2>2. Rest(s, o) \in Seq(Byte) /\ At(s, 0, o) \o Rest(s, o) = s /\ At(s, 0, o) \in Seq(Byte)
    BY <2>1, RestIs, Part
  <2>. QED BY <2>2 DEF o
<1> HIDE DEF t
<1>5. AreThere("text", t, all, 2)
  <2> DEFINE n == 2
  <2>1. n \in Nat /\ SomeOf("text", n, t, n).ok
    BY <1>3 DEF all
  <2> HIDE DEF n
  <2>2. AreThere("text", t, SomeOf("text", n, t, n), n)
    BY <1>4, <2>1, TextElement, TextBack, ItemsRead
  <2>. QED BY <2>2 DEF n, all
<1> DEFINE a == AllOf("text", texts)
<1>6. texts \in Seq(Element("text")) /\ Len(texts) = 2 /\ c \in Seq(Byte) /\ a \o c = t
  BY <1>5 DEF AreThere
<1>7. a \in Seq(Byte)
  BY <1>6, TextElement, AllOfTyped
<1>8. HeadTyped(x) /\ ServerHead(x) = u
  <2>1. 10 <= Len(s)
    BY <1>3
  <2>. QED BY <2>1, HeadBack DEF x
<1> HIDE DEF a, c, u
<1>9. x.texts = texts /\ x \in Element("server")
  <2>1. /\ x.texts = texts
        /\ x = [address |-> x.address, port |-> x.port, user_count |-> x.user_count,
                flags |-> x.flags, texts |-> x.texts]
    BY DEF x, ServerOf
  <2>2. Element("text") = Runs(MaxU8)
    BY DEF Element
  <2> HIDE DEF texts
  <2>. QED BY <1>6, <1>8, <2>1, <2>2 DEF Element, HeadTyped
<1>10. WriteOne("server", x) = u \o a
  BY <1>8, <1>9, ServerTyped DEF a
<1>11. (u \o a) \o c = s
  <2>1. u \in Seq(Byte) /\ a \in Seq(Byte) /\ c \in Seq(Byte)
    BY <1>4, <1>6, <1>7
  <2>2. u \o (a \o c) = (u \o a) \o c
    BY <2>1, Associative
  <2>3. u \o (a \o c) = s
    BY <1>4, <1>6
  <2>. QED BY <2>2, <2>3
<1>12. ReadOne("server", s).value = x /\ ReadOne("server", s).rest = c
  BY <1>3, GotIs
<1>. QED BY <1>6, <1>9, <1>10, <1>11, <1>12

-----------------------------------------------------------------------------
(* The list of servers.                                                    *)

LEMMA TextsFit ==
  ASSUME NEW texts \in Seq(Seq(Byte))
  PROVE  texts \in Seq(Element("text")) <=> ~ TooLong(texts)
<1>1. \A i \in 1..Len(texts) : texts[i] \in Seq(Byte) /\ Len(texts[i]) \in Nat
  <2>1. \A i \in 1..Len(texts) : texts[i] \in Seq(Byte)
    BY ElementOfSeq
  <2>. QED BY <2>1
<1>2. MaxU8 \in Nat
  BY Limits
<1>3. ~ TooLong(texts) <=> \A i \in 1..Len(texts) : texts[i] \in Element("text")
  BY <1>1, <1>2 DEF TooLong, Element, Runs
<1>4. (\A i \in 1..Len(texts) : texts[i] \in Element("text")) => texts \in Seq(Element("text"))
  OBVIOUS
<1>5. texts \in Seq(Element("text")) => \A i \in 1..Len(texts) : texts[i] \in Element("text")
  BY ElementOfSeq
<1>. QED BY <1>3, <1>4, <1>5

LEMMA EntryFits ==
  ASSUME NEW x \in ServerEntry
  PROVE  x \in Element("server") <=> ~ TooLong(x.texts)
<1>1. x.texts \in Seq(Seq(Byte)) /\ Len(x.texts) = 2
  BY DEF ServerEntry
<1>2. Element("text") = Runs(MaxU8)
  BY DEF Element
<1>3. x \in Element("server") <=> x.texts \in Seq(Runs(MaxU8))
  BY <1>1 DEF Element, ServerEntry
<1>. QED BY <1>1, <1>2, <1>3, TextsFit

LEMMA EntriesAreEntries == Element("server") \subseteq ServerEntry
<1>1. Runs(MaxU8) \subseteq Seq(Byte)
  BY RunsAreSeqs
<1>2. Seq(Runs(MaxU8)) \subseteq Seq(Seq(Byte))
  BY <1>1, SeqMonotonic
<1>. QED BY <1>2 DEF Element, ServerEntry

LEMMA ServersEncoded ==
  ASSUME NEW v \in ServerList
  PROVE  LET a    == AllOf("server", v.servers)
             size == 4 + Len(a)
             w    == (((U16(1) \o U16(size)) \o U16(v.total_count)) \o U16(Len(v.servers))) \o a
         IN  /\ Encode("servers", v).ok
                  <=> /\ v.servers \in Seq(Element("server"))
                      /\ Len(v.servers) <= MaxU16 /\ size <= MaxU16
             /\ Encode("servers", v).ok => Encode("servers", v) = Good(w)
<1> DEFINE servers == v.servers
           a == AllOf("server", servers)
           size == 4 + Len(a)
           w == (((U16(1) \o U16(size)) \o U16(v.total_count)) \o U16(Len(servers))) \o a
           large == \E i \in 1..Len(servers) : TooLong(servers[i].texts)
<1>1. a = FlattenSeq([i \in 1..Len(servers) |-> EncodeEntry(servers[i])])
  BY DEF AllOf, WriteOne
<1>2. Encode("servers", v) = IF Len(servers) > MaxU16 THEN Fail("count_too_large")
                             ELSE IF large THEN Fail("string_too_long")
                             ELSE IF size > MaxU16 THEN Fail("element_too_large")
                             ELSE Good(w)
  BY <1>1 DEF Encode, EncodeServerList, ServerListType
<1>3. /\ servers \in Seq(ServerEntry) /\ Len(servers) \in Nat /\ MaxU16 \in Nat
      /\ \A i \in 1..Len(servers) : servers[i] \in ServerEntry
  <2>1. servers \in Seq(ServerEntry)
    BY DEF ServerList
  <2> HIDE DEF servers
  <2>2. \A i \in 1..Len(servers) : servers[i] \in ServerEntry
    BY <2>1, ElementOfSeq
  <2>. QED BY <2>1, <2>2, Limits
<1> HIDE DEF servers
<1>4. ~ large <=> servers \in Seq(Element("server"))
  <2>1. ASSUME ~ large
        PROVE  servers \in Seq(Element("server"))
    <3>1. \A i \in 1..Len(servers) : servers[i] \in Element("server")
      BY <1>3, <2>1, EntryFits
    <3>. QED BY <1>3, <3>1
  <2>2. ASSUME servers \in Seq(Element("server")), NEW i \in 1..Len(servers)
        PROVE  ~ TooLong(servers[i].texts)
    <3>1. servers[i] \in Element("server")
      BY <2>2, ElementOfSeq
    <3>. QED BY <1>3, <3>1, EntryFits
  <2>. QED BY <2>1, <2>2
<1>5. ASSUME servers \in Seq(Element("server"))
      PROVE  size \in Nat
  <2>1. a \in Seq(Byte)
    BY <1>5, ServerElement, AllOfTyped
  <2> HIDE DEF a
  <2>. QED BY <2>1
<1> HIDE DEF w, large, size
<1>6. /\ ~ Fail("string_too_long").ok /\ ~ Fail("element_too_large").ok
      /\ ~ Fail("count_too_large").ok
  BY DEF Fail
<1>7. Encode("servers", v).ok
        <=> servers \in Seq(Element("server")) /\ Len(servers) <= MaxU16 /\ size <= MaxU16
  BY <1>2, <1>3, <1>4, <1>5, <1>6, GoodIs
<1>8. Encode("servers", v).ok => Encode("servers", v) = Good(w)
  BY <1>2, <1>6
<1>. QED BY <1>7, <1>8 DEF w, size, a, servers

ListFits(s) ==
  8 <= Len(s) /\ Read(s, 0, 2) = 1 /\ 4 <= Read(s, 2, 2) /\ Len(s) = 4 + Read(s, 2, 2)
ListOf(s) ==
  [total_count |-> Read(s, 4, 2), servers |-> Listed("server", Rest(s, 6)).value]

LEMMA ServersDecoded ==
  ASSUME NEW s \in Seq(Byte)
  PROVE  /\ Decode("servers", s).ok <=> ListFits(s) /\ Listed("server", Rest(s, 6)).ok
         /\ Decode("servers", s).ok => Decode("servers", s) = Good(ListOf(s))
<1> DEFINE size == Read(s, 2, 2)
           l == Len(s)
           all == Whole(Items(Read(s, 6, 2), Rest(s, 8), ReadEntry))
           v == [total_count |-> Read(s, 4, 2), servers |-> all.value]
           d == Decode("servers", s)
<1>1. d = IF l < 4 THEN Truncated
          ELSE IF Read(s, 0, 2) # 1 THEN Fail("wrong_format_tag")
          ELSE IF size < 4 THEN Truncated
          ELSE IF Exactly(s, 4 + size).ok THEN (IF all.ok THEN Good(v) ELSE all)
          ELSE Exactly(s, 4 + size)
  BY DEF Decode, DecodeServerList, ServerListType, Then
<1>2. ~ Truncated.ok /\ ~ Fail("wrong_format_tag").ok /\ l \in Nat
  BY DEF Truncated, Fail
<1> HIDE DEF d
<1>3. CASE l < 4
  <2>1. ~ d.ok
    BY <1>1, <1>2, <1>3
  <2>. QED BY <1>2, <1>3, <2>1 DEF ListFits, d
<1>4. CASE ~ (l < 4)
  <2>1. size \in Nat
    <3>1. 2 \in Nat /\ 4 \in Nat /\ 2 + 2 = 4 /\ 4 <= Len(s)
      BY <1>2, <1>4
    <3>. QED BY <3>1, ReadIsNat
  <2> HIDE DEF v, all, size
  <2>2. Exactly(s, 4 + size).ok <=> l = 4 + size
    BY <2>1, ExactlyIs
  <2>3. d.ok <=> Read(s, 0, 2) = 1 /\ ~ (size < 4) /\ l = 4 + size /\ all.ok
    BY <1>1, <1>2, <1>4, <2>2, GoodIs
  <2>4. d.ok => d = Good(v)
    BY <1>1, <1>2, <1>4, <2>2
  <2>5. ASSUME 8 <= l
        PROVE  all = Listed("server", Rest(s, 6))
    <3> DEFINE n == Read(s, 6, 2)
               t == Rest(s, 8)
    <3>1. 6 \in Nat /\ 8 \in Nat /\ 8 = 6 + 2 /\ 6 + 2 = 8 /\ 8 <= Len(s)
      BY <2>5
    <3>2. n \in Nat
      BY <3>1, ReadIsNat, Zenon
    <3>3. all = Whole(Items(n, t, ReadEntry))
      BY DEF all
    <3>4. Listed("server", Rest(s, 6)) = Whole(SomeOf("server", n, t, n))
      BY <3>1, ListInside, ZenonT(40)
    <3> HIDE DEF n, t
    <3>5. Items(n, t, ReadEntry) = SomeOf("server", n, t, n)
      BY <3>2, ServersAre
    <3>. QED BY <3>3, <3>4, <3>5
  <2>6. ListFits(s) <=> Read(s, 0, 2) = 1 /\ ~ (size < 4) /\ l = 4 + size
    BY <1>2, <2>1 DEF ListFits, size
  <2>7. ListFits(s) => all = Listed("server", Rest(s, 6)) /\ v = ListOf(s)
    BY <2>5 DEF ListFits, ListOf, v
  <2>. QED BY <2>3, <2>4, <2>6, <2>7 DEF d
<1>. QED BY <1>3, <1>4

LEMMA ThreeWords ==
  ASSUME NEW x \in Word, NEW y \in Word, NEW z \in Word
  PROVE  LET u == (U16(x) \o U16(y)) \o U16(z)
         IN  /\ u \in Seq(Byte) /\ Len(u) = 6
             /\ Read(u, 0, 2) = x /\ Read(u, 2, 2) = y /\ Read(u, 4, 2) = z
<1> DEFINE a == U16(x)
           b == a \o U16(y)
           c == b \o U16(z)
<1>1. a \in Seq(Byte) /\ Len(a) = 2 /\ Read(a, 0, 2) = x
  BY WordFirst
<1> HIDE DEF a
<1>2. b \in Seq(Byte) /\ Len(b) = Len(a) + 2 /\ Read(b, Len(a), 2) = y /\ Continues(b, a)
  BY <1>1, WordAppended, Zenon
<1> HIDE DEF b
<1>3. c \in Seq(Byte) /\ Len(c) = Len(b) + 2 /\ Read(c, Len(b), 2) = z /\ Continues(c, b)
  BY <1>2, WordAppended, Zenon
<1> HIDE DEF c
<1>4. Len(b) = 4 /\ Len(c) = 6
  BY <1>1, <1>2, <1>3
<1>5. Read(b, 0, 2) = x /\ Read(b, 2, 2) = y
  BY <1>1, <1>2 DEF Continues, Read
<1>6. Read(c, 0, 2) = x /\ Read(c, 2, 2) = y /\ Read(c, 4, 2) = z
  BY <1>3, <1>4, <1>5 DEF Continues, Read
<1>. QED BY <1>3, <1>4, <1>6 DEF a, b, c

\* What was written of a list behind other bytes.
LEMMA ListBehind ==
  ASSUME NEW r, ElementWritten(r), NEW xs \in Seq(Element(r)), Len(xs) <= MaxU16,
         NEW u \in Seq(Byte), NEW o \in Nat, o = Len(u)
  PROVE  LET w == (u \o U16(Len(xs))) \o AllOf(r, xs)
         IN  /\ w \in Seq(Byte) /\ Len(w) = o + (2 + Len(AllOf(r, xs))) /\ Continues(w, u)
             /\ Listed(r, Rest(w, o)) = Good(xs)
<1> DEFINE n == Len(xs)
           b == U16(n)
           a == AllOf(r, xs)
           t == b \o a
           x == u \o t
           w == (u \o b) \o a
<1>1. n \in Word
  BY Limits DEF Word
<1>2. b \in Seq(Byte) /\ Len(b) = 2 /\ a \in Seq(Byte)
  BY <1>1, WordFirst, AllOfTyped
<1>3. Listed(r, t) = Good(xs)
  BY ListedWritten
<1> HIDE DEF a, b, n
<1>4. x = w
  BY <1>2, Associative
<1> HIDE DEF w
<1>5. t \in Seq(Byte) /\ Len(t) = 2 + Len(a)
  <2>1. t \in Seq(Byte) /\ Len(t) = Len(b) + Len(a)
    BY <1>2, Appended
  <2> HIDE DEF t
  <2>. QED BY <1>2, <2>1
<1> HIDE DEF t
<1>6. x \in Seq(Byte) /\ Len(x) = Len(u) + Len(t) /\ Continues(x, u)
  BY <1>5, Appended
<1>7. Rest(x, o) = t
  BY <1>5, LeftBehind
<1> HIDE DEF x
<1>8. Listed(r, Rest(w, o)) = Good(xs)
  BY <1>3, <1>4, <1>7
<1>9. w \in Seq(Byte) /\ Len(w) = o + (2 + Len(a)) /\ Continues(w, u)
  BY <1>4, <1>5, <1>6
<1>. QED BY <1>8, <1>9 DEF w, a, b, n

\* Any number of servers, and how many there are in all parts of the list.
LEMMA ServersFaithful == Faithful("servers")
<1>1. Holds("servers") = ServerList
  BY DEF Holds
<1>2. Written("servers")
  <2> SUFFICES ASSUME NEW v \in ServerList, Encode("servers", v).ok
               PROVE  /\ Encode("servers", v).value \in Seq(Byte)
                      /\ Decode("servers", Encode("servers", v).value) = Good(v)
    BY <1>1 DEF Written
  <2> DEFINE servers == v.servers
             total == v.total_count
             a == AllOf("server", servers)
             size == 4 + Len(a)
             u == (U16(1) \o U16(size)) \o U16(total)
             w == (u \o U16(Len(servers))) \o a
  <2>1. v = [total_count |-> total, servers |-> servers] /\ total \in Word
    BY DEF ServerList
  <2>2. /\ servers \in Seq(Element("server")) /\ Len(servers) <= MaxU16 /\ size <= MaxU16
        /\ Encode("servers", v) = Good(w)
    BY ServersEncoded
  <2> HIDE DEF servers, total
  <2>3. a \in Seq(Byte) /\ Len(a) \in Nat
    <3>1. a \in Seq(Byte)
      BY <2>2, ServerElement, AllOfTyped
    <3> HIDE DEF a
    <3>. QED BY <3>1
  <2>4. size \in Word /\ 1 \in Word /\ 4 <= size
    <3> HIDE DEF a
    <3>1. size \in Nat /\ 4 <= size
      BY <2>3
    <3>2. 1 <= MaxU16
      BY <2>2, <3>1, Limits
    <3>. QED BY <2>2, <3>1, <3>2, Limits DEF Word
  <2> DEFINE m == size
  <2>5. /\ u \in Seq(Byte) /\ Len(u) = 6
        /\ Read(u, 0, 2) = 1 /\ Read(u, 2, 2) = m /\ Read(u, 4, 2) = total
    <3> DEFINE k == 1
    <3>1. k \in Word /\ m \in Word
      BY <2>4
    <3> HIDE DEF k, m
    <3> DEFINE x == (U16(k) \o U16(m)) \o U16(total)
    <3>2. /\ x \in Seq(Byte) /\ Len(x) = 6
          /\ Read(x, 0, 2) = k /\ Read(x, 2, 2) = m /\ Read(x, 4, 2) = total
      BY <2>1, <3>1, ThreeWords
    <3>. QED BY <3>2 DEF k, m
  <2> HIDE DEF u, m
  <2>6. /\ w \in Seq(Byte) /\ Len(w) = 6 + (2 + Len(a)) /\ Continues(w, u)
        /\ Listed("server", Rest(w, 6)) = Good(servers)
    <3> DEFINE o == 6
    <3>1. o \in Nat /\ o = Len(u)
      BY <2>5
    <3> HIDE DEF o
    <3>2. /\ w \in Seq(Byte) /\ Len(w) = o + (2 + Len(a)) /\ Continues(w, u)
          /\ Listed("server", Rest(w, o)) = Good(servers)
      BY <2>2, <2>5, <3>1, ServerElement, ListBehind
    <3>. QED BY <3>2 DEF o
  <2> HIDE DEF w, a
  <2>7. Read(w, 0, 2) = 1 /\ Read(w, 2, 2) = m /\ Read(w, 4, 2) = total
    BY <2>5, <2>6 DEF Continues, Read
  <2>8. ListFits(w)
    BY <2>3, <2>4, <2>6, <2>7 DEF ListFits, m
  <2>9. ListOf(w) = v
    BY <2>1, <2>6, <2>7, GoodIs DEF ListOf
  <2>10. Decode("servers", w) = Good(v)
    BY <2>6, <2>8, <2>9, ServersDecoded, GoodIs
  <2>. QED BY <2>2, <2>6, <2>10, GoodIs
<1>3. Understood("servers")
  <2> SUFFICES ASSUME NEW s \in Seq(Byte), Decode("servers", s).ok
               PROVE  Encode("servers", Decode("servers", s).value) = Good(s)
    BY DEF Understood
  <2> DEFINE v == ListOf(s)
             servers == v.servers
             total == v.total_count
             a == AllOf("server", servers)
             size == 4 + Len(a)
             u == (U16(1) \o U16(size)) \o U16(total)
             k == U16(Len(servers))
             h == At(s, 0, 6)
             t == Rest(s, 6)
  <2>1. Decode("servers", s).value = v /\ ListFits(s) /\ Listed("server", t).ok
    BY ServersDecoded, GoodIs
  <2>2. /\ 8 <= Len(s) /\ 6 <= Len(s) /\ 4 <= Len(s) /\ 2 <= Len(s)
        /\ Len(s) = 4 + Read(s, 2, 2) /\ Read(s, 0, 2) = 1
    BY <2>1 DEF ListFits
  <2>3. /\ v = [total_count |-> total, servers |-> servers]
        /\ total = Read(s, 4, 2) /\ servers = Listed("server", t).value
    BY DEF ListOf
  <2>4. t \in Seq(Byte) /\ h \o t = s
    BY <2>2, ListInside, Offsets, Zenon
  <2>5. /\ Read(s, 0, 2) \in Word /\ U16(Read(s, 0, 2)) = At(s, 0, 2)
        /\ Read(s, 2, 2) \in Word /\ At(s, 0, 2) \o U16(Read(s, 2, 2)) = At(s, 0, 4)
        /\ Read(s, 4, 2) \in Word /\ At(s, 0, 4) \o U16(Read(s, 4, 2)) = h
    <3>1. Read(s, 0, 2) \in Word /\ U16(Read(s, 0, 2)) = At(s, 0, 2)
      BY <2>2, WordBack, Offsets, Zenon
    <3>2. Read(s, 2, 2) \in Word /\ At(s, 0, 2) \o U16(Read(s, 2, 2)) = At(s, 0, 4)
      BY <2>2, WordBack, Offsets, ZenonT(40)
    <3>3. Read(s, 4, 2) \in Word /\ At(s, 0, 4) \o U16(Read(s, 4, 2)) = h
      BY <2>2, WordBack, Offsets, ZenonT(40)
    <3>. QED BY <3>1, <3>2, <3>3
  <2> HIDE DEF v, t
  <2>6. servers \in Seq(Element("server")) /\ Len(servers) <= MaxU16 /\ k \o a = t
    BY <2>1, <2>3, <2>4, ServerElement, ServerBack, ListedRead
  <2>7. a \in Seq(Byte) /\ Len(a) \in Nat /\ Len(servers) \in Word
    <3>1. a \in Seq(Byte)
      BY <2>6, ServerElement, AllOfTyped
    <3> HIDE DEF a, servers
    <3>. QED BY <2>6, <3>1, Limits DEF Word
  <2>8. v \in ServerList
    <3>1. servers \in Seq(ServerEntry)
      BY <2>6, EntriesAreEntries, SeqMonotonic
    <3>. QED BY <2>3, <2>5, <3>1 DEF ServerList
  <2>9. k \in Seq(Byte) /\ Len(k) = 2
    BY <2>7, WordFirst
  <2> HIDE DEF servers, total, a, k
  <2>10. h \in Seq(Byte) /\ Len(h) = 6
    <3>1. 0 \in Nat /\ 6 \in Nat /\ 0 + 6 <= Len(s)
      BY <2>2
    <3>. QED BY <3>1, Part
  <2> HIDE DEF h
  <2>11. Len(s) = 8 + Len(a)
    <3>1. Len(k \o a) = Len(k) + Len(a)
      BY <2>7, <2>9, Joined
    <3>2. Len(t) = 2 + Len(a)
      BY <2>6, <2>9, <3>1
    <3>3. t \in Seq(Byte)
      BY <2>4
    <3>4. Len(h \o t) = Len(h) + Len(t)
      BY <2>10, <3>3, Joined
    <3>5. Len(s) = Len(h) + Len(t)
      BY <2>4, <3>4
    <3>. QED BY <2>7, <2>10, <3>2, <3>5
  <2>12. size = Read(s, 2, 2)
    <3>1. Read(s, 2, 2) \in Nat
      BY <2>5, Limits DEF Word
    <3>. QED BY <2>2, <2>7, <2>11, <3>1
  <2>13. size <= MaxU16
    BY <2>5, <2>12, Limits DEF Word
  <2>14. u = h
    BY <2>2, <2>3, <2>5, <2>12
  <2>15. Encode("servers", v) = Good((u \o k) \o a)
    <3>1. Encode("servers", v).ok
      BY <2>6, <2>8, <2>13, ServersEncoded DEF servers, a
    <3>. QED BY <2>8, <3>1, ServersEncoded DEF servers, total, a, k
  <2> HIDE DEF u
  <2>16. (h \o k) \o a = s
    <3>1. h \o (k \o a) = (h \o k) \o a
      BY <2>7, <2>9, <2>10, Associative
    <3>2. h \o (k \o a) = s
      BY <2>4, <2>6
    <3>. QED BY <3>1, <3>2
  <2>. QED BY <2>1, <2>14, <2>15, <2>16
<1>4. Ended("servers")
  <2> SUFFICES ASSUME NEW s \in Seq(Byte), NEW n \in Nat, n < Len(s),
                      Decode("servers", s).ok, Decode("servers", First(s, n)).ok
               PROVE  FALSE
    BY DEF Ended
  <2> DEFINE u == First(s, n)
  <2>1. u \in Seq(Byte) /\ Len(u) = n /\ Continues(s, u)
    BY Shorter
  <2>2. ListFits(s) /\ ListFits(u)
    BY <2>1, ServersDecoded
  <2> HIDE DEF u
  <2>3. Read(s, 2, 2) = Read(u, 2, 2)
    BY <2>1, <2>2 DEF ListFits, Continues, Read
  <2>. QED BY <2>1, <2>2, <2>3 DEF ListFits
<1>. QED BY <1>2, <1>3, <1>4 DEF Faithful

-----------------------------------------------------------------------------
(* The answer to a lookup: a server, or none.                              *)

TheOne(s) == ReadOne("server", Rest(s, 4))
NoneFound(s) == Len(s) = 4 /\ Read(s, 0, 2) = NotFound /\ Read(s, 2, 2) = 0
OneFound(s) ==
  /\ 4 <= Len(s) /\ Read(s, 0, 2) = Found /\ Len(s) = 4 + Read(s, 2, 2)
  /\ TheOne(s).ok /\ TheOne(s).rest = << >>

LEMMA TypesFit == Found \in Word /\ NotFound \in Word /\ 0 \in Word /\ Found # NotFound
BY TypesAssumption, Limits DEF Found, NotFound, Word

LEMMA LookupDecoded ==
  ASSUME NEW s \in Seq(Byte)
  PROVE  /\ Decode("lookup", s).ok <=> NoneFound(s) \/ OneFound(s)
         /\ NoneFound(s) => Decode("lookup", s) = Good(<< >>)
         /\ OneFound(s) => Decode("lookup", s) = Good(<< TheOne(s).value >>)
<1> DEFINE l == Len(s)
           type == Read(s, 0, 2)
           size == Read(s, 2, 2)
           one == TheOne(s)
           all == Whole(one)
           none == Good(<< >>)
           got1 == Good(<< all.value >>)
           d == Decode("lookup", s)
           e == Fail("trailing_bytes")
           f == Fail("wrong_format_tag")
<1>1. d = IF l < 4 THEN Truncated
          ELSE IF type = NotFound THEN (IF l = 4 /\ size = 0 THEN none ELSE e)
          ELSE IF type # Found THEN f
          ELSE IF Exactly(s, 4 + size).ok THEN (IF all.ok THEN got1 ELSE all)
          ELSE Exactly(s, 4 + size)
  BY DEF Decode, DecodeLookup, Then, TheOne, ReadOne
<1>2. ~ Truncated.ok /\ ~ e.ok /\ ~ f.ok /\ none.ok /\ got1.ok /\ l \in Nat
  BY DEF Truncated, Fail, Good
<1>3. Found # NotFound
  BY TypesFit
<1>4. (all.ok <=> one.ok /\ one.rest = << >>) /\ (all.ok => all = Good(one.value))
  <2> HIDE DEF one
  <2>. QED BY WholeIs, GoodIs
<1>5. all.ok => all.value = one.value
  <2> HIDE DEF all, one
  <2>. QED BY <1>4, GoodIs
<1> HIDE DEF d, none, e, f, all
<1>6. CASE l < 4
  <2>1. ~ d.ok
    BY <1>1, <1>2, <1>6
  <2>2. ~ NoneFound(s) /\ ~ OneFound(s)
    <3>1. l \in Nat
      OBVIOUS
    <3>2. ~ (l = 4) /\ ~ (4 <= l)
      BY <1>6, <3>1
    <3>. QED BY <3>2, Zenon DEF NoneFound, OneFound
  <2>. QED BY <2>1, <2>2 DEF d
<1>7. CASE ~ (l < 4) /\ type = NotFound
  <2>1. d = IF l = 4 /\ size = 0 THEN none ELSE e
    BY <1>1, <1>7
  <2>2. ~ OneFound(s) /\ (NoneFound(s) <=> l = 4 /\ size = 0)
    BY <1>3, <1>7 DEF NoneFound, OneFound
  <2>. QED BY <1>2, <2>1, <2>2 DEF d, none
<1>8. CASE ~ (l < 4) /\ type = Found
  <2>1. d = IF Exactly(s, 4 + size).ok THEN (IF all.ok THEN got1 ELSE all) ELSE Exactly(s, 4 + size)
    BY <1>1, <1>3, <1>8
  <2>2. size \in Nat
    <3>1. 2 \in Nat /\ 4 \in Nat /\ 2 + 2 = 4 /\ 4 <= Len(s)
      BY <1>2, <1>8
    <3>. QED BY <3>1, ReadIsNat
  <2> HIDE DEF size
  <2>3. Exactly(s, 4 + size).ok <=> l = 4 + size
    BY <2>2, ExactlyIs
  <2>4. d.ok <=> l = 4 + size /\ all.ok
    BY <1>2, <2>1, <2>3
  <2>5. ~ NoneFound(s) /\ (OneFound(s) <=> l = 4 + size /\ all.ok)
    BY <1>2, <1>3, <1>4, <1>8 DEF NoneFound, OneFound, size
  <2>6. d.ok => d = Good(<< one.value >>)
    BY <1>5, <2>1, <2>3, <2>4
  <2>. QED BY <2>4, <2>5, <2>6 DEF d
<1>9. CASE ~ (l < 4) /\ type # NotFound /\ type # Found
  <2>1. ~ d.ok
    BY <1>1, <1>2, <1>9
  <2>2. ~ NoneFound(s) /\ ~ OneFound(s)
    BY <1>9 DEF NoneFound, OneFound
  <2>. QED BY <2>1, <2>2 DEF d
<1>. QED BY <1>6, <1>7, <1>8, <1>9

LEMMA LookupEncoded ==
  ASSUME NEW v \in LookupReply
  PROVE  LET a == WriteOne("server", v[1])
             w == (U16(Found) \o U16(Len(a))) \o a
         IN  \/ v = << >> /\ Encode("lookup", v) = Good(U16(NotFound) \o U16(0))
             \/ /\ v = << v[1] >> /\ v[1] \in ServerEntry
                /\ Encode("lookup", v).ok <=> v[1] \in Element("server") /\ Len(a) <= MaxU16
                /\ Encode("lookup", v).ok => Encode("lookup", v) = Good(w)
<1> DEFINE x == v[1]
           a == WriteOne("server", x)
           w == (U16(Found) \o U16(Len(a))) \o a
           none == U16(NotFound) \o U16(0)
<1>1. Encode("lookup", v) = IF v = << >> THEN Good(none)
                            ELSE IF TooLong(x.texts) THEN Fail("string_too_long")
                            ELSE IF Len(a) > MaxU16 THEN Fail("element_too_large")
                            ELSE Good(w)
  BY DEF Encode, EncodeLookup, WriteOne
<1>2. ~ Fail("string_too_long").ok /\ ~ Fail("element_too_large").ok
  BY DEF Fail
<1>3. v \in Seq(ServerEntry) /\ Len(v) \in Nat /\ Len(v) <= 1
  BY DEF LookupReply
<1>4. CASE v = << >>
  BY <1>1, <1>4
<1>5. CASE v # << >>
  <2>1. v = << x >> /\ x \in ServerEntry
    <3>1. Len(v) = 1
      BY <1>3, <1>5
    <3>. QED BY <1>3, <3>1, ElementOfSeq
  <2> HIDE DEF x, w, none
  <2>2. x \in Element("server") <=> ~ TooLong(x.texts)
    BY <2>1, EntryFits
  <2>3. x \in Element("server") => Len(a) \in Nat
    <3>1. x \in Element("server") => a \in Seq(Byte)
      BY ServerElement DEF ElementWritten
    <3> HIDE DEF a
    <3>. QED BY <3>1
  <2> HIDE DEF a
  <2>4. MaxU16 \in Nat
    BY Limits
  <2>5. /\ Encode("lookup", v).ok <=> x \in Element("server") /\ Len(a) <= MaxU16
        /\ Encode("lookup", v).ok => Encode("lookup", v) = Good(w)
    BY <1>1, <1>2, <1>5, <2>2, <2>3, <2>4, GoodIs
  <2>. QED BY <2>1, <2>5 DEF x, a, w
<1>. QED BY <1>4, <1>5

LEMMA TwoWords ==
  ASSUME NEW x \in Word, NEW y \in Word
  PROVE  LET u == U16(x) \o U16(y)
         IN  u \in Seq(Byte) /\ Len(u) = 4 /\ Read(u, 0, 2) = x /\ Read(u, 2, 2) = y
<1> DEFINE a == U16(x)
           u == a \o U16(y)
<1>1. a \in Seq(Byte) /\ Len(a) = 2 /\ Read(a, 0, 2) = x
  BY WordFirst
<1> HIDE DEF a
<1>2. u \in Seq(Byte) /\ Len(u) = Len(a) + 2 /\ Read(u, Len(a), 2) = y /\ Continues(u, a)
  BY <1>1, WordAppended, Zenon
<1> HIDE DEF u
<1>3. u \in Seq(Byte) /\ Len(u) = 4 /\ Read(u, 0, 2) = x /\ Read(u, 2, 2) = y
  BY <1>1, <1>2 DEF Continues, Read
<1>. QED BY <1>3 DEF u, a

LEMMA LookupFaithful == Faithful("lookup")
<1>1. Holds("lookup") = LookupReply
  BY DEF Holds
<1>2. Written("lookup")
  <2> SUFFICES ASSUME NEW v \in LookupReply, Encode("lookup", v).ok
               PROVE  /\ Encode("lookup", v).value \in Seq(Byte)
                      /\ Decode("lookup", Encode("lookup", v).value) = Good(v)
    BY <1>1 DEF Written
  <2> DEFINE x == v[1]
             a == WriteOne("server", x)
             m == Len(a)
             none == U16(NotFound) \o U16(0)
             u == U16(Found) \o U16(m)
             w == u \o a
  <2>1. CASE v = << >> /\ Encode("lookup", v) = Good(none)
    <3>1. /\ none \in Seq(Byte) /\ Len(none) = 4
          /\ Read(none, 0, 2) = NotFound /\ Read(none, 2, 2) = 0
      BY TypesFit, TwoWords
    <3> HIDE DEF none
    <3>2. NoneFound(none)
      BY <3>1, Zenon DEF NoneFound
    <3>. QED BY <2>1, <3>1, <3>2, LookupDecoded, GoodIs
  <2>2. CASE v = << x >> /\ x \in Element("server") /\ m <= MaxU16 /\ Encode("lookup", v) = Good(w)
    <3>1. a \in Seq(Byte) /\ ReadOne("server", a \o << >>) = Got(x, << >>) /\ << >> \in Seq(Byte)
      <4>1. << >> \in Seq(Byte)
        OBVIOUS
      <4>. QED BY <2>2, <4>1, ServerElement DEF ElementWritten
    <3> HIDE DEF x, a
    <3>2. ReadOne("server", a) = Got(x, << >>) /\ m \in Nat
      <4>1. a \o << >> = a
        BY <3>1
      <4>. QED BY <3>1, <4>1
    <3>3. m \in Word
      BY <2>2, <3>2, Limits DEF Word
    <3> DEFINE n == m
    <3>4. u \in Seq(Byte) /\ Len(u) = 4 /\ Read(u, 0, 2) = Found /\ Read(u, 2, 2) = n
      BY <3>3, TypesFit, TwoWords
    <3> HIDE DEF u, n
    <3>5. w \in Seq(Byte) /\ Len(w) = Len(u) + Len(a) /\ Continues(w, u)
      BY <3>1, <3>4, Appended
    <3>6. Rest(w, 4) = a
      <4> DEFINE o == 4
      <4>1. o \in Nat /\ o = Len(u)
        BY <3>4
      <4> HIDE DEF o
      <4>2. Rest(w, o) = a
        BY <3>1, <3>4, <4>1, LeftBehind
      <4>. QED BY <4>2 DEF o
    <3> HIDE DEF w
    <3>7. Read(w, 0, 2) = Found /\ Read(w, 2, 2) = n
      BY <3>4, <3>5 DEF Continues, Read
    <3>8. TheOne(w).ok /\ TheOne(w).rest = << >> /\ TheOne(w).value = x
      BY <3>2, <3>6, GotIs DEF TheOne
    <3>9. OneFound(w)
      <4>1. 4 <= Len(w) /\ Len(w) = 4 + Read(w, 2, 2)
        BY <3>2, <3>4, <3>5, <3>7 DEF n
      <4>. QED BY <3>7, <3>8, <4>1, Zenon DEF OneFound
    <3>10. Decode("lookup", w) = Good(<< x >>)
      BY <3>5, <3>8, <3>9, LookupDecoded
    <3>. QED BY <2>2, <3>5, <3>10, GoodIs
  <2> HIDE DEF x, a, none, w
  <2>. QED BY <2>1, <2>2, LookupEncoded DEF x, a, none, w
<1>3. Understood("lookup")
  <2> SUFFICES ASSUME NEW s \in Seq(Byte), Decode("lookup", s).ok
               PROVE  Encode("lookup", Decode("lookup", s).value) = Good(s)
    BY DEF Understood
  <2>1. 4 <= Len(s)
    <3>1. NoneFound(s) \/ OneFound(s)
      BY LookupDecoded
    <3>2. 4 <= 4
      OBVIOUS
    <3>. QED BY <3>1, <3>2, Zenon DEF NoneFound, OneFound
  <2> DEFINE h == At(s, 0, 4)
  <2>2. /\ Read(s, 0, 2) \in Word /\ U16(Read(s, 0, 2)) = At(s, 0, 2)
        /\ Read(s, 2, 2) \in Word /\ At(s, 0, 2) \o U16(Read(s, 2, 2)) = h
    <3>1. 2 <= Len(s)
      BY <2>1
    <3>. QED BY <2>1, <3>1, WordBack, Offsets, Zenon
  <2>3. CASE NoneFound(s)
    <3>1. << >> \in LookupReply
      BY DEF LookupReply
    <3>2. U16(NotFound) \o U16(0) = h
      BY <2>2, <2>3 DEF NoneFound
    <3>3. h = s
      BY <2>3, AllOfIt DEF NoneFound
    <3>4. Encode("lookup", << >>) = Good(h)
      BY <3>1, <3>2, LookupEncoded
    <3>5. Decode("lookup", s).value = << >>
      BY <2>3, LookupDecoded, GoodIs
    <3>. QED BY <3>3, <3>4, <3>5
  <2>4. CASE OneFound(s)
    <3> DEFINE t == Rest(s, 4)
               l == Len(s)
               x == TheOne(s).value
               a == WriteOne("server", x)
    <3>1. /\ Read(s, 0, 2) = Found /\ l = 4 + Read(s, 2, 2)
          /\ ReadOne("server", t).ok /\ ReadOne("server", t).rest = << >>
          /\ ReadOne("server", t).value = x
      BY <2>4 DEF OneFound, TheOne
    <3>2. t \in Seq(Byte) /\ Len(t) = l - 4 /\ h \o t = s
      <4> DEFINE o == 4
                 m == l - o
      <4>1. o \in Nat /\ m \in Nat /\ l = o + m
        BY <2>1
      <4> HIDE DEF o, m, l
      <4>2. Rest(s, o) \in Seq(Byte) /\ Len(Rest(s, o)) = m /\ At(s, 0, o) \o Rest(s, o) = s
        BY <4>1, RestIs DEF l
      <4>. QED BY <4>2 DEF o, m
    <3>3. Decode("lookup", s).value = << x >>
      BY <2>4, LookupDecoded, GoodIs
    <3> HIDE DEF t, x
    <3>4. x \in Element("server") /\ t = a \o << >>
      BY <3>1, <3>2, ServerBack DEF ElementRead
    <3>5. a \in Seq(Byte)
      BY <3>4, ServerElement DEF ElementWritten
    <3> HIDE DEF a
    <3>6. t = a
      <4>1. a \o << >> = a
        BY <3>5
      <4>. QED BY <3>4, <4>1
    <3>7. Len(a) = Read(s, 2, 2)
      <4>1. Read(s, 2, 2) \in Nat
        BY <2>2, Limits DEF Word
      <4>. QED BY <3>1, <3>2, <3>6, <4>1
    <3>8. Len(a) <= MaxU16
      BY <2>2, <3>7, Limits DEF Word
    <3> DEFINE v == << x >>
    <3>9. v \in LookupReply /\ v[1] = x /\ v # << >>
      BY <3>4, EntriesAreEntries DEF LookupReply
    <3> HIDE DEF v
    <3>10. Encode("lookup", v) = Good((U16(Found) \o U16(Len(a))) \o a)
      BY <3>4, <3>8, <3>9, LookupEncoded DEF a
    <3>11. (U16(Found) \o U16(Len(a))) \o a = s
      BY <2>2, <3>1, <3>2, <3>6, <3>7
    <3>. QED BY <3>3, <3>10, <3>11 DEF v
  <2>. QED BY <2>3, <2>4, LookupDecoded
<1>4. Ended("lookup")
  <2> SUFFICES ASSUME NEW s \in Seq(Byte), NEW n \in Nat, n < Len(s),
                      Decode("lookup", s).ok, Decode("lookup", First(s, n)).ok
               PROVE  FALSE
    BY DEF Ended
  <2> DEFINE u == First(s, n)
  <2>1. u \in Seq(Byte) /\ Len(u) = n /\ Continues(s, u)
    BY Shorter
  <2>2. (NoneFound(s) \/ OneFound(s)) /\ (NoneFound(u) \/ OneFound(u))
    BY <2>1, LookupDecoded
  <2> HIDE DEF u
  <2>3. 4 <= Len(u)
    BY <2>2 DEF NoneFound, OneFound
  <2>4. Read(s, 0, 2) = Read(u, 0, 2) /\ Read(s, 2, 2) = Read(u, 2, 2)
    BY <2>1, <2>3 DEF Continues, Read
  <2>5. Len(s) = Len(u)
    BY <2>2, <2>4, TypesFit DEF NoneFound, OneFound
  <2>. QED BY <2>1, <2>5
<1>. QED BY <1>2, <1>3, <1>4 DEF Faithful

-----------------------------------------------------------------------------
(* The registration of a server: numbers, and three texts behind them.     *)

RegistrationHead(v) ==
  (((U16(v.type) \o U16(v.port)) \o U16(v.user_count)) \o U16(v.flags)) \o U32(v.pass_id)
RegistrationOf(s, texts) ==
  [type |-> Read(s, 0, 2), port |-> Read(s, 2, 2), user_count |-> Read(s, 4, 2),
   flags |-> Read(s, 6, 2), pass_id |-> Read(s, 8, 4), texts |-> texts]
RegistrationTyped(v) ==
  v.type \in Word /\ v.port \in Word /\ v.user_count \in Word /\ v.flags \in Word
  /\ v.pass_id \in Long
ThreeTexts(s) == SomeOf("text", 3, Rest(s, 12), 3)
RegistrationFits(s) ==
  /\ 15 <= Len(s) /\ Read(s, 0, 2) \in {AddServer, RemoveServer}
  /\ ThreeTexts(s).ok /\ ThreeTexts(s).rest = << >>

LEMMA RegistrationDecoded ==
  ASSUME NEW s \in Seq(Byte)
  PROVE  /\ Decode("registration", s).ok <=> RegistrationFits(s)
         /\ RegistrationFits(s)
              => Decode("registration", s) = Good(RegistrationOf(s, ThreeTexts(s).value))
<1> DEFINE l == Len(s)
           type == Read(s, 0, 2)
           t == Rest(s, 12)
           texts == Items(3, t, ReadPString)
           all == Whole(texts)
           v == RegistrationOf(s, all.value)
           d == Decode("registration", s)
           f == Fail("wrong_format_tag")
<1>1. d = IF l <= 14 THEN Truncated
          ELSE IF type \notin {AddServer, RemoveServer} THEN f
          ELSE IF all.ok THEN Good(v) ELSE all
  BY DEF Decode, DecodeRegistration, Then, RegistrationOf
<1>2. ~ Truncated.ok /\ ~ f.ok
  BY DEF Truncated, Fail
<1>3. texts = ThreeTexts(s)
  <2> DEFINE n == 3
  <2>1. n \in Nat
    OBVIOUS
  <2> HIDE DEF n, t
  <2>2. Items(n, t, ReadPString) = SomeOf("text", n, t, n)
    BY <2>1, TextsAre
  <2>. QED BY <2>2 DEF n, t, ThreeTexts
<1>4. /\ all.ok <=> texts.ok /\ texts.rest = << >>
      /\ all.ok => all.value = texts.value
  <2> HIDE DEF texts
  <2>. QED BY WholeIs, GoodIs
<1>5. l \in Nat
  OBVIOUS
<1>6. l <= 14 <=> ~ (15 <= l)
  BY <1>5
<1> HIDE DEF d, f, all, texts, v
<1>7. d.ok <=> 15 <= l /\ type \in {AddServer, RemoveServer} /\ all.ok
  BY <1>1, <1>2, <1>6, GoodIs
<1>8. d.ok => d = Good(v)
  BY <1>1, <1>2
<1>9. d.ok <=> RegistrationFits(s)
  BY <1>3, <1>4, <1>7 DEF RegistrationFits
<1>10. all.ok => v = RegistrationOf(s, texts.value)
  BY <1>4 DEF v
<1>. QED BY <1>3, <1>7, <1>8, <1>9, <1>10 DEF d

LEMMA RegistrationEncoded ==
  ASSUME NEW v \in Registration
  PROVE  /\ Encode("registration", v).ok <=> v.texts \in Seq(Element("text"))
         /\ Encode("registration", v).ok
              => Encode("registration", v) = Good(RegistrationHead(v) \o AllOf("text", v.texts))
<1> DEFINE texts == v.texts
           w == RegistrationHead(v) \o AllOf("text", texts)
<1>1. texts \in Seq(Seq(Byte)) /\ Len(texts) = 3
  BY DEF Registration
<1>2. AllOf("text", texts) = FlattenSeq([i \in 1..3 |-> PString(texts[i])])
  BY <1>1 DEF AllOf, WriteOne
<1>3. Encode("registration", v) = IF TooLong(texts) THEN Fail("string_too_long") ELSE Good(w)
  BY <1>2 DEF Encode, EncodeRegistration, RegistrationHead
<1>4. ~ Fail("string_too_long").ok
  BY DEF Fail
<1> HIDE DEF w, texts
<1>5. /\ Encode("registration", v).ok <=> texts \in Seq(Element("text"))
      /\ Encode("registration", v).ok => Encode("registration", v) = Good(w)
  BY <1>1, <1>3, <1>4, TextsFit, GoodIs
<1>. QED BY <1>5 DEF w, texts

LEMMA RegistrationHeadWritten ==
  ASSUME NEW v, RegistrationTyped(v)
  PROVE  LET u == RegistrationHead(v)
         IN  /\ u \in Seq(Byte) /\ Len(u) = 12
             /\ Read(u, 0, 2) = v.type /\ Read(u, 2, 2) = v.port /\ Read(u, 4, 2) = v.user_count
             /\ Read(u, 6, 2) = v.flags /\ Read(u, 8, 4) = v.pass_id
<1> DEFINE u1 == (U16(v.type) \o U16(v.port)) \o U16(v.user_count)
           u2 == u1 \o U16(v.flags)
           u3 == u2 \o U32(v.pass_id)
<1>1. /\ v.type \in Word /\ v.port \in Word /\ v.user_count \in Word
      /\ v.flags \in Word /\ v.pass_id \in Long
  BY DEF RegistrationTyped
<1>2. /\ u1 \in Seq(Byte) /\ Len(u1) = 6
      /\ Read(u1, 0, 2) = v.type /\ Read(u1, 2, 2) = v.port /\ Read(u1, 4, 2) = v.user_count
  <2> DEFINE x == v.type
             y == v.port
             z == v.user_count
             u == (U16(x) \o U16(y)) \o U16(z)
  <2>1. x \in Word /\ y \in Word /\ z \in Word
    BY <1>1
  <2> HIDE DEF x, y, z
  <2>2. u \in Seq(Byte) /\ Len(u) = 6 /\ Read(u, 0, 2) = x /\ Read(u, 2, 2) = y /\ Read(u, 4, 2) = z
    BY <2>1, ThreeWords
  <2>. QED BY <2>2 DEF x, y, z
<1> HIDE DEF u1
<1>3. u2 \in Seq(Byte) /\ Len(u2) = Len(u1) + 2 /\ Read(u2, Len(u1), 2) = v.flags
      /\ Continues(u2, u1)
  BY <1>1, <1>2, WordAppended, Zenon
<1> HIDE DEF u2
<1>4. /\ u3 \in Seq(Byte) /\ Len(u3) = Len(u2) + 4 /\ Read(u3, Len(u2), 4) = v.pass_id
      /\ Continues(u3, u2)
  BY <1>1, <1>3, LongAppended, Zenon
<1> HIDE DEF u3
<1>5. Len(u2) = 8 /\ Len(u3) = 12
  BY <1>2, <1>3, <1>4
<1>6. /\ Read(u2, 0, 2) = v.type /\ Read(u2, 2, 2) = v.port /\ Read(u2, 4, 2) = v.user_count
      /\ Read(u2, 6, 2) = v.flags
  BY <1>2, <1>3 DEF Continues, Read
<1>7. /\ Read(u3, 0, 2) = v.type /\ Read(u3, 2, 2) = v.port /\ Read(u3, 4, 2) = v.user_count
      /\ Read(u3, 6, 2) = v.flags /\ Read(u3, 8, 4) = v.pass_id
  BY <1>4, <1>5, <1>6 DEF Continues, Read
<1>8. u3 = RegistrationHead(v)
  BY DEF RegistrationHead, u1, u2, u3
<1>. QED BY <1>4, <1>5, <1>7, <1>8

LEMMA RegistrationHeadBack ==
  ASSUME NEW s \in Seq(Byte), 12 <= Len(s), NEW texts
  PROVE  /\ RegistrationTyped(RegistrationOf(s, texts))
         /\ RegistrationHead(RegistrationOf(s, texts)) = At(s, 0, 12)
<1> DEFINE v == RegistrationOf(s, texts)
           a == Read(s, 0, 2)
           b == Read(s, 2, 2)
           c == Read(s, 4, 2)
           d == Read(s, 6, 2)
           e == Read(s, 8, 4)
<1>1. 2 <= Len(s) /\ 4 <= Len(s) /\ 6 <= Len(s) /\ 8 <= Len(s)
  OBVIOUS
<1>2. v.type = a /\ v.port = b /\ v.user_count = c /\ v.flags = d /\ v.pass_id = e
  BY DEF RegistrationOf
<1>3. /\ a \in Word /\ b \in Word /\ c \in Word
      /\ U16(a) = At(s, 0, 2)
      /\ At(s, 0, 2) \o U16(b) = At(s, 0, 4)
      /\ At(s, 0, 4) \o U16(c) = At(s, 0, 6)
  BY <1>1, WordBack, Offsets, Zenon
<1>4. d \in Word /\ At(s, 0, 6) \o U16(d) = At(s, 0, 8)
  BY <1>1, WordBack, Offsets, Zenon
<1>5. e \in Long /\ At(s, 0, 8) \o U32(e) = At(s, 0, 12)
  BY LongBack, Offsets, Zenon
<1> HIDE DEF a, b, c, d, e, v
<1>6. RegistrationTyped(v)
  BY <1>2, <1>3, <1>4, <1>5 DEF RegistrationTyped
<1>7. RegistrationHead(v) = At(s, 0, 12)
  BY <1>2, <1>3, <1>4, <1>5 DEF RegistrationHead
<1>. QED BY <1>6, <1>7 DEF v

\* Any three texts behind the head, and more behind them, are read as they are.
LEMMA ThreeTextsWritten ==
  ASSUME NEW texts \in Seq(Element("text")), Len(texts) = 3,
         NEW u \in Seq(Byte), Len(u) = 12, NEW c \in Seq(Byte)
  PROVE  LET a == AllOf("text", texts)
             s == u \o (a \o c)
         IN  /\ a \in Seq(Byte) /\ 3 <= Len(a) /\ s \in Seq(Byte)
             /\ Len(s) = 12 + (Len(a) + Len(c)) /\ Continues(s, u)
             /\ ThreeTexts(s) = Got(texts, c)
<1> DEFINE a == AllOf("text", texts)
           t == a \o c
           s == u \o t
           n == 3
<1>1. a \in Seq(Byte) /\ n \in Nat /\ Len(texts) = n
  BY TextElement, AllOfTyped
<1>2. Len(a) >= n
  BY TextElement, TextLong, AllOfLong
<1> HIDE DEF n
<1>3. SomeOf("text", n, t, n) = Got(texts, c)
  BY <1>1, TextElement, ItemsWritten
<1> HIDE DEF a
<1>4. t \in Seq(Byte) /\ Len(t) = Len(a) + Len(c)
  BY <1>1, Joined
<1> HIDE DEF t
<1>5. s \in Seq(Byte) /\ Len(s) = Len(u) + Len(t) /\ Continues(s, u)
  BY <1>4, Appended
<1>6. Rest(s, 12) = t
  <2> DEFINE o == 12
  <2>1. o \in Nat /\ o = Len(u)
    OBVIOUS
  <2> HIDE DEF o
  <2>2. Rest(s, o) = t
    BY <1>4, <2>1, LeftBehind
  <2>. QED BY <2>2 DEF o
<1> HIDE DEF s
<1>7. ThreeTexts(s) = Got(texts, c)
  BY <1>3, <1>6 DEF ThreeTexts, n
<1>8. 3 <= Len(a) /\ Len(s) = 12 + (Len(a) + Len(c))
  <2>1. Len(a) \in Nat
    BY <1>1
  <2>. QED BY <1>2, <1>4, <1>5, <2>1 DEF n
<1>. QED BY <1>1, <1>5, <1>7, <1>8 DEF s, t, a

\* What was read as a registration is its head and its texts.
LEMMA RegistrationRead ==
  ASSUME NEW s \in Seq(Byte), RegistrationFits(s)
  PROVE  LET texts == ThreeTexts(s).value
             v     == RegistrationOf(s, texts)
         IN  /\ v \in Registration /\ v.texts = texts
             /\ texts \in Seq(Element("text")) /\ Len(texts) = 3
             /\ At(s, 0, 12) \in Seq(Byte) /\ Len(At(s, 0, 12)) = 12
             /\ RegistrationHead(v) = At(s, 0, 12)
             /\ At(s, 0, 12) \o AllOf("text", texts) = s
<1> DEFINE t == Rest(s, 12)
           all == ThreeTexts(s)
           texts == all.value
           v == RegistrationOf(s, texts)
           a == AllOf("text", texts)
           h == At(s, 0, 12)
           l == Len(s)
<1>1. 15 <= l /\ l \in Nat /\ Read(s, 0, 2) \in {AddServer, RemoveServer} /\ all.ok
      /\ all.rest = << >>
  BY DEF RegistrationFits
<1>2. t \in Seq(Byte) /\ h \in Seq(Byte) /\ Len(h) = 12 /\ h \o t = s
  <2> DEFINE o == 12
             m == l - o
  <2>1. o \in Nat /\ m \in Nat /\ l = o + m /\ 0 \in Nat /\ 0 + o <= Len(s)
    BY <1>1
  <2> HIDE DEF m, o
  <2>2. /\ Rest(s, o) \in Seq(Byte) /\ At(s, 0, o) \o Rest(s, o) = s
        /\ At(s, 0, o) \in Seq(Byte) /\ Len(At(s, 0, o)) = o
    BY <2>1, RestIs, Part
  <2>. QED BY <2>2 DEF o
<1> HIDE DEF t
<1>3. AreThere("text", t, all, 3)
  <2> DEFINE n == 3
  <2>1. n \in Nat /\ SomeOf("text", n, t, n).ok
    BY <1>1 DEF ThreeTexts, t
  <2> HIDE DEF n
  <2>2. AreThere("text", t, SomeOf("text", n, t, n), n)
    BY <1>2, <2>1, TextElement, TextBack, ItemsRead
  <2>. QED BY <2>2 DEF n, ThreeTexts, t
<1> HIDE DEF all
<1>4. texts \in Seq(Element("text")) /\ Len(texts) = 3 /\ t = a \o << >>
  BY <1>1, <1>3 DEF AreThere
<1>5. a \in Seq(Byte)
  BY <1>4, TextElement, AllOfTyped
<1> HIDE DEF a
<1>6. h \o a = s
  <2>1. a \o << >> = a
    BY <1>5
  <2>. QED BY <1>2, <1>4, <2>1
<1>7. RegistrationTyped(v) /\ RegistrationHead(v) = h
  <2>1. 12 <= Len(s)
    BY <1>1
  <2>. QED BY <2>1, RegistrationHeadBack
<1>8. v.texts = texts /\ v \in Registration
  <2>1. /\ v = [type |-> v.type, port |-> v.port, user_count |-> v.user_count,
                flags |-> v.flags, pass_id |-> v.pass_id, texts |-> v.texts]
        /\ v.texts = texts /\ v.type = Read(s, 0, 2)
    BY DEF RegistrationOf
  <2>2. texts \in Seq(Seq(Byte))
    <3>1. Element("text") \subseteq Seq(Byte)
      BY RunsAreSeqs DEF Element
    <3>. QED BY <1>4, <3>1, SeqMonotonic
  <2> HIDE DEF v, texts
  <2>. QED BY <1>1, <1>4, <1>7, <2>1, <2>2 DEF Registration, RegistrationTyped
<1>. QED BY <1>2, <1>4, <1>6, <1>7, <1>8 DEF all, a

LEMMA RegistrationFaithful == Faithful("registration")
<1>1. Holds("registration") = Registration
  BY DEF Holds
<1>2. Written("registration")
  <2> SUFFICES ASSUME NEW v \in Registration, Encode("registration", v).ok
               PROVE  /\ Encode("registration", v).value \in Seq(Byte)
                      /\ Decode("registration", Encode("registration", v).value) = Good(v)
    BY <1>1 DEF Written
  <2> DEFINE texts == v.texts
             a == AllOf("text", texts)
             u == RegistrationHead(v)
             w == u \o a
             s == u \o (a \o << >>)
  <2>1. texts \in Seq(Element("text")) /\ Encode("registration", v) = Good(w)
    BY RegistrationEncoded
  <2>2. /\ RegistrationTyped(v) /\ Len(texts) = 3 /\ v.type \in {AddServer, RemoveServer}
        /\ v = [type |-> v.type, port |-> v.port, user_count |-> v.user_count,
                flags |-> v.flags, pass_id |-> v.pass_id, texts |-> texts]
    <3>1. AddServer \in Word /\ RemoveServer \in Word
      BY TypesAssumption, Limits DEF AddServer, RemoveServer, NotFound, Word
    <3>. QED BY <3>1 DEF Registration, RegistrationTyped
  <2>3. /\ u \in Seq(Byte) /\ Len(u) = 12
        /\ Read(u, 0, 2) = v.type /\ Read(u, 2, 2) = v.port /\ Read(u, 4, 2) = v.user_count
        /\ Read(u, 6, 2) = v.flags /\ Read(u, 8, 4) = v.pass_id
    BY <2>2, RegistrationHeadWritten
  <2> HIDE DEF u, texts
  <2>4. << >> \in Seq(Byte) /\ Len(<< >>) = 0
    OBVIOUS
  <2>5. /\ a \in Seq(Byte) /\ 3 <= Len(a) /\ s \in Seq(Byte)
        /\ Len(s) = 12 + (Len(a) + Len(<< >>)) /\ Continues(s, u)
        /\ ThreeTexts(s) = Got(texts, << >>)
    BY <2>1, <2>2, <2>3, <2>4, ThreeTextsWritten
  <2>6. s = w
    <3> HIDE DEF a
    <3>1. a \o << >> = a
      BY <2>5
    <3>. QED BY <3>1
  <2> HIDE DEF s, w, a
  <2>7. /\ Read(s, 0, 2) = v.type /\ Read(s, 2, 2) = v.port /\ Read(s, 4, 2) = v.user_count
        /\ Read(s, 6, 2) = v.flags /\ Read(s, 8, 4) = v.pass_id
    BY <2>3, <2>5 DEF Continues, Read
  <2>8. RegistrationFits(s) /\ ThreeTexts(s).value = texts
    <3>1. 15 <= Len(s)
      <4>1. Len(a) \in Nat
        BY <2>5
      <4>. QED BY <2>4, <2>5, <4>1
    <3>2. ThreeTexts(s).ok /\ ThreeTexts(s).rest = << >> /\ ThreeTexts(s).value = texts
      BY <2>5, GotIs
    <3>. QED BY <2>2, <2>7, <3>1, <3>2 DEF RegistrationFits
  <2>9. RegistrationOf(s, texts) = v
    BY <2>2, <2>7 DEF RegistrationOf
  <2>10. Decode("registration", s) = Good(v)
    BY <2>5, <2>8, <2>9, RegistrationDecoded
  <2>. QED BY <2>1, <2>5, <2>6, <2>10, GoodIs
<1>3. Understood("registration")
  <2> SUFFICES ASSUME NEW s \in Seq(Byte), Decode("registration", s).ok
               PROVE  Encode("registration", Decode("registration", s).value) = Good(s)
    BY DEF Understood
  <2> DEFINE v == RegistrationOf(s, ThreeTexts(s).value)
  <2>1. RegistrationFits(s) /\ Decode("registration", s).value = v
    BY RegistrationDecoded, GoodIs
  <2>2. /\ v \in Registration /\ v.texts \in Seq(Element("text"))
        /\ RegistrationHead(v) \o AllOf("text", v.texts) = s
    BY <2>1, RegistrationRead
  <2> HIDE DEF v
  <2>. QED BY <2>1, <2>2, RegistrationEncoded
<1>4. Ended("registration")
  <2> SUFFICES ASSUME NEW s \in Seq(Byte), NEW n \in Nat, n < Len(s),
                      Decode("registration", s).ok, Decode("registration", First(s, n)).ok
               PROVE  FALSE
    BY DEF Ended
  <2> DEFINE x == First(s, n)
             c == Rest(s, n)
             m == Len(s) - n
             u == At(x, 0, 12)
             texts == ThreeTexts(x).value
             a == AllOf("text", texts)
  <2>1. x \in Seq(Byte) /\ Len(x) = n
    BY Shorter
  <2>2. x = At(s, 0, n)
    <3>1. 0 + 1 = 1 /\ 0 + n = n
      OBVIOUS
    <3>. QED BY <3>1 DEF First, At
  <2>3. m \in Nat /\ m # 0 /\ Len(s) = n + m
    OBVIOUS
  <2> HIDE DEF m
  <2>4. c \in Seq(Byte) /\ Len(c) = m /\ At(s, 0, n) \o c = s
    BY <2>3, RestIs
  <2>5. c # << >>
    BY <2>3, <2>4
  <2>6. RegistrationFits(x) /\ ThreeTexts(s).rest = << >>
    BY <2>1, RegistrationDecoded DEF RegistrationFits
  <2> HIDE DEF x, c
  <2>7. /\ texts \in Seq(Element("text")) /\ Len(texts) = 3
        /\ u \in Seq(Byte) /\ Len(u) = 12 /\ u \o a = x
    BY <2>1, <2>6, RegistrationRead
  <2> HIDE DEF u, texts
  <2>8. a \in Seq(Byte) /\ ThreeTexts(u \o (a \o c)) = Got(texts, c)
    BY <2>4, <2>7, ThreeTextsWritten
  <2> HIDE DEF a
  <2>9. u \o (a \o c) = s
    <3>1. u \in Seq(Byte) /\ a \in Seq(Byte) /\ c \in Seq(Byte)
      BY <2>4, <2>7, <2>8
    <3>2. u \o (a \o c) = (u \o a) \o c
      BY <3>1, Associative
    <3>3. (u \o a) \o c = s
      BY <2>2, <2>4, <2>7
    <3>. QED BY <3>2, <3>3
  <2>10. ThreeTexts(s).rest = c
    BY <2>8, <2>9, GotIs
  <2>. QED BY <2>5, <2>6, <2>10
<1>. QED BY <1>2, <1>3, <1>4 DEF Faithful
=============================================================================
