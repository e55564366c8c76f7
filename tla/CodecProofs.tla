----------------------------- MODULE CodecProofs -----------------------------
(***************************************************************************)
(* What is kept of a message of hotline/protocol on its way, for all kinds *)
(* of messages: those of RecordProofs and ListProofs, and the ones whose   *)
(* elements have reserved bytes between them, are found by their place or  *)
(* are looked for.                                                         *)
(*                                                                         *)
(* In this order: that more bytes behind a message change nothing of what  *)
(* its front is read as, so that a part of one is refused; that every      *)
(* decoder answers and every encoder makes bytes; flat files, archives,    *)
(* access masks, arrays, information forks, resume records, messages of    *)
(* HOPE and digests, written and read again; and, at the end, the          *)
(* invariants of the way of a message and the theorems.                    *)
(***************************************************************************)
EXTENDS ListProofs

-----------------------------------------------------------------------------
(* More bytes behind a message.                                            *)

\* Any number of bytes is a number.
LEMMA UptoIsNat ==
  ASSUME NEW s \in Seq(Byte), NEW n \in Nat, n <= Len(s)
  PROVE  Upto(s, n) \in Nat
<1> DEFINE K == {k \in Nat : k <= Len(s) => Upto(s, k) \in Nat}
<1>1. s \in Seq(Int) /\ \A i \in 1..Len(s) : s[i] \in 0..(Base - 1)
  BY BytesAreNumbers
<1>2. 0 \in K
  BY <1>1, UptoNone
<1>3. ASSUME NEW k \in K
      PROVE  k + 1 \in K
  <2> SUFFICES ASSUME k + 1 <= Len(s)
               PROVE  Upto(s, k + 1) \in Nat
    OBVIOUS
  <2>1. k \in Nat /\ Upto(s, k) \in Nat /\ k + 1 \in Nat /\ k + 1 \in 1..Len(s)
    OBVIOUS
  <2>2. Upto(s, k + 1) = Upto(s, k) * Base + s[k + 1]
    BY <1>1, <2>1, UptoNext
  <2>3. s[k + 1] \in Nat
    BY <1>1, <2>1, Limits
  <2>4. Upto(s, k) * Base \in Nat
    BY <2>1, Limits
  <2>. QED BY <2>2, <2>3, <2>4
<1>4. K = Nat
  <2>1. K \in SUBSET Nat
    OBVIOUS
  <2> HIDE DEF K
  <2>. QED BY <1>2, <1>3, <2>1, Induction
<1>. QED BY <1>4

LEMMA NumberIsNat ==
  ASSUME NEW s \in Seq(Byte)
  PROVE  Number(s) \in Nat
<1>1. Len(s) \in Nat /\ s \in Seq(Int)
  BY BytesAreNumbers
<1>2. Upto(s, Len(s)) \in Nat
  BY <1>1, UptoIsNat
<1>. QED BY <1>1, <1>2, UptoAll

LEMMA ReadNat ==
  ASSUME NEW s \in Seq(Byte), NEW o \in Nat, NEW n \in Nat, o + n <= Len(s)
  PROVE  Read(s, o, n) \in Nat
BY Part, NumberIsNat DEF Read

LEMMA AtMore ==
  ASSUME NEW s \in Seq(Byte), NEW c \in Seq(Byte), NEW o \in Nat, NEW n \in Nat, o + n <= Len(s)
  PROVE  At(s \o c, o, n) = At(s, o, n) /\ Read(s \o c, o, n) = Read(s, o, n)
<1> DEFINE w == s \o c
<1>1. Continues(w, s)
  BY Appended
<1> HIDE DEF w
<1>2. At(w, o, n) = At(s, o, n)
  BY <1>1 DEF Continues
<1>. QED BY <1>2 DEF Read, w

LEMMA RestMore ==
  ASSUME NEW s \in Seq(Byte), NEW c \in Seq(Byte), NEW o \in Nat, o <= Len(s)
  PROVE  /\ Rest(s, o) \in Seq(Byte) /\ Rest(s \o c, o) = Rest(s, o) \o c
         /\ Len(Rest(s, o)) = Len(s) - o
<1> DEFINE u == At(s, 0, o)
           v == Rest(s, o)
           n == Len(s) - o
<1>1. n \in Nat /\ Len(s) = o + n
  OBVIOUS
<1> HIDE DEF n
<1>2. v \in Seq(Byte) /\ u \o v = s /\ Len(v) = n
  BY <1>1, RestIs
<1>3. u \in Seq(Byte) /\ Len(u) = o
  <2>1. 0 \in Nat /\ 0 + o <= Len(s)
    OBVIOUS
  <2>. QED BY <2>1, Part
<1> HIDE DEF u, v
<1>4. v \o c \in Seq(Byte)
  BY <1>2, Joined
<1>5. Rest(u \o (v \o c), o) = v \o c
  <2> DEFINE d == v \o c
  <2>1. d \in Seq(Byte)
    BY <1>4
  <2> HIDE DEF d
  <2>2. Rest(u \o d, o) = d
    BY <1>3, <2>1, LeftBehind
  <2>. QED BY <2>2 DEF d
<1>6. u \o (v \o c) = (u \o v) \o c
  <2>1. u \in Seq(Byte) /\ v \in Seq(Byte) /\ c \in Seq(Byte)
    BY <1>2, <1>3
  <2>. QED BY <2>1, Associative
<1>7. Rest(s \o c, o) = v \o c
  BY <1>2, <1>5, <1>6
<1>. QED BY <1>2, <1>7 DEF v, n

\* A counted run of bytes: where it is, and what is behind it.
LEMMA CountedOk ==
  ASSUME NEW s \in Seq(Byte), NEW o \in Nat, NEW n \in Nat, Counted(s, o, n).ok
  PROVE  LET m == Read(s, o, n)
             p == o + n
         IN  /\ m \in Nat /\ p \in Nat /\ p + m <= Len(s)
             /\ Counted(s, o, n) = Got(At(s, p, m), Rest(s, p + m))
             /\ At(s, p, m) \in Seq(Byte) /\ Len(At(s, p, m)) = m
             /\ Rest(s, p + m) \in Seq(Byte) /\ Len(Rest(s, p + m)) = Len(s) - (p + m)
<1> DEFINE m == Read(s, o, n)
           p == o + n
           l == Len(s)
<1>1. ~ Truncated.ok
  BY DEF Truncated, Fail
<1>2. p \in Nat /\ l \in Nat /\ p <= l
  <2>1. ~ (l < o + n)
    BY <1>1 DEF Counted
  <2>. QED BY <2>1
<1>3. m \in Nat
  BY <1>2, ReadNat
<1>4. Counted(s, o, n) = IF l < p + m THEN Truncated ELSE Got(At(s, p, m), Rest(s, p + m))
  BY <1>2 DEF Counted
<1> HIDE DEF m, p, l
<1>5. p + m <= l /\ Counted(s, o, n) = Got(At(s, p, m), Rest(s, p + m))
  <2>1. ~ (l < p + m)
    BY <1>1, <1>4
  <2>. QED BY <1>2, <1>3, <1>4, <2>1
<1>6. At(s, p, m) \in Seq(Byte) /\ Len(At(s, p, m)) = m
  BY <1>2, <1>3, <1>5, Part DEF l
<1>7. Rest(s, p + m) \in Seq(Byte) /\ Len(Rest(s, p + m)) = l - (p + m)
  <2> DEFINE q == p + m
             r == l - q
  <2>1. q \in Nat /\ r \in Nat /\ l = q + r
    BY <1>2, <1>3, <1>5
  <2> HIDE DEF q, r
  <2>2. Rest(s, q) \in Seq(Byte) /\ Len(Rest(s, q)) = r
    BY <2>1, RestIs DEF l
  <2>. QED BY <2>2 DEF q, r
<1>. QED BY <1>2, <1>3, <1>5, <1>6, <1>7 DEF m, p, l

LEMMA CountedLong ==
  ASSUME NEW s \in Seq(Byte), NEW o \in Nat, NEW n \in Nat, Counted(s, o, n).ok
  PROVE  o + n <= Len(s)
<1>1. ~ Truncated.ok
  BY DEF Truncated, Fail
<1>2. ~ (Len(s) < o + n)
  BY <1>1 DEF Counted
<1>. QED BY <1>2

LEMMA CountedMore ==
  ASSUME NEW s \in Seq(Byte), NEW c \in Seq(Byte), NEW o \in Nat, NEW n \in Nat,
         Counted(s, o, n).ok
  PROVE  /\ Counted(s \o c, o, n) = Got(Counted(s, o, n).value, Counted(s, o, n).rest \o c)
         /\ Counted(s, o, n).value \in Seq(Byte) /\ Counted(s, o, n).rest \in Seq(Byte)
<1> DEFINE m == Read(s, o, n)
           p == o + n
           q == p + m
           w == s \o c
           g == Counted(s, o, n)
<1>1. /\ m \in Nat /\ p \in Nat /\ q <= Len(s) /\ g = Got(At(s, p, m), Rest(s, q))
      /\ At(s, p, m) \in Seq(Byte) /\ Rest(s, q) \in Seq(Byte)
  BY CountedOk
<1> HIDE DEF m, g
<1>2. q \in Nat /\ p <= Len(s)
  BY <1>1
<1>3. w \in Seq(Byte) /\ Len(w) = Len(s) + Len(c) /\ Len(c) \in Nat /\ Len(s) \in Nat
  BY Joined
<1>4. At(w, p, m) = At(s, p, m) /\ Read(w, o, n) = m
  BY <1>1, <1>2, AtMore DEF m
<1>5. Rest(w, q) = Rest(s, q) \o c
  BY <1>1, <1>2, RestMore
<1> HIDE DEF w
<1>6. Counted(w, o, n) = Got(At(w, p, m), Rest(w, q))
  <2>1. q <= Len(w) /\ p <= Len(w)
    BY <1>1, <1>2, <1>3
  <2> HIDE DEF p
  <2>2. p = o + n
    BY DEF p
  <2>. QED BY <1>1, <1>2, <1>3, <1>4, <2>1, <2>2, CountedIs
<1> HIDE DEF q, p
<1>7. g.value = At(s, p, m) /\ g.rest = Rest(s, q)
  BY <1>1, GotIs
<1>8. Counted(w, o, n) = Got(g.value, g.rest \o c)
  BY <1>4, <1>5, <1>6, <1>7
<1>. QED BY <1>1, <1>7, <1>8 DEF g, w

\* More bytes behind an element are behind it when it was read.
Stable(r) ==
  \A s \in Seq(Byte), c \in Seq(Byte) :
    ReadOne(r, s).ok =>
      /\ ReadOne(r, s).rest \in Seq(Byte)
      /\ ReadOne(r, s \o c) = Got(ReadOne(r, s).value, ReadOne(r, s).rest \o c)

LEMMA SomeOfMore ==
  ASSUME NEW r, Stable(r), NEW n \in Nat, NEW s \in Seq(Byte), NEW c \in Seq(Byte),
         SomeOf(r, n, s, n).ok
  PROVE  /\ SomeOf(r, n, s, n).rest \in Seq(Byte)
         /\ SomeOf(r, n, s \o c, n) = Got(SomeOf(r, n, s, n).value, SomeOf(r, n, s, n).rest \o c)
<1> DEFINE w == s \o c
           Same(m) == /\ SomeOf(r, n, s, m).rest \in Seq(Byte)
                      /\ SomeOf(r, n, w, m)
                           = Got(SomeOf(r, n, s, m).value, SomeOf(r, n, s, m).rest \o c)
           K == {m \in Nat : m <= n /\ SomeOf(r, n, s, m).ok => Same(m)}
<1>1. 0 \in K
  <2>1. SomeOf(r, n, s, 0) = Got(<< >>, s) /\ SomeOf(r, n, w, 0) = Got(<< >>, w)
    BY NoneOf
  <2>2. SomeOf(r, n, s, 0).value = << >> /\ SomeOf(r, n, s, 0).rest = s
    BY <2>1, GotIs
  <2>. QED BY <2>1, <2>2
<1>2. ASSUME NEW m \in K
      PROVE  m + 1 \in K
  <2> DEFINE most == SomeOf(r, n, s, m)
             one == ReadOne(r, most.rest)
             more == SomeOf(r, n, w, m)
             next == SomeOf(r, n, s, m + 1)
             longer == SomeOf(r, n, w, m + 1)
  <2> SUFFICES ASSUME m + 1 <= n, next.ok
               PROVE  next.rest \in Seq(Byte) /\ longer = Got(next.value, next.rest \o c)
    OBVIOUS
  <2>1. m \in Nat /\ m <= n
        /\ (most.ok => most.rest \in Seq(Byte) /\ more = Got(most.value, most.rest \o c))
    OBVIOUS
  <2>2. next = AndNext(r, most) /\ longer = AndNext(r, more)
    BY <2>1, OneMoreOf
  <2> HIDE DEF K, most, one, more, next, longer
  <2> DEFINE v == one.value
             d == one.rest
             a == Append(most.value, v)
             f == most.rest \o c
             e == d \o c
  <2>3. most.ok /\ one.ok /\ next = Got(a, d)
    <3>1. most.ok /\ one.ok
      BY <2>2 DEF AndNext, one
    <3>. QED BY <2>2, <3>1 DEF AndNext, one
  <2>4. d \in Seq(Byte) /\ ReadOne(r, f) = Got(v, e)
    BY <2>1, <2>3 DEF Stable, one
  <2>5. more = Got(most.value, f)
    BY <2>1, <2>3
  <2> HIDE DEF f, e
  <2>6. more.ok /\ more.value = most.value /\ more.rest = f
    BY <2>5, GotIs
  <2>7. Got(v, e).ok /\ Got(v, e).value = v /\ Got(v, e).rest = e
    BY GotIs
  <2>8. longer = Got(a, e)
    BY <2>2, <2>4, <2>6, <2>7 DEF AndNext
  <2> HIDE DEF a
  <2>9. next.value = a /\ next.rest = d
    BY <2>3, GotIs
  <2>10. longer = Got(next.value, next.rest \o c)
    BY <2>8, <2>9 DEF e
  <2>. QED BY <2>4, <2>9, <2>10
<1>3. K = Nat
  <2>1. K \in SUBSET Nat
    OBVIOUS
  <2> HIDE DEF K
  <2>. QED BY <1>1, <1>2, <2>1, Induction
<1>. QED BY <1>3

\* With more behind it, what was a message is none.
Sharp(k) ==
  \A s \in Seq(Byte), c \in Seq(Byte) :
    Decode(k, s).ok /\ c # << >> => ~ Decode(k, s \o c).ok

LEMMA SharpEnds ==
  ASSUME NEW k, Sharp(k)
  PROVE  Ended(k)
<1> SUFFICES ASSUME NEW s \in Seq(Byte), NEW n \in Nat, n < Len(s), Decode(k, s).ok,
                    Decode(k, First(s, n)).ok
             PROVE  FALSE
  BY DEF Ended
<1> DEFINE t == First(s, n)
           c == Rest(s, n)
           m == Len(s) - n
<1>1. t \in Seq(Byte)
  BY Shorter
<1>2. t = At(s, 0, n)
  <2>1. 0 + 1 = 1 /\ 0 + n = n
    OBVIOUS
  <2>. QED BY <2>1 DEF First, At
<1>3. m \in Nat /\ m # 0 /\ Len(s) = n + m
  OBVIOUS
<1> HIDE DEF m
<1>4. c \in Seq(Byte) /\ Len(c) = m /\ At(s, 0, n) \o c = s
  BY <1>3, RestIs
<1>5. c # << >> /\ Decode(k, t).ok
  BY <1>3, <1>4
<1> HIDE DEF t, c
<1>6. ~ Decode(k, t \o c).ok
  BY <1>1, <1>4, <1>5 DEF Sharp
<1>7. t \o c = s
  BY <1>2, <1>4
<1>. QED BY <1>6, <1>7

-----------------------------------------------------------------------------
(* The answers of decoders.                                                *)

Answers(g) == g.ok \in BOOLEAN

LEMMA AnswersAre ==
  /\ \A e : Answers(Fail(e))
  /\ \A v : Answers(Good(v))
  /\ \A v, d : Answers(Got(v, d))
  /\ Answers(Truncated)
BY DEF Answers, Fail, Truncated, Good, Got

LEMMA CountedAnswers ==
  ASSUME NEW s, NEW o, NEW n
  PROVE  Answers(Counted(s, o, n))
<1> DEFINE g(v, d) == Got(v, d)
<1>1. \A v, d : Answers(g(v, d))
  BY AnswersAre
<1>2. Answers(Truncated)
  BY AnswersAre
<1>3. \/ Counted(s, o, n) = Truncated
      \/ \E v, d : Counted(s, o, n) = g(v, d)
  BY DEF Counted
<1> HIDE DEF g
<1>. QED BY <1>1, <1>2, <1>3

LEMMA ExactlyAnswers ==
  ASSUME NEW s, NEW size
  PROVE  Answers(Exactly(s, size))
BY AnswersAre DEF Exactly

LEMMA WholeAnswers ==
  ASSUME NEW g, Answers(g)
  PROVE  Answers(Whole(g))
BY AnswersAre DEF Whole, Then

\* An element is read or not, and what is behind it are bytes.
Answering(r) ==
  \A s \in Seq(Byte) :
    /\ Answers(ReadOne(r, s))
    /\ ReadOne(r, s).ok => ReadOne(r, s).rest \in Seq(Byte)

LEMMA SomeOfAnswers ==
  ASSUME NEW r, Answering(r), NEW n \in Nat, NEW s \in Seq(Byte)
  PROVE  /\ Answers(SomeOf(r, n, s, n))
         /\ SomeOf(r, n, s, n).ok => SomeOf(r, n, s, n).rest \in Seq(Byte)
<1> DEFINE Sound(g) == Answers(g) /\ (g.ok => g.rest \in Seq(Byte))
           K == {m \in Nat : m <= n => Sound(SomeOf(r, n, s, m))}
<1>1. 0 \in K
  <2>1. SomeOf(r, n, s, 0) = Got(<< >>, s)
    BY NoneOf
  <2>2. SomeOf(r, n, s, 0).rest = s
    BY <2>1, GotIs
  <2>. QED BY <2>1, <2>2, AnswersAre
<1>2. ASSUME NEW m \in K
      PROVE  m + 1 \in K
  <2> DEFINE most == SomeOf(r, n, s, m)
             one == ReadOne(r, most.rest)
             a == Append(most.value, one.value)
             next == SomeOf(r, n, s, m + 1)
  <2> SUFFICES ASSUME m + 1 <= n
               PROVE  Sound(next)
    OBVIOUS
  <2>1. m \in Nat /\ m <= n /\ Sound(most)
    OBVIOUS
  <2>2. next = IF most.ok THEN IF one.ok THEN Got(a, one.rest) ELSE one ELSE most
    BY <2>1, OneMoreOf DEF AndNext
  <2>3. most.ok => Sound(one)
    BY <2>1 DEF Answering
  <2> HIDE DEF a, one, most, next
  <2>4. Got(a, one.rest).rest = one.rest /\ Answers(Got(a, one.rest))
    BY GotIs, AnswersAre
  <2>. QED BY <2>1, <2>2, <2>3, <2>4
<1>3. K = Nat
  <2>1. K \in SUBSET Nat
    OBVIOUS
  <2> HIDE DEF K
  <2>. QED BY <1>1, <1>2, <2>1, Induction
<1>. QED BY <1>3

\* More bytes behind a fork, and behind an entry, leave them as they are.
LEMMA ForkStable == Stable("fork")
<1> SUFFICES ASSUME NEW s \in Seq(Byte), NEW c \in Seq(Byte), ReadOne("fork", s).ok
             PROVE  /\ ReadOne("fork", s).rest \in Seq(Byte)
                    /\ ReadOne("fork", s \o c)
                         = Got(ReadOne("fork", s).value, ReadOne("fork", s).rest \o c)
  BY DEF Stable
<1> DEFINE o == 12
           w == s \o c
           g == Counted(s, o, 4)
           h == Counted(w, o, 4)
           Of(t, d) == [type |-> Read(t, 0, 4), compression |-> Read(t, 4, 4), data |-> d]
<1>1. \A t : ReadOne("fork", t)
               = IF Counted(t, o, 4).ok
                 THEN Got(Of(t, Counted(t, o, 4).value), Counted(t, o, 4).rest)
                 ELSE Counted(t, o, 4)
  BY DEF ReadOne, ReadFork, Then, ForkHeaderSize
<1>2. o \in Nat /\ 4 \in Nat /\ 0 \in Nat /\ \A l \in Nat : o + 4 <= l => 0 + 4 <= l /\ 4 + 4 <= l
  OBVIOUS
<1> HIDE DEF o
<1>3. g.ok
  BY <1>1
<1>4. h = Got(g.value, g.rest \o c) /\ g.rest \in Seq(Byte)
  BY <1>2, <1>3, CountedMore
<1>5. o + 4 <= Len(s)
  BY <1>2, <1>3, CountedLong
<1>6. Read(w, 0, 4) = Read(s, 0, 4) /\ Read(w, 4, 4) = Read(s, 4, 4)
  <2>1. 0 + 4 <= Len(s) /\ 4 + 4 <= Len(s)
    BY <1>2, <1>5
  <2>. QED BY <1>2, <2>1, AtMore
<1> DEFINE d == g.rest \o c
<1>11. h = Got(g.value, d)
  BY <1>4
<1> HIDE DEF w, g, h, d
<1>7. h.ok /\ h.value = g.value /\ h.rest = d
  BY <1>11, GotIs
<1>8. ReadOne("fork", s) = Got(Of(s, g.value), g.rest)
  BY <1>1, <1>3 DEF g
<1>9. ReadOne("fork", w) = Got(Of(s, g.value), d)
  BY <1>1, <1>6, <1>7 DEF h
<1>10. ReadOne("fork", s).value = Of(s, g.value) /\ ReadOne("fork", s).rest = g.rest
  <2> HIDE DEF Of
  <2>. QED BY <1>8, GotIs
<1>. QED BY <1>4, <1>9, <1>10 DEF w, d

LEMMA EntryStable == Stable("entry")
<1> SUFFICES ASSUME NEW s \in Seq(Byte), NEW c \in Seq(Byte), ReadOne("entry", s).ok
             PROVE  /\ ReadOne("entry", s).rest \in Seq(Byte)
                    /\ ReadOne("entry", s \o c)
                         = Got(ReadOne("entry", s).value, ReadOne("entry", s).rest \o c)
  BY DEF Stable
<1> DEFINE w == s \o c
           Path(t) == Counted(t, 8, 2)
           Names(t) == ReadPath(Path(t).value)
           Reserved(t) == Counted(Path(t).rest, 0, 2)
           Payload(t) == Counted(Reserved(t).rest, 8, 4)
           Of(t, p, u, d) == [type |-> Read(t, 0, 4), path |-> ReadPath(p).value,
                           reserved |-> u.value,
                           compression_type |-> Read(u.rest, 0, 4),
                           decompressed_size |-> Read(u.rest, 4, 4), payload |-> d]
<1>1. \A t : ReadOne("entry", t)
               = IF Path(t).ok THEN IF Names(t).ok THEN IF Reserved(t).ok THEN IF Payload(t).ok
                 THEN Got(Of(t, Path(t).value, Reserved(t), Payload(t).value), Payload(t).rest)
                 ELSE Payload(t) ELSE Reserved(t) ELSE Names(t) ELSE Path(t)
  BY DEF ReadOne, ReadEntryOf, Then
<1>2. Path(s).ok /\ Names(s).ok /\ Reserved(s).ok /\ Payload(s).ok
  <2> HIDE DEF Path, Names, Reserved, Payload, Of
  <2>. QED BY <1>1
<1>3. 0 \in Nat /\ 2 \in Nat /\ 4 \in Nat /\ 8 \in Nat
      /\ \A l \in Nat : (8 + 2 <= l => 0 + 4 <= l) /\ (8 + 4 <= l => 0 + 4 <= l /\ 4 + 4 <= l)
  OBVIOUS
<1> DEFINE p == Path(s)
           u == Reserved(s)
           g == Payload(s)
           pc == p.rest \o c
           uc == u.rest \o c
           gc == g.rest \o c
<1>4. p.rest \in Seq(Byte) /\ Path(w) = Got(p.value, pc)
  BY <1>2, <1>3, CountedMore
<1>5. u.rest \in Seq(Byte) /\ Counted(pc, 0, 2) = Got(u.value, uc)
  <2> DEFINE pr == p.rest
  <2>1. u = Counted(pr, 0, 2) /\ u.ok /\ pr \in Seq(Byte)
    BY <1>2, <1>4
  <2> HIDE DEF p, pr, u
  <2>2. u.rest \in Seq(Byte) /\ Counted(pr \o c, 0, 2) = Got(u.value, u.rest \o c)
    BY <1>3, <2>1, CountedMore
  <2>. QED BY <2>2 DEF pr
<1>6. g.rest \in Seq(Byte) /\ Counted(uc, 8, 4) = Got(g.value, gc)
  <2> DEFINE ur == u.rest
  <2>1. g = Counted(ur, 8, 4) /\ g.ok /\ ur \in Seq(Byte)
    BY <1>2, <1>5
  <2> HIDE DEF u, ur, g
  <2>2. g.rest \in Seq(Byte) /\ Counted(ur \o c, 8, 4) = Got(g.value, g.rest \o c)
    BY <1>3, <2>1, CountedMore
  <2>. QED BY <2>2 DEF ur
<1>7. Read(w, 0, 4) = Read(s, 0, 4)
  <2>1. 8 + 2 <= Len(s)
    BY <1>2, <1>3, CountedLong
  <2>2. 0 + 4 <= Len(s)
    BY <1>3, <2>1
  <2>. QED BY <1>3, <2>2, AtMore
<1>8. Read(uc, 0, 4) = Read(u.rest, 0, 4) /\ Read(uc, 4, 4) = Read(u.rest, 4, 4)
  <2> DEFINE ur == u.rest
  <2>1. g = Counted(ur, 8, 4) /\ ur \in Seq(Byte)
    BY <1>5
  <2> HIDE DEF u, ur
  <2>2. 8 + 4 <= Len(ur)
    BY <1>2, <1>3, <2>1, CountedLong
  <2>3. 0 + 4 <= Len(ur) /\ 4 + 4 <= Len(ur)
    BY <1>3, <2>1, <2>2
  <2>4. Read(ur \o c, 0, 4) = Read(ur, 0, 4) /\ Read(ur \o c, 4, 4) = Read(ur, 4, 4)
    BY <1>3, <2>1, <2>3, AtMore
  <2>. QED BY <2>4 DEF ur
<1> HIDE DEF w, pc, uc, gc
<1>9. Path(w).ok /\ Path(w).value = p.value /\ Path(w).rest = pc
  <2>1. Path(w) = Got(p.value, pc)
    BY <1>4
  <2> HIDE DEF Path, p
  <2>. QED BY <2>1, GotIs
<1>10. Reserved(w).ok /\ Reserved(w).value = u.value /\ Reserved(w).rest = uc
  <2>1. Reserved(w) = Got(u.value, uc)
    BY <1>5, <1>9
  <2> HIDE DEF Reserved, u
  <2>. QED BY <2>1, GotIs
<1>11. Payload(w).ok /\ Payload(w).value = g.value /\ Payload(w).rest = gc
  <2>1. Payload(w) = Got(g.value, gc)
    BY <1>6, <1>10
  <2> HIDE DEF Payload, g
  <2>. QED BY <2>1, GotIs
<1>12. Names(w) = Names(s) /\ Names(w).ok
  BY <1>2, <1>9
<1> DEFINE v == Of(s, p.value, u, g.value)
<1>13. Of(w, Path(w).value, Reserved(w), Payload(w).value) = v
  <2> HIDE DEF Path, Reserved, Payload, p, u, g
  <2>. QED BY <1>7, <1>8, <1>9, <1>10, <1>11
<1> HIDE DEF Path, Names, Reserved, Payload, Of, v
<1>14. ReadOne("entry", w) = Got(v, gc)
  BY <1>1, <1>9, <1>10, <1>11, <1>12, <1>13
<1>15. ReadOne("entry", s) = Got(v, g.rest)
  BY <1>1, <1>2 DEF v
<1>16. ReadOne("entry", s).value = v /\ ReadOne("entry", s).rest = g.rest
  <2> HIDE DEF g
  <2>. QED BY <1>15, GotIs
<1>. QED BY <1>6, <1>14, <1>16 DEF w, gc

LEMMA PathAnswers ==
  ASSUME NEW s \in Seq(Byte), Answering("component")
  PROVE  Answers(ReadPath(s))
<1>1. CASE Len(s) < 2
  BY <1>1, AnswersAre DEF ReadPath
<1>2. CASE ~ (Len(s) < 2)
  <2> DEFINE n == Read(s, 0, 2)
             t == Rest(s, 2)
  <2>1. n \in Nat
    BY <1>2, ReadNat
  <2>2. t \in Seq(Byte)
    BY <1>2, RestMore
  <2>3. ReadPath(s) = Whole(Items(n, t, ReadComponent))
    BY <1>2 DEF ReadPath
  <2> HIDE DEF n, t
  <2>4. Items(n, t, ReadComponent) = SomeOf("component", n, t, n)
    BY <2>1, ComponentsAre
  <2>. QED BY <2>1, <2>2, <2>3, <2>4, SomeOfAnswers, WholeAnswers
<1>. QED BY <1>1, <1>2

LEMMA AnsweringAll == \A r \in Elements : Answering(r)
<1>1. ASSUME NEW s, NEW o, NEW n
      PROVE  Answers(Counted(s, o, n))
  BY CountedAnswers
<1>2. Answering("field")
  <2>1. \A s : Answers(ReadOne("field", s))
    BY <1>1, AnswersAre DEF ReadOne, ReadField, Then
  <2>. QED BY <2>1, FieldBack DEF Answering, ElementRead
<1>3. Answering("text")
  <2>1. \A s : Answers(ReadOne("text", s))
    BY <1>1 DEF ReadOne, ReadPString
  <2>. QED BY <2>1, TextBack DEF Answering, ElementRead
<1>4. Answering("component")
  <2>1. \A s : Answers(ReadOne("component", s))
    BY <1>1, AnswersAre DEF ReadOne, ReadComponent, Then
  <2>. QED BY <2>1, ComponentBack DEF Answering, ElementRead
<1>5. Answering("fork")
  <2>1. \A s : Answers(ReadOne("fork", s))
    BY <1>1, AnswersAre DEF ReadOne, ReadFork, Then
  <2>2. << >> \in Seq(Byte)
    OBVIOUS
  <2>. QED BY <2>1, <2>2, ForkStable DEF Answering, Stable
<1>6. Answering("server")
  <2>1. ASSUME NEW s \in Seq(Byte)
        PROVE  Answers(ReadOne("server", s))
    <3> DEFINE texts == SomeOf("text", 2, Rest(s, 10), 2)
    <3>1. ReadOne("server", s) = IF Len(s) < 12 THEN Truncated
                                 ELSE IF texts.ok
                                      THEN Got(ServerOf(s, texts.value), texts.rest) ELSE texts
      BY ServerRead
    <3>2. ~ (Len(s) < 12) => Answers(texts)
      <4>1. ~ (Len(s) < 12) => Rest(s, 10) \in Seq(Byte)
        BY RestMore
      <4>. QED BY <1>3, <4>1, SomeOfAnswers
    <3> HIDE DEF texts
    <3>. QED BY <3>1, <3>2, AnswersAre
  <2>. QED BY <2>1, ServerBack DEF Answering, ElementRead
<1>7. Answering("entry")
  <2>1. ASSUME NEW s \in Seq(Byte)
        PROVE  Answers(ReadOne("entry", s))
    <3> DEFINE path == Counted(s, 8, 2)
               names == ReadPath(path.value)
               reserved == Counted(path.rest, 0, 2)
               payload == Counted(reserved.rest, 8, 4)
    <3>1. path.ok => Answers(names)
      <4> SUFFICES ASSUME path.ok
                   PROVE  Answers(names)
        OBVIOUS
      <4> DEFINE p == path.value
      <4>1. p \in Seq(Byte)
        <5>1. 8 \in Nat /\ 2 \in Nat
          OBVIOUS
        <5>. QED BY <5>1, CountedMore
      <4> HIDE DEF path, p
      <4>. QED BY <1>4, <4>1, PathAnswers DEF p
    <3>2. Answers(path) /\ Answers(reserved) /\ Answers(payload)
      BY <1>1
    <3>3. ReadOne("entry", s) = ReadEntryOf(s)
      BY DEF ReadOne
    <3>4. \A v, d : Answers(Got(v, d))
      BY AnswersAre
    <3>. QED BY <3>1, <3>2, <3>3, <3>4 DEF ReadEntryOf, Then
  <2>2. << >> \in Seq(Byte)
    OBVIOUS
  <2>. QED BY <2>1, <2>2, EntryStable DEF Answering, Stable
<1>. QED BY <1>2, <1>3, <1>4, <1>5, <1>6, <1>7, Zenon DEF Elements

\* Every decoder returns a value or an error.
LEMMA RecordAnswers ==
  ASSUME NEW s \in Seq(Byte),
         NEW k \in {"command", "reply", "hello", "greeting", "header", "transaction", "stamp",
                    "guid", "user", "integer", "scrambled", "file", "handshake", "md5", "sha1",
                    "info", "resume", "folder_resume", "access", "ivar"}
  PROVE  Answers(Decode(k, s))
<1>1. \A o, n : Answers(Counted(s, o, n))
  BY CountedAnswers
<1>2. \A t, size : Answers(Exactly(t, size))
  BY ExactlyAnswers
<1>3. \A e : Answers(Fail(e))
  BY AnswersAre
<1>4. \A v : Answers(Good(v))
  BY AnswersAre
<1>5. \A v, d : Answers(Got(v, d))
  BY AnswersAre
<1>6. Answers(Truncated)
  BY AnswersAre
<1>7. \A g : Answers(g) => Answers(Whole(g))
  BY WholeAnswers
<1>8. CASE k = "command"
  BY <1>2, <1>4, <1>8 DEF Decode, Then
<1>9. CASE k = "reply"
  <2>1. Decode(k, s) = DecodeHandshakeReply(s)
    BY <1>9 DEF Decode
  <2>. QED BY <1>2, <1>3, <1>4, <2>1 DEF DecodeHandshakeReply, Then
<1>10. CASE k = "hello"
  <2>1. Decode(k, s) = DecodeClientHandshake(s)
    BY <1>10 DEF Decode
  <2>. QED BY <1>2, <1>4, <2>1 DEF DecodeClientHandshake, Then
<1>11. CASE k = "greeting"
  <2>1. Decode(k, s) = DecodeServerHandshakeReply(s)
    BY <1>11 DEF Decode
  <2>. QED BY <1>2, <1>4, <2>1 DEF DecodeServerHandshakeReply, Then
<1>12. CASE k = "header"
  <2>1. Decode(k, s) = DecodeHeader(s)
    BY <1>12 DEF Decode
  <2>. QED BY <1>2, <1>4, <2>1 DEF DecodeHeader, Then
<1>13. CASE k = "transaction"
  <2>1. Decode(k, s) = Whole(ReadTransaction(s))
    BY <1>13 DEF Decode
  <2>2. Answers(ReadTransaction(s))
    BY <1>1, <1>5 DEF ReadTransaction, Then
  <2>. QED BY <1>7, <2>1, <2>2
<1>14. CASE k = "stamp"
  <2>1. Decode(k, s) = DecodeStamp(s)
    BY <1>14 DEF Decode
  <2>. QED BY <1>2, <1>4, <2>1 DEF DecodeStamp, Then
<1>15. CASE k = "guid"
  <2>1. Decode(k, s) = DecodeGuid(s)
    BY <1>15 DEF Decode
  <2>. QED BY <1>2, <1>4, <2>1 DEF DecodeGuid, Then
<1>16. CASE k = "user"
  <2>1. Decode(k, s) = DecodeUserInfo(s)
    BY <1>16 DEF Decode
  <2>. QED BY <1>2, <1>4, <1>6, <2>1 DEF DecodeUserInfo, Then
<1>17. CASE k = "integer"
  <2>1. Decode(k, s) = DecodeInteger(s)
    BY <1>17 DEF Decode
  <2>. QED BY <1>3, <1>4, <2>1 DEF DecodeInteger
<1>18. CASE k \in {"scrambled", "md5", "sha1"}
  BY <1>4, <1>18 DEF Decode, Unpadded
<1>19. CASE k = "file"
  <2>1. Decode(k, s) = DecodeFileInfo(s)
    BY <1>19 DEF Decode
  <2>. QED BY <1>2, <1>4, <1>6, <2>1 DEF DecodeFileInfo, Then
<1>20. CASE k = "handshake"
  <2>1. Decode(k, s) = DecodeHandshake(s)
    BY <1>20 DEF Decode
  <2>. QED BY <1>2, <1>3, <1>4, <1>6, <2>1 DEF DecodeHandshake, Then
<1>21. CASE k = "info"
  <2>1. Decode(k, s) = DecodeInfoFork(s)
    BY <1>21 DEF Decode
  <2>2. \A t, o, n : Answers(Whole(Counted(t, o, n)))
    BY <1>7, CountedAnswers
  <2>. QED BY <1>1, <1>4, <2>1, <2>2 DEF DecodeInfoFork, Then
<1>22. \A t : Answers(DecodeResume(t))
  BY <1>2, <1>3, <1>4, <1>6 DEF DecodeResume, Then
<1>23. CASE k = "resume"
  BY <1>22, <1>23 DEF Decode
<1>24. CASE k = "folder_resume"
  <2>1. Decode(k, s) = DecodeFolderResume(s)
    BY <1>24 DEF Decode
  <2>. QED BY <1>2, <1>3, <1>6, <1>22, <2>1 DEF DecodeFolderResume, Then
<1>25. CASE k = "access"
  <2>1. Decode(k, s) = DecodeAccessMask(s)
    BY <1>25 DEF Decode
  <2>. QED BY <1>2, <1>4, <2>1 DEF DecodeAccessMask, Then
<1>26. CASE k = "ivar"
  <2>1. Decode(k, s) = DecodeIvar(s)
    BY <1>26 DEF Decode
  <2>. QED BY <1>3, <1>4, <1>6, <2>1 DEF DecodeIvar
<1>. QED BY <1>8, <1>9, <1>10, <1>11, <1>12, <1>13, <1>14, <1>15, <1>16, <1>17, <1>18, <1>19,
            <1>20, <1>21, <1>23, <1>24, <1>25, <1>26

\* So does the reader of a list.
LEMMA ListAnswers ==
  ASSUME NEW n \in Nat, NEW t \in Seq(Byte)
  PROVE  /\ Answers(Whole(Items(n, t, ReadField))) /\ Answers(Whole(Items(n, t, ReadPString)))
         /\ Answers(Whole(Items(n, t, ReadEntry))) /\ Answers(Whole(Items(n, t, ReadFork)))
         /\ Answers(Whole(Items(n, t, ReadEntryOf)))
         /\ Answers(Whole(Items(n, t, ReadComponent)))
<1>1. \A r \in Elements : Answers(SomeOf(r, n, t, n))
  BY AnsweringAll, SomeOfAnswers
<1>2. \A r \in Elements : Answers(Whole(SomeOf(r, n, t, n)))
  BY <1>1, WholeAnswers
<1>3. /\ "field" \in Elements /\ "text" \in Elements /\ "server" \in Elements
      /\ "fork" \in Elements /\ "entry" \in Elements /\ "component" \in Elements
  BY DEF Elements
<1>4. Items(n, t, ReadField) = SomeOf("field", n, t, n)
  BY FieldsAre
<1>5. Items(n, t, ReadPString) = SomeOf("text", n, t, n)
  BY TextsAre
<1>6. Items(n, t, ReadEntry) = SomeOf("server", n, t, n)
  BY ServersAre
<1>7. Items(n, t, ReadFork) = SomeOf("fork", n, t, n)
  BY ForksAre
<1>8. Items(n, t, ReadEntryOf) = SomeOf("entry", n, t, n)
  BY EntriesAre
<1>9. Items(n, t, ReadComponent) = SomeOf("component", n, t, n)
  BY ComponentsAre
<1>. QED BY <1>2, <1>3, <1>4, <1>5, <1>6, <1>7, <1>8, <1>9, Zenon

LEMMA ListRecordAnswers ==
  ASSUME NEW s \in Seq(Byte),
         NEW k \in {"fields", "registration", "servers", "lookup", "item", "flat", "archive",
                    "offer", "proof"}
  PROVE  Answers(Decode(k, s))
<1>1. \A t, size : Answers(Exactly(t, size))
  BY ExactlyAnswers
<1>2. \A e : Answers(Fail(e))
  BY AnswersAre
<1>3. \A v : Answers(Good(v))
  BY AnswersAre
<1>4. Answers(Truncated)
  BY AnswersAre
<1>5. ASSUME NEW o \in Nat, NEW n \in Nat, ~ (Len(s) < o + n)
      PROVE  Read(s, o, n) \in Nat
  <2>1. o + n <= Len(s)
    BY <1>5
  <2>. QED BY <2>1, ReadNat
<1>6. ASSUME NEW o \in Nat, ~ (Len(s) < o)
      PROVE  Rest(s, o) \in Seq(Byte)
  <2>1. o <= Len(s)
    BY <1>6
  <2>. QED BY <2>1, RestMore
<1>7. Answers(DecodeFieldList(s))
  <2>1. ~ (Len(s) < 2) => Read(s, 0, 2) \in Nat /\ Rest(s, 2) \in Seq(Byte)
    BY <1>5, <1>6
  <2>. QED BY <1>4, <2>1, ListAnswers DEF DecodeFieldList
<1>8. CASE k = "fields"
  <2>1. Decode(k, s) = DecodeFieldList(s)
    BY <1>8 DEF Decode
  <2>. QED BY <1>7, <2>1
<1>9. CASE k = "registration"
  <2>1. Decode(k, s) = DecodeRegistration(s)
    BY <1>9 DEF Decode
  <2>2. ~ (Len(s) <= 14) => Rest(s, 12) \in Seq(Byte)
    BY <1>6
  <2>3. 3 \in Nat
    OBVIOUS
  <2>4. ~ (Len(s) <= 14) => Answers(Whole(Items(3, Rest(s, 12), ReadPString)))
    BY <2>2, <2>3, ListAnswers
  <2>. QED BY <1>2, <1>3, <1>4, <2>1, <2>4 DEF DecodeRegistration, Then
<1>10. CASE k = "servers"
  <2> DEFINE size == 4 + Read(s, 2, 2)
  <2>1. Decode(k, s) = DecodeServerList(s)
    BY <1>10 DEF Decode
  <2>2. ~ (Len(s) < 4) /\ ~ (Read(s, 2, 2) < 4) /\ Exactly(s, size).ok
          => Answers(Whole(Items(Read(s, 6, 2), Rest(s, 8), ReadEntry)))
    <3> SUFFICES ASSUME ~ (Len(s) < 4), ~ (Read(s, 2, 2) < 4), Exactly(s, size).ok
                 PROVE  Answers(Whole(Items(Read(s, 6, 2), Rest(s, 8), ReadEntry)))
      OBVIOUS
    <3>1. Read(s, 2, 2) \in Nat
      BY <1>5
    <3>2. size \in Nat /\ size >= 8
      BY <3>1
    <3>3. Len(s) = size
      BY <3>2, ExactlyIs
    <3>4. ~ (Len(s) < 6 + 2)
      BY <3>2, <3>3
    <3>5. Read(s, 6, 2) \in Nat /\ Rest(s, 8) \in Seq(Byte)
      BY <1>5, <1>6, <3>4
    <3>. QED BY <3>5, ListAnswers
  <2>. QED BY <1>1, <1>2, <1>3, <1>4, <2>1, <2>2 DEF DecodeServerList, Then
<1>11. CASE k = "lookup"
  <2>1. Decode(k, s) = DecodeLookup(s)
    BY <1>11 DEF Decode
  <2>2. ~ (Len(s) < 4) => Answers(Whole(ReadEntry(Rest(s, 4))))
    <3>1. \A t \in Seq(Byte) : Answers(ReadEntry(t))
      <4>1. "server" \in Elements
        BY DEF Elements
      <4>. QED BY <4>1, AnsweringAll DEF Answering, ReadOne
    <3>. QED BY <1>6, <3>1, WholeAnswers
  <2>. QED BY <1>1, <1>2, <1>3, <1>4, <2>1, <2>2 DEF DecodeLookup, Then
<1>12. CASE k = "item"
  <2> DEFINE size == 2 + Read(s, 0, 2)
  <2>1. Decode(k, s) = DecodeFolderItem(s)
    BY <1>12 DEF Decode
  <2>2. ~ (Len(s) < 2) /\ ~ (Read(s, 0, 2) < 4) /\ Exactly(s, size).ok
          => Answers(PathOf(s))
    <3> SUFFICES ASSUME ~ (Len(s) < 2), ~ (Read(s, 0, 2) < 4), Exactly(s, size).ok
                 PROVE  Answers(PathOf(s))
      OBVIOUS
    <3>1. Read(s, 0, 2) \in Nat
      BY <1>5
    <3>2. size \in Nat /\ size >= 6
      BY <3>1
    <3>3. Len(s) = size
      BY <3>2, ExactlyIs
    <3>4. ~ (Len(s) < 4 + 2)
      BY <3>2, <3>3
    <3>5. Read(s, 4, 2) \in Nat /\ Rest(s, 6) \in Seq(Byte)
      BY <1>5, <1>6, <3>4
    <3>. QED BY <3>5, ListAnswers DEF PathOf, ReadComponents
  <2>. QED BY <1>1, <1>2, <1>3, <1>4, <2>1, <2>2 DEF DecodeFolderItem, Then
<1>13. CASE k = "flat"
  <2>1. Decode(k, s) = DecodeFlatFile(s)
    BY <1>13 DEF Decode
  <2>2. ~ (Len(s) < 24) => Answers(Whole(Items(Read(s, 22, 2), Rest(s, 24), ReadFork)))
    <3>1. ~ (Len(s) < 24) => Read(s, 22, 2) \in Nat /\ Rest(s, 24) \in Seq(Byte)
      BY <1>5, <1>6
    <3>. QED BY <3>1, ListAnswers
  <2>. QED BY <1>2, <1>3, <1>4, <2>1, <2>2 DEF DecodeFlatFile, FlatFileHeaderSize, Then
<1>14. CASE k = "archive"
  <2> DEFINE o == ArchiveHeaderSize - 6
             q == ArchiveHeaderSize - 2
             third == Counted(s, q, 2)
             list == Whole(Items(Read(s, o, 2), third.rest, ReadEntryOf))
  <2>1. Decode(k, s) = DecodeArchive(s)
    BY <1>14 DEF Decode
  <2>2. q \in Nat /\ 2 \in Nat /\ o \in Nat /\ \A l \in Nat : q + 2 <= l => o + 2 <= l
    BY ArchiveNameAssumption, Limits DEF ArchiveHeaderSize, NameAt
  <2>3. Answers(third)
    BY CountedAnswers
  <2>4. third.ok => Answers(list)
    <3> SUFFICES ASSUME third.ok
                 PROVE  Answers(list)
      OBVIOUS
    <3> HIDE DEF o, q
    <3>1. third.rest \in Seq(Byte)
      BY <2>2, CountedMore
    <3>2. o + 2 <= Len(s)
      <4>1. q + 2 <= Len(s) /\ Len(s) \in Nat
        BY <2>2, CountedLong
      <4>. QED BY <2>2, <4>1
    <3>3. Read(s, o, 2) \in Nat
      BY <2>2, <3>2, ReadNat
    <3>. QED BY <3>1, <3>3, ListAnswers
  <2>. QED BY <1>2, <1>3, <1>4, <2>1, <2>3, <2>4 DEF DecodeArchive, Then
<1>15. \A f : /\ Answers(ParseMac(f)) /\ Answers(ParseCipher(f))
             /\ Answers(DecodeInteger(f)) /\ Answers(SessionKeyOf(f))
  BY <1>2, <1>3 DEF ParseMac, ParseCipher, DecodeInteger, SessionKeyOf
<1>16. CASE k = "offer"
  <2>1. Decode(k, s) = DecodeOffer(s)
    BY <1>16 DEF Decode
  <2>. QED BY <1>3, <1>7, <1>15, <2>1 DEF DecodeOffer, Then
<1>17. CASE k = "proof"
  <2>1. Decode(k, s) = DecodeProof(s)
    BY <1>17 DEF Decode
  <2>. QED BY <1>2, <1>3, <1>7, <1>15, <2>1 DEF DecodeProof, Then
<1>. QED BY <1>8, <1>9, <1>10, <1>11, <1>12, <1>13, <1>14, <1>16, <1>17

LEMMA DecoderAnswers ==
  ASSUME NEW k \in Kinds, NEW s \in Seq(Byte)
  PROVE  Decode(k, s).ok \in BOOLEAN
BY RecordAnswers, ListRecordAnswers DEF Answers, Kinds

-----------------------------------------------------------------------------
(* Where the records of transfers and archives end.                        *)

\* A list of elements that is read as a whole is none with more behind it.
LEMMA ListSharp ==
  ASSUME NEW r, Stable(r), NEW n \in Nat, NEW t \in Seq(Byte), NEW c \in Seq(Byte),
         c # << >>, Whole(SomeOf(r, n, t, n)).ok
  PROVE  ~ Whole(SomeOf(r, n, t \o c, n)).ok
<1> DEFINE g == SomeOf(r, n, t, n)
           h == SomeOf(r, n, t \o c, n)
<1>1. g.ok /\ g.rest = << >>
  BY WholeIs
<1>2. h = Got(g.value, g.rest \o c)
  BY <1>1, SomeOfMore
<1>3. g.rest \o c = c
  BY <1>1
<1>4. h = Got(g.value, c)
  BY <1>2, <1>3
<1> HIDE DEF g, h
<1>5. h.rest = c
  BY <1>4, GotIs
<1>. QED BY <1>5, WholeIs DEF h

LEMMA FlatEnds == Ended("flat")
<1> SUFFICES ASSUME NEW s \in Seq(Byte), NEW c \in Seq(Byte), Decode("flat", s).ok, c # << >>
             PROVE  ~ Decode("flat", s \o c).ok
  BY SharpEnds DEF Sharp
<1> DEFINE w == s \o c
           o == 24
           List(t) == Whole(Items(Read(t, 22, 2), Rest(t, o), ReadFork))
<1>1. \A t : Decode("flat", t)
               = IF Len(t) < o THEN Truncated
                 ELSE IF First(t, 4) # FlatFileTag THEN Fail("wrong_format_tag")
                 ELSE Then(List(t), LAMBDA forks :
                        Good([version |-> Read(t, 4, 2), forks |-> forks.value]))
  BY DEF Decode, DecodeFlatFile, FlatFileHeaderSize
<1>2. /\ o \in Nat /\ 22 \in Nat /\ 2 \in Nat
      /\ \A l \in Nat : ~ (l < o) => 22 + 2 <= l /\ o <= l
  OBVIOUS
<1> HIDE DEF o
<1>3. ASSUME NEW t, Decode("flat", t).ok
      PROVE  ~ (Len(t) < o) /\ List(t).ok
  <2> DEFINE a == List(t)
             b == Decode("flat", t)
             f == First(t, 4)
  <2>1. b = IF Len(t) < o THEN Truncated
            ELSE IF f # FlatFileTag THEN Fail("wrong_format_tag")
            ELSE IF a.ok THEN Good([version |-> Read(t, 4, 2), forks |-> a.value]) ELSE a
    BY <1>1 DEF Then
  <2>2. b.ok /\ ~ Truncated.ok /\ ~ Fail("wrong_format_tag").ok
    BY <1>3 DEF Truncated, Fail
  <2> HIDE DEF a, b, f
  <2>3. ~ (Len(t) < o) /\ a.ok
    BY <2>1, <2>2
  <2>. QED BY <2>3 DEF a
<1>4. 22 + 2 <= Len(s) /\ o <= Len(s)
  <2>1. ~ (Len(s) < o) /\ Len(s) \in Nat
    BY <1>3
  <2>. QED BY <1>2, <2>1
<1>5. Read(s, 22, 2) \in Nat /\ Read(w, 22, 2) = Read(s, 22, 2)
  BY <1>2, <1>4, ReadNat, AtMore
<1>6. Rest(s, o) \in Seq(Byte) /\ Rest(w, o) = Rest(s, o) \o c
  BY <1>2, <1>4, RestMore
<1> DEFINE n == Read(s, 22, 2)
           t == Rest(s, o)
           tc == t \o c
<1>7. List(s) = Whole(SomeOf("fork", n, t, n))
  BY <1>5, ForksAre
<1> HIDE DEF w
<1>8. List(w) = Whole(SomeOf("fork", n, tc, n))
  <2>1. List(w) = Whole(Items(n, tc, ReadFork))
    BY <1>5, <1>6
  <2> HIDE DEF n, tc
  <2>. QED BY <1>5, <2>1, ForksAre DEF n
<1> HIDE DEF List, n, t
<1>9. ~ Whole(SomeOf("fork", n, tc, n)).ok
  BY <1>3, <1>5, <1>6, <1>7, ForkStable, ListSharp DEF n, t
<1>. QED BY <1>3, <1>8, <1>9 DEF w

LEMMA InfoEnds == Ended("info")
<1> SUFFICES ASSUME NEW s \in Seq(Byte), NEW c \in Seq(Byte), Decode("info", s).ok, c # << >>
             PROVE  ~ Decode("info", s \o c).ok
  BY SharpEnds DEF Sharp
<1> DEFINE w == s \o c
           o == 70
           Name(t) == Counted(t, o, 2)
           Comment(t) == Counted(Name(t).rest, 0, 2)
           p == Name(s)
           pr == p.rest
           g == Comment(s)
           gr == g.rest
<1>1. ASSUME NEW t, Decode("info", t).ok
      PROVE  Name(t).ok /\ Whole(Comment(t)).ok
  <2>1. DecodeInfoFork(t).ok
    BY <1>1 DEF Decode
  <2>2. InfoFixedSize - 2 = o
    BY DEF InfoFixedSize
  <2> HIDE DEF o
  <2>. QED BY <2>1, <2>2 DEF DecodeInfoFork, Then
<1>2. o \in Nat /\ 2 \in Nat /\ 0 \in Nat
  OBVIOUS
<1> HIDE DEF o
<1>3. Name(s).ok /\ g.ok /\ gr = << >>
  BY <1>1, WholeIs
<1>4. pr \in Seq(Byte) /\ Name(w) = Got(p.value, pr \o c)
  BY <1>2, <1>3, CountedMore
<1> DEFINE e == pr \o c
<1>5. Name(w) = Got(p.value, e)
  BY <1>4
<1>6. g = Counted(pr, 0, 2)
  OBVIOUS
<1> HIDE DEF w, Name, g, gr, e, p, pr
<1>7. Comment(w) = Counted(e, 0, 2)
  BY <1>5, GotIs
<1>8. Counted(pr \o c, 0, 2) = Got(g.value, g.rest \o c)
  BY <1>2, <1>3, <1>4, <1>6, CountedMore
<1>9. g.rest \o c = c
  BY <1>3 DEF gr
<1>10. Comment(w) = Got(g.value, c)
  BY <1>7, <1>8, <1>9 DEF e
<1> HIDE DEF Comment
<1>11. Comment(w).rest = c
  BY <1>10, GotIs
<1>. QED BY <1>1, <1>11, WholeIs DEF w

\* Nothing is behind a record whose size a number in it says.
LEMMA SizedEnds ==
  ASSUME NEW k, NEW o \in Nat, NEW n \in Nat, NEW q, NEW m,
         \A s \in Seq(Byte) :
           Decode(k, s).ok => o + n <= Len(s) /\ Len(s) = q + Read(s, o, n) * m
  PROVE  Ended(k)
<1> SUFFICES ASSUME NEW s \in Seq(Byte), NEW c \in Seq(Byte), Decode(k, s).ok, c # << >>,
                    Decode(k, s \o c).ok
             PROVE  FALSE
  BY SharpEnds DEF Sharp
<1> DEFINE w == s \o c
<1>1. w \in Seq(Byte) /\ Len(w) = Len(s) + Len(c) /\ Len(s) \in Nat /\ Len(c) \in Nat /\ Len(c) # 0
  BY Joined
<1>2. o + n <= Len(s) /\ Len(s) = q + Read(s, o, n) * m
  OBVIOUS
<1>3. Read(w, o, n) = Read(s, o, n)
  BY <1>2, AtMore
<1> HIDE DEF w
<1>4. Len(w) = q + Read(w, o, n) * m
  BY <1>1 DEF w
<1>5. Len(w) = Len(s)
  BY <1>2, <1>3, <1>4
<1>. QED BY <1>1, <1>5

LEMMA ResumeEnds == Ended("resume")
<1> DEFINE o == 40
           q == 42
           m == 16
<1>1. ASSUME NEW s \in Seq(Byte), Decode("resume", s).ok
      PROVE  o + 2 <= Len(s) /\ Len(s) = q + Read(s, o, 2) * m
  <2> DEFINE size == q + Read(s, o, 2) * m
  <2>1. ~ (Len(s) < q) /\ Exactly(s, size).ok
    <3>1. Decode("resume", s) = DecodeResume(s)
      BY DEF Decode
    <3>. QED BY <1>1, <3>1
             DEF DecodeResume, ResumeHeaderSize, ResumeEntrySize, Then, Truncated, Fail
  <2>2. o + 2 = q /\ o \in Nat /\ q \in Nat /\ m \in Nat
    OBVIOUS
  <2> HIDE DEF o, q, m
  <2>3. o + 2 <= Len(s)
    BY <2>1, <2>2
  <2>4. Read(s, o, 2) \in Nat
    BY <2>2, <2>3, ReadNat
  <2>5. size \in Nat
    BY <2>2, <2>4
  <2> HIDE DEF size
  <2>6. Len(s) = size
    BY <2>1, <2>5, ExactlyIs
  <2>. QED BY <2>3, <2>6 DEF size
<1>2. o \in Nat /\ 2 \in Nat
  OBVIOUS
<1> HIDE DEF o, q, m
<1>. QED BY <1>1, <1>2, SizedEnds

LEMMA FolderResumeEnds == Ended("folder_resume")
<1> DEFINE q == 4
<1>1. ASSUME NEW s \in Seq(Byte), Decode("folder_resume", s).ok
      PROVE  2 + 2 <= Len(s) /\ Len(s) = q + Read(s, 2, 2) * 1
  <2> DEFINE size == q + Read(s, 2, 2)
  <2>1. ~ (Len(s) < q) /\ Exactly(s, size).ok
    <3>1. Decode("folder_resume", s) = DecodeFolderResume(s)
      BY DEF Decode
    <3>. QED BY <1>1, <3>1 DEF DecodeFolderResume, Then, Truncated, Fail
  <2>2. 2 + 2 = q /\ 2 \in Nat /\ q \in Nat
    OBVIOUS
  <2>3. 2 + 2 <= Len(s)
    BY <2>1
  <2> HIDE DEF q
  <2>4. Read(s, 2, 2) \in Nat
    BY <2>2, <2>3, ReadNat
  <2>5. size \in Nat
    BY <2>2, <2>4
  <2> HIDE DEF size
  <2>6. Len(s) = size
    BY <2>1, <2>5, ExactlyIs
  <2>7. size = q + Read(s, 2, 2) * 1
    BY <2>2, <2>4 DEF size
  <2>. QED BY <2>3, <2>6, <2>7
<1>2. 2 \in Nat
  OBVIOUS
<1>. QED BY <1>1, <1>2, SizedEnds

LEMMA ArchiveEnds == Ended("archive")
<1> SUFFICES ASSUME NEW s \in Seq(Byte), NEW c \in Seq(Byte), Decode("archive", s).ok, c # << >>
             PROVE  ~ Decode("archive", s \o c).ok
  BY SharpEnds DEF Sharp
<1> DEFINE w == s \o c
           o == ArchiveHeaderSize - 6
           q == ArchiveHeaderSize - 2
           Third(t) == Counted(t, q, 2)
           List(t) == Whole(Items(Read(t, o, 2), Third(t).rest, ReadEntryOf))
           p == Third(s)
           pr == p.rest
           e == pr \o c
           n == Read(s, o, 2)
<1>1. ASSUME NEW t, Decode("archive", t).ok
      PROVE  Third(t).ok /\ List(t).ok
  <2>1. DecodeArchive(t).ok
    BY <1>1 DEF Decode
  <2>2. ~ Truncated.ok /\ \A x : ~ Fail(x).ok
    BY DEF Truncated, Fail
  <2>. QED BY <2>1, <2>2 DEF DecodeArchive, Then
<1>2. q \in Nat /\ 2 \in Nat /\ o \in Nat /\ \A l \in Nat : q + 2 <= l => o + 2 <= l
  BY ArchiveNameAssumption, Limits DEF ArchiveHeaderSize, NameAt
<1> HIDE DEF o, q
<1>3. Third(s).ok /\ List(s).ok
  BY <1>1
<1>4. pr \in Seq(Byte) /\ Third(w) = Got(p.value, e)
  BY <1>2, <1>3, CountedMore
<1>5. o + 2 <= Len(s)
  <2>1. q + 2 <= Len(s) /\ Len(s) \in Nat
    BY <1>2, <1>3, CountedLong
  <2>. QED BY <1>2, <2>1
<1>6. n \in Nat /\ Read(w, o, 2) = n
  BY <1>2, <1>5, ReadNat, AtMore
<1>7. List(s) = Whole(SomeOf("entry", n, pr, n))
  BY <1>6, EntriesAre
<1> HIDE DEF w, e, Third, p
<1>8. List(w) = Whole(Items(n, e, ReadEntryOf))
  BY <1>4, <1>6, GotIs
<1> HIDE DEF List, n, pr
<1>9. List(w) = Whole(SomeOf("entry", n, e, n))
  BY <1>6, <1>8, EntriesAre
<1>10. ~ Whole(SomeOf("entry", n, e, n)).ok
  BY <1>3, <1>4, <1>6, <1>7, EntryStable, ListSharp DEF e
<1>. QED BY <1>1, <1>9, <1>10 DEF w

LEMMA OfferEnds == Ended("offer") /\ Ended("proof")
<1>1. \A s : Decode("offer", s).ok => Decode("fields", s).ok
  <2>1. \A s : Decode("offer", s) = DecodeOffer(s) /\ Decode("fields", s) = DecodeFieldList(s)
    BY DEF Decode
  <2>. QED BY <2>1 DEF DecodeOffer, Then
<1>2. \A s : Decode("proof", s).ok => Decode("fields", s).ok
  <2>1. \A s : Decode("proof", s) = DecodeProof(s) /\ Decode("fields", s) = DecodeFieldList(s)
    BY DEF Decode
  <2>. QED BY <2>1 DEF DecodeProof, Then
<1>3. Ended("fields")
  BY FieldsFaithful DEF Faithful
<1>. QED BY <1>1, <1>2, <1>3 DEF Ended

LEMMA AccessEnds == Ended("access")
<1> DEFINE size == 8
<1>1. \A s \in Seq(Byte) : Decode("access", s).ok => Exactly(s, size).ok
  <2>1. \A s : Decode("access", s) = DecodeAccessMask(s)
    BY DEF Decode
  <2>. QED BY <2>1 DEF DecodeAccessMask, AccessMaskSize, Then
<1>2. size \in Nat
  OBVIOUS
<1> HIDE DEF size
<1>. QED BY <1>1, <1>2, ExactlyIs, EndedBySize

-----------------------------------------------------------------------------
(* What encoders make are bytes.                                           *)

EncodesBytes(k) == \A v \in Holds(k) : Encode(k, v).ok => Encode(k, v).value \in Seq(Byte)

LEMMA FlattenTyped ==
  ASSUME NEW ss \in Seq(Seq(Byte))
  PROVE  FlattenSeq(ss) \in Seq(Byte)
BY FlattenIs

\* Bytes behind bytes are bytes.
LEMMA Behind == \A u \in Seq(Byte), v \in Seq(Byte) : u \o v \in Seq(Byte)
BY Joined

LEMMA Regroup ==
  \A u \in Seq(Byte), v \in Seq(Byte), w \in Seq(Byte) : (u \o v) \o w = u \o (v \o w)
BY Associative, Zenon

LEMMA ForkTyped ==
  ASSUME NEW fork \in Fork
  PROVE  EncodeFork(fork) \in Seq(Byte)
<1> DEFINE a == U32(fork.type)
           b == U32(fork.compression)
           c == U32(0)
           d == U32(Len(fork.data))
           e == fork.data
<1>1. a \in Seq(Byte) /\ b \in Seq(Byte)
  <2>1. fork.type \in Nat /\ fork.compression \in Nat
    BY Limits DEF Fork, Long
  <2>. QED BY <2>1, LongWritten
<1>2. c \in Seq(Byte) /\ d \in Seq(Byte) /\ e \in Seq(Byte)
  <2>1. e \in Seq(Byte)
    BY DEF Fork
  <2>2. Len(e) \in Nat /\ 0 \in Nat
    BY <2>1
  <2>. QED BY <2>1, <2>2, LongWritten
<1>3. EncodeFork(fork) = a \o b \o c \o d \o e
  BY DEF EncodeFork
<1> HIDE DEF a, b, c, d, e
<1>. QED BY <1>1, <1>2, <1>3, Behind

LEMMA FlatTyped == EncodesBytes("flat")
<1> SUFFICES ASSUME NEW v \in Holds("flat"), Encode("flat", v).ok
             PROVE  Encode("flat", v).value \in Seq(Byte)
  BY DEF EncodesBytes
<1> DEFINE n == Len(v.forks)
           ss == [i \in 1..n |-> EncodeFork(v.forks[i])]
           a == U16(v.version)
           z == Zeros(16)
           b == U16(n)
           f == FlattenSeq(ss)
           w == FlatFileTag \o a \o z \o b \o f
<1>1. v \in FlatFile
  BY DEF Holds
<1>2. v.version \in Nat /\ v.forks \in Seq(Fork)
  BY <1>1, Limits DEF FlatFile, Word
<1>3. n \in Nat /\ \A i \in 1..n : v.forks[i] \in Fork
  BY <1>2, ElementOfSeq
<1>4. ss \in Seq(Seq(Byte))
  BY <1>3, ForkTyped
<1>5. f \in Seq(Byte)
  <2> HIDE DEF ss
  <2>. QED BY <1>4, FlattenTyped
<1>6. a \in Seq(Byte) /\ b \in Seq(Byte) /\ z \in Seq(Byte) /\ FlatFileTag \in Seq(Byte)
  BY <1>2, <1>3, WordWritten, ZerosTyped, TransferTagsAssumption
<1>7. Encode("flat", v) = IF n > MaxU16 THEN Fail("count_too_large") ELSE Good(w)
  BY DEF Encode, EncodeFlatFile
<1> HIDE DEF a, b, z, f, n
<1>8. w \in Seq(Byte)
  BY <1>5, <1>6, Behind
<1> HIDE DEF w
<1>. QED BY <1>7, <1>8, GoodIs DEF Fail

LEMMA ReservedBytes ==
  ASSUME NEW f \in [1..32 -> Byte]
  PROVE  f \in Seq(Byte) /\ Len(f) = 32
<1> DEFINE g == [i \in 1..32 |-> f[i]]
<1>1. g \in Seq(Byte) /\ Len(g) = 32
  OBVIOUS
<1>2. f = g
  OBVIOUS
<1> HIDE DEF g
<1>. QED BY <1>1, <1>2

LEMMA InfoTyped == EncodesBytes("info")
<1> SUFFICES ASSUME NEW v \in Holds("info"), Encode("info", v).ok
             PROVE  Encode("info", v).value \in Seq(Byte)
  BY DEF EncodesBytes
<1> DEFINE a == U32(v.platform)
           b == U32(v.type_sig)
           c == U32(v.creator_sig)
           d == U32(v.flags)
           e == U32(v.platform_flags)
           f == v.reserved
           g == Stamp(v.create_date)
           h == Stamp(v.modify_date)
           k == U16(v.name_script)
           l == U16(Len(v.name))
           m == v.name
           o == U16(Len(v.comment))
           p == v.comment
           w == a \o b \o c \o d \o e \o f \o g \o h \o k \o l \o m \o o \o p
<1>1. v \in InfoFork
  BY DEF Holds
<1>2. /\ v.platform \in Nat /\ v.type_sig \in Nat /\ v.creator_sig \in Nat /\ v.flags \in Nat
      /\ v.platform_flags \in Nat /\ v.name_script \in Nat
  BY <1>1, Limits DEF InfoFork, Long, Word
<1>3. /\ v.create_date \in DateTimeStamp /\ v.modify_date \in DateTimeStamp
      /\ m \in Seq(Byte) /\ p \in Seq(Byte) /\ f \in [1..32 -> Byte]
  BY <1>1 DEF InfoFork
<1>4. f \in Seq(Byte)
  BY <1>3, ReservedBytes
<1>5. Len(m) \in Nat /\ Len(p) \in Nat
  BY <1>3, LenProperties, Zenon
<1>6. /\ a \in Seq(Byte) /\ b \in Seq(Byte) /\ c \in Seq(Byte) /\ d \in Seq(Byte)
      /\ e \in Seq(Byte)
  BY <1>2, LongWritten
<1>7. g \in Seq(Byte) /\ h \in Seq(Byte)
  BY <1>3, StampWritten
<1>8. k \in Seq(Byte) /\ l \in Seq(Byte) /\ o \in Seq(Byte)
  BY <1>2, <1>5, WordWritten
<1>9. Encode("info", v) = IF Len(m) > MaxU16 \/ Len(p) > MaxU16 THEN Fail("string_too_long")
                          ELSE Good(w)
  BY DEF Encode, EncodeInfoFork
<1> HIDE DEF a, b, c, d, e, f, g, h, k, l, m, o, p
<1>10. a \o b \o c \o d \o e \o f \in Seq(Byte)
  BY <1>4, <1>6, Behind
<1> DEFINE x == a \o b \o c \o d \o e \o f
<1>11. x \in Seq(Byte) /\ w = x \o g \o h \o k \o l \o m \o o \o p
  BY <1>10
<1> HIDE DEF x, w
<1>12. w \in Seq(Byte)
  BY <1>3, <1>7, <1>8, <1>11, Behind
<1>. QED BY <1>9, <1>12, GoodIs DEF Fail

LEMMA ResumeEncoded ==
  ASSUME NEW v \in ResumeData
  PROVE  LET n == Len(v.entries)
             w == ResumeTag \o U16(v.version) \o Zeros(34) \o U16(n)
                    \o FlattenSeq([i \in 1..n |->
                         U32(v.entries[i].fork) \o U32(v.entries[i].data_size)
                           \o U32(0) \o U32(0)])
         IN  /\ w \in Seq(Byte)
             /\ Encode("resume", v) = IF n > MaxU16 THEN Fail("count_too_large") ELSE Good(w)
<1> DEFINE n == Len(v.entries)
           ss == [i \in 1..n |-> U32(v.entries[i].fork) \o U32(v.entries[i].data_size)
                                   \o U32(0) \o U32(0)]
           a == U16(v.version)
           z == Zeros(34)
           b == U16(n)
           f == FlattenSeq(ss)
           w == ResumeTag \o a \o z \o b \o f
<1>1. v.version \in Nat /\ v.entries \in Seq(ResumeEntry)
  BY Limits DEF ResumeData, Word
<1>2. n \in Nat /\ \A i \in 1..n : v.entries[i] \in ResumeEntry
  BY <1>1, ElementOfSeq
<1>3. ASSUME NEW i \in 1..n
      PROVE  ss[i] \in Seq(Byte)
  <2> DEFINE c == U32(v.entries[i].fork)
             d == U32(v.entries[i].data_size)
             e == U32(0)
  <2>1. v.entries[i].fork \in Nat /\ v.entries[i].data_size \in Nat /\ 0 \in Nat
    BY <1>2, Limits DEF ResumeEntry, Long
  <2>2. c \in Seq(Byte) /\ d \in Seq(Byte) /\ e \in Seq(Byte)
    BY <2>1, LongWritten
  <2>3. ss[i] = c \o d \o e \o e
    OBVIOUS
  <2> HIDE DEF c, d, e, ss
  <2>. QED BY <2>2, <2>3, Behind
<1>4. ss \in Seq(Seq(Byte))
  <2>1. ss = [i \in 1..n |-> ss[i]]
    OBVIOUS
  <2> HIDE DEF ss
  <2>. QED BY <1>2, <1>3, <2>1
<1>5. f \in Seq(Byte)
  <2> HIDE DEF ss
  <2>. QED BY <1>4, FlattenTyped
<1>6. a \in Seq(Byte) /\ b \in Seq(Byte) /\ z \in Seq(Byte) /\ ResumeTag \in Seq(Byte)
  BY <1>1, <1>2, WordWritten, ZerosTyped, TransferTagsAssumption
<1>7. Encode("resume", v) = IF n > MaxU16 THEN Fail("count_too_large") ELSE Good(w)
  BY DEF Encode, EncodeResume
<1>8. w \in Seq(Byte)
  <2> HIDE DEF a, b, z, f
  <2>. QED BY <1>5, <1>6, Behind
<1>. QED BY <1>7, <1>8

LEMMA ResumeTyped == EncodesBytes("resume") /\ EncodesBytes("folder_resume")
<1>1. ASSUME NEW v \in ResumeData, Encode("resume", v).ok
      PROVE  Encode("resume", v).value \in Seq(Byte)
  <2> DEFINE n == Len(v.entries)
             w == ResumeTag \o U16(v.version) \o Zeros(34) \o U16(n)
                    \o FlattenSeq([i \in 1..n |->
                         U32(v.entries[i].fork) \o U32(v.entries[i].data_size)
                           \o U32(0) \o U32(0)])
  <2>1. /\ w \in Seq(Byte)
        /\ Encode("resume", v) = IF n > MaxU16 THEN Fail("count_too_large") ELSE Good(w)
    BY ResumeEncoded
  <2> HIDE DEF n, w
  <2>. QED BY <1>1, <2>1, GoodIs DEF Fail
<1>2. ASSUME NEW v \in ResumeData, Encode("folder_resume", v).ok
      PROVE  Encode("folder_resume", v).value \in Seq(Byte)
  <2> DEFINE r == Encode("resume", v)
             x == r.value
             a == U16(ResumeFile)
             b == U16(Len(x))
  <2>1. Encode("folder_resume", v) = IF r.ok THEN IF Len(x) > MaxU16
                                                  THEN Fail("element_too_large")
                                                  ELSE Good(a \o b \o x) ELSE r
    BY DEF Encode, EncodeFolderResume, Then
  <2>2. r.ok
    <3> HIDE DEF r
    <3>. QED BY <1>2, <2>1
  <2>3. x \in Seq(Byte)
    BY <1>1, <2>2
  <2>4. a \in Seq(Byte) /\ b \in Seq(Byte)
    <3>1. Len(x) \in Nat
      BY <2>3
    <3> HIDE DEF x
    <3>2. ResumeFile \in Nat
      BY ResumeFileAssumption, Limits DEF Word
    <3>. QED BY <3>1, <3>2, WordWritten
  <2> DEFINE w == a \o b \o x
  <2> HIDE DEF r, x, a, b
  <2>5. w \in Seq(Byte)
    BY <2>3, <2>4, Behind
  <2> HIDE DEF w
  <2>6. Encode("folder_resume", v) = Good(w)
    BY <1>2, <2>1, <2>2 DEF Fail, w
  <2>. QED BY <2>5, <2>6, GoodIs
<1>3. \A v \in Holds("resume") : v \in ResumeData
  BY DEF Holds
<1>4. \A v \in Holds("folder_resume") : v \in ResumeData
  BY DEF Holds
<1>. QED BY <1>1, <1>2, <1>3, <1>4 DEF EncodesBytes

LEMMA OfferIsList ==
  ASSUME NEW v \in HopeOffer
  PROVE  Stage2Reply(v.session_key, v.mac) \in Seq(FieldRecord)
<1> DEFINE a == v.session_key
           b == U16(1) \o NameOf(v.mac)
           c == U16(1) \o BlowfishName
<1>1. U16(1) \in Seq(Byte) /\ NameOf(v.mac) \in Seq(Byte) /\ BlowfishName \in Seq(Byte)
  BY WordWritten, NamesAssumption DEF NameOf
<1>2. a \in Seq(Byte) /\ b \in Seq(Byte) /\ c \in Seq(Byte)
  BY <1>1, Joined DEF HopeOffer, SessionKeys
<1>3. /\ FieldIdOf["SessionKey"] \in Word /\ FieldIdOf["MacAlg"] \in Word
      /\ FieldIdOf["ServerCipherAlg"] \in Word
  BY FieldIdAssumption DEF FieldNames
<1>4. Stage2Reply(v.session_key, v.mac)
        = << Field("SessionKey", a), Field("MacAlg", b), Field("ServerCipherAlg", c) >>
  BY DEF Stage2Reply
<1> HIDE DEF a, b, c
<1>5. /\ Field("SessionKey", a) \in FieldRecord /\ Field("MacAlg", b) \in FieldRecord
      /\ Field("ServerCipherAlg", c) \in FieldRecord
  BY <1>2, <1>3 DEF Field, FieldRecord
<1>. QED BY <1>4, <1>5

LEMMA ProofIsList ==
  ASSUME NEW v \in HopeProof
  PROVE  Stage2Login(v.login, v.password, U16(1) \o BlowfishName) \in Seq(FieldRecord)
<1> DEFINE a == v.login
           b == v.password
           c == U16(1) \o BlowfishName
           d == IntegerData(HopeVersion)
<1>1. U16(1) \in Seq(Byte) /\ BlowfishName \in Seq(Byte)
  BY WordWritten, NamesAssumption
<1>2. d \in Seq(Byte)
  <2>1. HopeVersion \in 0..MaxU16 /\ HopeVersion \in Nat
    BY HopeVersionAssumption, Limits DEF Word
  <2>. QED BY <2>1, WordWritten DEF IntegerData
<1>3. a \in Seq(Byte) /\ b \in Seq(Byte) /\ c \in Seq(Byte)
  BY <1>1, Joined DEF HopeProof
<1>4. /\ FieldIdOf["UserLogin"] \in Word /\ FieldIdOf["UserPassword"] \in Word
      /\ FieldIdOf["ClientCipherAlg"] \in Word /\ FieldIdOf["Vers"] \in Word
  BY FieldIdAssumption DEF FieldNames
<1>5. Stage2Login(v.login, v.password, U16(1) \o BlowfishName)
        = << Field("UserLogin", a), Field("UserPassword", b), Field("ClientCipherAlg", c),
             Field("Vers", d) >>
  BY DEF Stage2Login
<1> HIDE DEF a, b, c, d
<1>6. /\ Field("UserLogin", a) \in FieldRecord /\ Field("UserPassword", b) \in FieldRecord
      /\ Field("ClientCipherAlg", c) \in FieldRecord /\ Field("Vers", d) \in FieldRecord
  BY <1>2, <1>3, <1>4 DEF Field, FieldRecord
<1> DEFINE e == Field("UserLogin", a)
           f == Field("UserPassword", b)
           g == Field("ClientCipherAlg", c)
           h == Field("Vers", d)
<1>7. Stage2Login(v.login, v.password, U16(1) \o BlowfishName) = << e, f, g, h >>
  BY <1>5
<1> HIDE DEF e, f, g, h
<1>8. << e, f, g, h >> \in Seq(FieldRecord)
  BY <1>6 DEF e, f, g, h
<1>. QED BY <1>7, <1>8

LEMMA ByteBitsAre == ByteBits \in 1..8 /\ 2^ByteBits = Base
BY BaseAssumption DEF ByteBits

LEMMA HopeTyped == EncodesBytes("offer") /\ EncodesBytes("proof")
<1>1. \A v \in Seq(FieldRecord) :
        EncodeFieldList(v).ok => EncodeFieldList(v).value \in Seq(Byte)
  <2>1. Written("fields")
    BY FieldsFaithful DEF Faithful
  <2>2. Holds("fields") = Seq(FieldRecord) /\ \A v : Encode("fields", v) = EncodeFieldList(v)
    BY DEF Holds, Encode
  <2>. QED BY <2>1, <2>2 DEF Written
<1>2. \A v \in HopeOffer : Stage2Reply(v.session_key, v.mac) \in Seq(FieldRecord)
  BY OfferIsList
<1>3. \A v \in HopeProof : Stage2Login(v.login, v.password, U16(1) \o BlowfishName)
                              \in Seq(FieldRecord)
  BY ProofIsList
<1>4. \A v : /\ Encode("offer", v) = EncodeFieldList(Stage2Reply(v.session_key, v.mac))
             /\ Encode("proof", v) = EncodeFieldList(Stage2Login(v.login, v.password,
                                                                 U16(1) \o BlowfishName))
  BY DEF Encode, EncodeOffer, EncodeProof
<1>5. Holds("offer") = HopeOffer /\ Holds("proof") = HopeProof
  BY DEF Holds
<1>. QED BY <1>1, <1>2, <1>3, <1>4, <1>5 DEF EncodesBytes

LEMMA DigestsTyped == EncodesBytes("md5") /\ EncodesBytes("sha1")
<1>1. ASSUME NEW v \in Digestible
      PROVE  Md5Blocks(v) \in Seq(Byte) /\ Sha1Blocks(v) \in Seq(Byte)
  <2> DEFINE n == BitLength(v)
             a == Marked(v)
             b == U64(n)
             c == Reverse(b)
  <2>1. v \in Seq(Byte)
    BY DEF Digestible
  <2>2. n \in Nat
    BY <2>1, ByteBitsAre DEF BitLength
  <2>3. a \in Seq(Byte)
    BY <2>1, MarkedLength
  <2>4. b \in Seq(Byte) /\ c \in Seq(Byte)
    <3> HIDE DEF n
    <3>. QED BY <2>2, EightBytes
  <2>5. Md5Blocks(v) = a \o c /\ Sha1Blocks(v) = a \o b
    BY DEF Md5Blocks, Sha1Blocks
  <2> HIDE DEF a, b, c
  <2>. QED BY <2>3, <2>4, <2>5, Behind
<1>2. Holds("md5") = Digestible /\ Holds("sha1") = Digestible
  BY DEF Holds
<1>3. \A v : Encode("md5", v).value = Md5Blocks(v) /\ Encode("sha1", v).value = Sha1Blocks(v)
  BY DEF Encode, Good
<1>. QED BY <1>1, <1>2, <1>3 DEF EncodesBytes

-----------------------------------------------------------------------------
(* Counted runs of bytes.                                                  *)

\* A number and as many bytes behind u are read again, whatever follows.
LEMMA RunBehind ==
  ASSUME NEW u \in Seq(Byte), NEW o \in Nat, Len(u) = o, NEW data \in Seq(Byte),
         NEW b \in Seq(Byte), NEW n \in Nat, Len(b) = n, Number(b) = Len(data)
  PROVE  LET w == (u \o b) \o data
         IN  /\ w \in Seq(Byte) /\ Continues(w, u) /\ Len(w) = (o + n) + Len(data)
             /\ \A c \in Seq(Byte) : Counted(w \o c, o, n) = Got(data, c)
<1> DEFINE m == Len(data)
           v == u \o b
           w == v \o data
<1>1. m \in Nat /\ Number(b) = m /\ Len(data) = m
  OBVIOUS
<1> HIDE DEF m
<1>2. v \in Seq(Byte) /\ Len(v) = o + n /\ At(v, o, n) = b /\ Continues(v, u)
  <2>1. v \in Seq(Byte) /\ Len(v) = Len(u) + n /\ At(v, Len(u), n) = b /\ Continues(v, u)
    BY RunAppended
  <2> HIDE DEF v
  <2>. QED BY <2>1
<1> HIDE DEF v
<1> DEFINE p == o + n
<1>3. p \in Nat /\ p = o + n
  OBVIOUS
<1> HIDE DEF p
<1>4. w \in Seq(Byte) /\ Len(w) = p + m /\ At(w, p, m) = data /\ Continues(w, v)
  <2>0. v \in Seq(Byte) /\ data \in Seq(Byte)
    BY <1>2
  <2>1. /\ w \in Seq(Byte) /\ Len(w) = Len(v) + Len(data) /\ At(w, Len(v), Len(data)) = data
        /\ Continues(w, v)
    BY ONLY <2>0, Appended
  <2> HIDE DEF w
  <2>. QED BY <1>1, <1>2, <1>3, <2>1
<1> HIDE DEF w
<1>5. Continues(w, u)
  <2> SUFFICES ASSUME NEW i \in Nat, NEW k \in Nat, i + k <= Len(u)
               PROVE  At(w, i, k) = At(u, i, k)
    BY DEF Continues
  <2>1. i + k <= Len(v)
    BY <1>2
  <2>. QED BY <1>2, <1>4, <2>1 DEF Continues
<1>6. ASSUME NEW c \in Seq(Byte)
      PROVE  Counted(w \o c, o, n) = Got(data, c)
  <2> DEFINE s == w \o c
  <2>0. w \in Seq(Byte) /\ c \in Seq(Byte)
    BY <1>4
  <2>1. s \in Seq(Byte) /\ Len(s) = Len(w) + Len(c) /\ Continues(s, w)
    BY ONLY <2>0, Appended
  <2>2. Rest(s, p + m) = c
    <3>1. Len(w) = p + m /\ p + m \in Nat
      BY <1>1, <1>3, <1>4
    <3>. QED BY <1>4, <3>1, LeftBehind
  <2> HIDE DEF s
  <2>3. Len(c) \in Nat
    OBVIOUS
  <2>4. p <= Len(s) /\ p + m <= Len(s) /\ o + n <= Len(v) /\ o + n <= Len(w) /\ p + m <= Len(w)
    BY <1>1, <1>2, <1>3, <1>4, <2>1, <2>3
  <2>5. Read(s, o, n) = m
    <3>1. At(s, o, n) = At(w, o, n) /\ At(w, o, n) = At(v, o, n)
      BY <1>4, <2>1, <2>4 DEF Continues
    <3>. QED BY <1>1, <1>2, <3>1 DEF Read
  <2>6. At(s, p, m) = data
    BY <1>1, <1>3, <1>4, <2>1, <2>4 DEF Continues
  <2>7. Counted(s, o, n) = Got(At(s, p, m), Rest(s, p + m))
    BY <1>1, <1>3, <2>1, <2>4, <2>5, CountedIs
  <2>. QED BY <2>2, <2>6, <2>7 DEF s
<1>. QED BY <1>3, <1>4, <1>5, <1>6 DEF w, v, m

\* A message in two parts.
LEMMA TwoParts ==
  ASSUME NEW s \in Seq(Byte), NEW o \in Nat, o <= Len(s)
  PROVE  /\ At(s, 0, o) \in Seq(Byte) /\ Len(At(s, 0, o)) = o
         /\ Rest(s, o) \in Seq(Byte) /\ Len(Rest(s, o)) = Len(s) - o
         /\ At(s, 0, o) \o Rest(s, o) = s
<1> DEFINE n == Len(s) - o
<1>1. n \in Nat /\ Len(s) = o + n /\ 0 \in Nat /\ 0 + o <= Len(s)
  OBVIOUS
<1> HIDE DEF n
<1>2. Rest(s, o) \in Seq(Byte) /\ Len(Rest(s, o)) = n /\ At(s, 0, o) \o Rest(s, o) = s
  BY <1>1, RestIs
<1>3. At(s, 0, o) \in Seq(Byte) /\ Len(At(s, 0, o)) = o
  BY <1>1, Part
<1>. QED BY <1>2, <1>3 DEF n

\* What Counted() took from behind the first o bytes.
LEMMA RunTaken ==
  ASSUME NEW s \in Seq(Byte), NEW o \in Nat, NEW n \in Nat, Counted(s, o, n).ok
  PROVE  LET one == Counted(s, o, n)
         IN  /\ one.value \in Seq(Byte) /\ one.rest \in Seq(Byte) /\ o + n <= Len(s)
             /\ one = Got(one.value, one.rest) /\ Len(one.value) = Read(s, o, n)
             /\ (At(s, 0, o + n) \o one.value) \o one.rest = s
<1> DEFINE one == Counted(s, o, n)
           m == Read(s, o, n)
           p == o + n
           q == p + m
           v == At(s, p, m)
           d == Rest(s, q)
           h == At(s, 0, p)
<1>1. /\ m \in Nat /\ p \in Nat /\ q <= Len(s) /\ one = Got(v, d)
      /\ v \in Seq(Byte) /\ Len(v) = m /\ d \in Seq(Byte)
  BY CountedOk
<1>2. q \in Nat /\ p <= Len(s)
  BY <1>1
<1>3. h \o v = At(s, 0, q)
  <2>1. p \in Nat /\ m \in Nat /\ q \in Nat /\ p + m = q /\ q <= Len(s)
    BY <1>1, <1>2
  <2> HIDE DEF p, m, q
  <2>2. p \in Nat /\ m \in Nat
    BY <2>1
  <2>3. ASSUME NEW l \in Nat, p + m = l, l <= Len(s)
        PROVE  At(s, 0, p) \o At(s, p, m) = At(s, 0, l)
    BY ONLY s \in Seq(Byte), <2>2, <2>3, PartsMeet, Zenon
  <2>4. At(s, 0, p) \o At(s, p, m) = At(s, 0, q)
    BY <2>1, <2>3, Zenon
  <2>. QED BY <2>4, Zenon
<1>4. At(s, 0, q) \o d = s
  <2> HIDE DEF q
  <2>. QED BY <1>1, <1>2, TwoParts
<1>5. (h \o v) \o d = s
  BY <1>3, <1>4
<1> HIDE DEF one, v, d, h, m, q
<1>6. one.value = v /\ one.rest = d
  BY <1>1, GotIs
<1>7. one = Got(one.value, one.rest)
  BY <1>1, <1>6
<1>8. (h \o one.value) \o one.rest = s
  BY <1>5, <1>6
<1>. QED BY <1>1, <1>2, <1>6, <1>7, <1>8 DEF one, h, m, p

-----------------------------------------------------------------------------
(* Bytes that are the same but for those in S.                             *)

\* The bytes w are y, which are behind o others, but for those at positions in S.
Alike(w, y, S, o) ==
  /\ w \in Seq(Byte) /\ y \in Seq(Byte) /\ Len(w) = Len(y)
  /\ \A i \in 1..Len(y) : w[i] # y[i] => o + i \in S

LEMMA SameAlike ==
  ASSUME NEW y \in Seq(Byte), NEW S, NEW o
  PROVE  Alike(y, y, S, o)
BY DEF Alike

LEMMA GapAlike ==
  ASSUME NEW w \in Seq(Byte), NEW y \in Seq(Byte), NEW n \in Nat, Len(w) = n, Len(y) = n,
         NEW S, NEW o \in Nat, Span(o, n) \subseteq S
  PROVE  Alike(w, y, S, o)
<1> SUFFICES ASSUME NEW i \in 1..n
             PROVE  o + i \in S
  BY DEF Alike
<1>1. o + i \in Span(o, n)
  BY DEF Span
<1>. QED BY <1>1

LEMMA JoinedAlike ==
  ASSUME NEW u, NEW x, NEW v, NEW z, NEW S, NEW o \in Nat, NEW n \in Nat, Len(x) = n,
         NEW p \in Nat, p = o + n, Alike(u, x, S, o), Alike(v, z, S, p)
  PROVE  Alike(u \o v, x \o z, S, o)
<1> DEFINE w == u \o v
           y == x \o z
           m == Len(z)
<1>1. /\ u \in Seq(Byte) /\ x \in Seq(Byte) /\ v \in Seq(Byte) /\ z \in Seq(Byte)
      /\ Len(u) = n /\ Len(v) = m /\ m \in Nat
  BY DEF Alike
<1>2. /\ w \in Seq(Byte) /\ y \in Seq(Byte) /\ Len(w) = n + m /\ Len(y) = n + m
  <2>0. u \in Seq(Byte) /\ x \in Seq(Byte) /\ v \in Seq(Byte) /\ z \in Seq(Byte)
    BY <1>1
  <2>1. w \in Seq(Byte) /\ Len(w) = Len(u) + Len(v)
    BY <2>0, Joined, Zenon
  <2>2. y \in Seq(Byte) /\ Len(y) = Len(x) + Len(z)
    BY <2>0, Joined, Zenon
  <2> HIDE DEF w, y
  <2>3. w \in Seq(Byte) /\ Len(w) = n + m
    BY <1>1, <2>1
  <2>4. y \in Seq(Byte) /\ Len(y) = n + m
    BY <1>1, <2>2
  <2>. QED BY <2>3, <2>4
<1>3. ASSUME NEW i \in 1..n + m, w[i] # y[i]
      PROVE  o + i \in S
  <2>1. CASE i <= n
    <3>1. i \in 1..n /\ w[i] = u[i] /\ y[i] = x[i]
      BY <1>1, <2>1
    <3> HIDE DEF w, y
    <3>. QED BY <1>3, <3>1 DEF Alike
  <2>2. CASE ~ (i <= n)
    <3> DEFINE j == i - n
    <3>1. j \in 1..m /\ w[i] = v[j] /\ y[i] = z[j] /\ p + j = o + i
      BY <1>1, <2>2
    <3> HIDE DEF w, y, j
    <3>2. p + j \in S
      BY <1>3, <3>1 DEF Alike
    <3>. QED BY <3>1, <3>2
  <2>. QED BY <2>1, <2>2
<1> HIDE DEF w, y, m
<1>4. Alike(w, y, S, o)
  BY <1>2, <1>3 DEF Alike
<1>. QED BY <1>4 DEF w, y

LEMMA MovedAlike ==
  ASSUME NEW w, NEW y, NEW o \in Nat, NEW g \in Nat, NEW n \in Nat, NEW S,
         Alike(w, y, Span(g, n), 0), Span(o + g, n) \subseteq S
  PROVE  Alike(w, y, S, o)
<1> SUFFICES ASSUME NEW i \in 1..Len(y), w[i] # y[i]
             PROVE  o + i \in S
  BY DEF Alike
<1>1. y \in Seq(Byte) /\ 0 + i \in Span(g, n)
  BY DEF Alike
<1>2. i \in Nat /\ g + 1 <= i /\ i <= g + n
  BY <1>1 DEF Span
<1>3. o + i \in (o + g) + 1 .. (o + g) + n
  BY <1>2
<1>. QED BY <1>3 DEF Span

\* What an encoder makes again of what was read, alike but for what is passed over.
LEMMA AlikeReproduced ==
  ASSUME NEW k,
         \A s \in Seq(Byte) :
           Decode(k, s).ok =>
             LET v == Decode(k, s).value
             IN  Encode(k, v).ok /\ Alike(Encode(k, v).value, s, Ignored(k, v), 0)
  PROVE  Reproduced(k)
<1> SUFFICES ASSUME NEW s \in Seq(Byte), Decode(k, s).ok
             PROVE  LET again == Encode(k, Decode(k, s).value)
                    IN  /\ again.ok
                        /\ Len(again.value) = Len(s)
                        /\ {i \in 1..Len(s) : again.value[i] # s[i]}
                             \subseteq Ignored(k, Decode(k, s).value)
  BY Zenon DEF Reproduced
<1> DEFINE v == Decode(k, s).value
           again == Encode(k, v)
<1>1. again.ok /\ Alike(again.value, s, Ignored(k, v), 0)
  OBVIOUS
<1> HIDE DEF again, v
<1>2. Len(again.value) = Len(s)
  BY <1>1 DEF Alike
<1>3. ASSUME NEW i \in 1..Len(s), again.value[i] # s[i]
      PROVE  i \in Ignored(k, v)
  <2>1. 0 + i \in Ignored(k, v) /\ 0 + i = i
    BY <1>1, <1>3 DEF Alike
  <2>. QED BY <2>1
<1>. QED BY <1>1, <1>2, <1>3 DEF again, v

-----------------------------------------------------------------------------
(* Forks and entries are read as they were written.                        *)

LEMMA TwoLongs ==
  ASSUME NEW x \in Long, NEW y \in Long
  PROVE  LET u == U32(x) \o U32(y)
         IN  u \in Seq(Byte) /\ Len(u) = 8 /\ Read(u, 0, 4) = x /\ Read(u, 4, 4) = y
<1> DEFINE a == U32(x)
           u == a \o U32(y)
<1>1. a \in Seq(Byte) /\ Len(a) = 4 /\ Read(a, 0, 4) = x
  BY LongFirst
<1> HIDE DEF a
<1>2. u \in Seq(Byte) /\ Len(u) = Len(a) + 4 /\ Read(u, Len(a), 4) = y /\ Continues(u, a)
  BY <1>1, LongAppended, Zenon
<1> HIDE DEF u
<1>3. u \in Seq(Byte) /\ Len(u) = 8 /\ Read(u, 0, 4) = x /\ Read(u, 4, 4) = y
  BY <1>1, <1>2 DEF Continues, Read
<1>. QED BY <1>3 DEF u, a

\* Bytes at the front of s are those at the front of what s continues.
LEMMA FrontKept ==
  ASSUME NEW w \in Seq(Byte), NEW c \in Seq(Byte), NEW u \in Seq(Byte), Continues(w, u),
         Len(u) <= Len(w), NEW n \in Nat, n = Len(u)
  PROVE  LET s == w \o c
         IN  s \in Seq(Byte) /\ Continues(s, u) /\ At(s, 0, n) = u
<1> DEFINE s == w \o c
<1>1. s \in Seq(Byte) /\ Continues(s, w)
  BY Appended
<1> HIDE DEF s
<1>2. Continues(s, u)
  <2> SUFFICES ASSUME NEW o \in Nat, NEW m \in Nat, o + m <= Len(u)
               PROVE  At(s, o, m) = At(u, o, m)
    BY DEF Continues
  <2>1. o + m <= Len(w)
    OBVIOUS
  <2>. QED BY <1>1, <2>1 DEF Continues
<1>3. 0 + n <= Len(u) /\ 0 \in Nat
  OBVIOUS
<1>4. At(s, 0, n) = At(u, 0, n)
  BY <1>2, <1>3 DEF Continues
<1>5. At(u, 0, n) = u
  BY AllOfIt
<1>. QED BY <1>1, <1>2, <1>4, <1>5 DEF s

LEMMA ForkElement == ElementWritten("fork")
<1> SUFFICES ASSUME NEW x \in Element("fork")
             PROVE  /\ WriteOne("fork", x) \in Seq(Byte)
                    /\ \A c \in Seq(Byte) : ReadOne("fork", WriteOne("fork", x) \o c) = Got(x, c)
  BY DEF ElementWritten
<1> DEFINE type == x.type
           compression == x.compression
           data == x.data
           h == U32(type) \o U32(compression)
           u == h \o U32(0)
           b == U32(Len(data))
           w == (u \o b) \o data
<1>1. /\ x = [type |-> type, compression |-> compression, data |-> data]
      /\ type \in Long /\ compression \in Long /\ data \in Runs(MaxU32)
  BY DEF Element
<1>2. WriteOne("fork", x) = w
  BY DEF WriteOne, EncodeFork
<1>3. \A s : ReadOne("fork", s)
               = IF Counted(s, 12, 4).ok
                   THEN Got([type |-> Read(s, 0, 4), compression |-> Read(s, 4, 4),
                             data |-> Counted(s, 12, 4).value], Counted(s, 12, 4).rest)
                   ELSE Counted(s, 12, 4)
  BY DEF ReadOne, ReadFork, Then, ForkHeaderSize
<1> HIDE DEF type, compression, data
<1>4. data \in Seq(Byte) /\ Len(data) \in Nat /\ Len(data) <= MaxU32 /\ Len(data) \in Long
  <2>1. data \in Seq(Byte) /\ Len(data) <= MaxU32
    BY <1>1 DEF Runs
  <2>. QED BY <2>1, Limits DEF Long
<1>5. h \in Seq(Byte) /\ Len(h) = 8 /\ Read(h, 0, 4) = type /\ Read(h, 4, 4) = compression
  BY <1>1, TwoLongs
<1> HIDE DEF h
<1>6. 0 \in Long
  BY Limits DEF Long
<1>7. u \in Seq(Byte) /\ Len(u) = Len(h) + 4 /\ Continues(u, h)
  BY <1>5, <1>6, LongAppended, Zenon
<1> HIDE DEF u
<1>8. b \in Seq(Byte) /\ Len(b) = 4 /\ Number(b) = Len(data)
  BY <1>4, LongWritten
<1> HIDE DEF b
<1>9. Len(u) = 12
  BY <1>5, <1>7
<1>10. /\ w \in Seq(Byte) /\ Continues(w, u) /\ Len(w) = (12 + 4) + Len(data)
       /\ \A c \in Seq(Byte) : Counted(w \o c, 12, 4) = Got(data, c)
  <2> DEFINE o == 12
             n == 4
  <2>1. /\ u \in Seq(Byte) /\ o \in Nat /\ Len(u) = o /\ data \in Seq(Byte) /\ b \in Seq(Byte)
        /\ n \in Nat /\ Len(b) = n /\ Number(b) = Len(data)
    BY <1>4, <1>7, <1>8, <1>9
  <2> HIDE DEF o, n
  <2>2. /\ w \in Seq(Byte) /\ Continues(w, u) /\ Len(w) = (o + n) + Len(data)
        /\ \A c \in Seq(Byte) : Counted(w \o c, o, n) = Got(data, c)
    BY <2>1, RunBehind
  <2>. QED BY <2>2, Zenon DEF o, n
<1> HIDE DEF w
<1> SUFFICES ASSUME NEW c \in Seq(Byte)
             PROVE  ReadOne("fork", w \o c) = Got(x, c)
  BY <1>2, <1>10
<1> DEFINE s == w \o c
<1>11. s \in Seq(Byte) /\ Continues(s, u)
  <2>1. Len(u) <= Len(w) /\ 12 \in Nat /\ 12 = Len(u)
    BY <1>4, <1>9, <1>10
  <2>2. w \in Seq(Byte) /\ u \in Seq(Byte) /\ Continues(w, u)
    BY <1>7, <1>10
  <2>. QED BY <2>1, <2>2, FrontKept
<1>12. Counted(s, 12, 4) = Got(data, c)
  BY <1>10
<1> HIDE DEF s
<1>13. Read(s, 0, 4) = type /\ Read(s, 4, 4) = compression
  <2>1. /\ At(u, 0, 4) = At(h, 0, 4) /\ At(u, 4, 4) = At(h, 4, 4)
        /\ At(s, 0, 4) = At(u, 0, 4) /\ At(s, 4, 4) = At(u, 4, 4)
    BY <1>5, <1>7, <1>9, <1>11 DEF Continues
  <2>. QED BY <1>5, <2>1 DEF Read
<1>14. ReadOne("fork", s)
         = Got([type |-> type, compression |-> compression, data |-> data], c)
  BY <1>3, <1>12, <1>13, GotIs
<1>. QED BY <1>1, <1>14 DEF s

\* A number and as many bytes behind it are read again, whatever follows.
LEMMA RunFirst ==
  ASSUME NEW data \in Seq(Byte), NEW b \in Seq(Byte), NEW n \in Nat, Len(b) = n,
         Number(b) = Len(data)
  PROVE  LET w == b \o data
         IN  /\ w \in Seq(Byte) /\ Len(w) = n + Len(data)
             /\ \A c \in Seq(Byte) : Counted(w \o c, 0, n) = Got(data, c)
<1> DEFINE u == << >>
           v == u \o b
           w == v \o data
           o == 0
<1>1. u \in Seq(Byte) /\ o \in Nat /\ Len(u) = o /\ v = b
  OBVIOUS
<1> HIDE DEF u, o
<1>2. /\ w \in Seq(Byte) /\ Len(w) = (o + n) + Len(data)
      /\ \A c \in Seq(Byte) : Counted(w \o c, o, n) = Got(data, c)
  <2>1. u \in Seq(Byte) /\ o \in Nat /\ Len(u) = o
    BY <1>1
  <2>. QED BY <2>1, RunBehind
<1>3. w = b \o data
  BY <1>1, Zenon
<1> HIDE DEF w, v
<1>4. Len(w) = n + Len(data)
  <2>1. o = 0 /\ Len(data) \in Nat
    BY DEF o
  <2>. QED BY <1>2, <2>1
<1>. QED BY <1>2, <1>3, <1>4, Zenon DEF o

LEMMA PathListed ==
  ASSUME NEW s \in Seq(Byte)
  PROVE  ReadPath(s) = Listed("component", s)
<1> DEFINE n == Read(s, 0, 2)
           t == Rest(s, 2)
<1>1. ReadPath(s) = IF Len(s) < 2 THEN Truncated ELSE Whole(Items(n, t, ReadComponent))
  BY DEF ReadPath
<1>2. CASE Len(s) < 2
  BY <1>1, <1>2 DEF Listed
<1>3. CASE ~ (Len(s) < 2)
  <2>1. n \in Nat
    <3>1. 0 \in Nat /\ 2 \in Nat /\ 0 + 2 = 2 /\ 2 <= Len(s)
      BY <1>3
    <3>. QED BY <3>1, ReadIsNat
  <2>2. Listed("component", s) = Whole(SomeOf("component", n, t, n))
    BY <1>3 DEF Listed
  <2>3. ReadPath(s) = Whole(Items(n, t, ReadComponent))
    BY <1>1, <1>3
  <2> HIDE DEF n, t
  <2>4. Items(n, t, ReadComponent) = SomeOf("component", n, t, n)
    BY <2>1, ComponentsAre
  <2>. QED BY <2>2, <2>3, <2>4
<1>. QED BY <1>2, <1>3

\* What the parts of an entry are read as.
EntryOf(s, names, reserved, t, payload) ==
  [type |-> Read(s, 0, 4), path |-> names, reserved |-> reserved,
   compression_type |-> Read(t, 0, 4), decompressed_size |-> Read(t, 4, 4), payload |-> payload]

LEMMA EntryIs ==
  ASSUME NEW s, NEW q, NEW d, NEW names, NEW reserved, NEW t, NEW payload, NEW c,
         Counted(s, 8, 2) = Got(q, d), ReadPath(q) = Good(names),
         Counted(d, 0, 2) = Got(reserved, t), Counted(t, 8, 4) = Got(payload, c)
  PROVE  ReadEntryOf(s) = Got(EntryOf(s, names, reserved, t, payload), c)
<1> DEFINE one == Counted(s, 8, 2)
           two == ReadPath(one.value)
           three == Counted(one.rest, 0, 2)
           four == Counted(three.rest, 8, 4)
<1>1. ReadEntryOf(s)
        = IF one.ok THEN IF two.ok THEN IF three.ok THEN IF four.ok
            THEN Got([type |-> Read(s, 0, 4), path |-> two.value, reserved |-> three.value,
                      compression_type |-> Read(three.rest, 0, 4),
                      decompressed_size |-> Read(three.rest, 4, 4),
                      payload |-> four.value], four.rest)
            ELSE four ELSE three ELSE two ELSE one
  BY DEF ReadEntryOf, Then
<1>2. one.ok /\ one.value = q /\ one.rest = d
  BY GotIs
<1>3. two.ok /\ two.value = names
  BY <1>2, GoodIs
<1>4. three.ok /\ three.value = reserved /\ three.rest = t
  BY <1>2, GotIs
<1>5. four.ok /\ four.value = payload /\ four.rest = c
  BY <1>4, GotIs
<1> HIDE DEF one, two, three, four
<1>. QED BY <1>1, <1>2, <1>3, <1>4, <1>5, Zenon DEF EntryOf

\* An entry that fits its fields.
LEMMA EntryHolds ==
  ASSUME NEW x \in Element("entry")
  PROVE  /\ x.type \in Long /\ x.path \in Seq(Element("component")) /\ Len(x.path) <= MaxU16
         /\ x.reserved \in Seq(Byte) /\ Len(x.reserved) <= MaxU16 /\ Len(x.reserved) \in Word
         /\ x.compression_type \in Long /\ x.decompressed_size \in Long
         /\ x.payload \in Seq(Byte) /\ Len(x.payload) <= MaxU32 /\ Len(x.payload) \in Long
         /\ 2 + Len(AllOf("component", x.path)) <= MaxU16
         /\ x = [type |-> x.type, path |-> x.path, reserved |-> x.reserved,
                 compression_type |-> x.compression_type,
                 decompressed_size |-> x.decompressed_size, payload |-> x.payload]
<1>1. x \in ArchiveEntry /\ EntryFitting(x)
  BY DEF Element
<1>2. /\ x.type \in Long /\ x.path \in Seq(PathComponent) /\ x.reserved \in Seq(Byte)
      /\ x.compression_type \in Long /\ x.decompressed_size \in Long /\ x.payload \in Seq(Byte)
      /\ x = [type |-> x.type, path |-> x.path, reserved |-> x.reserved,
              compression_type |-> x.compression_type,
              decompressed_size |-> x.decompressed_size, payload |-> x.payload]
  BY <1>1 DEF ArchiveEntry
<1>3. /\ Len(x.path) <= MaxU16 /\ Len(x.reserved) <= MaxU16 /\ Len(x.payload) <= MaxU32
      /\ 2 + Len(EncodePath(x.path)) <= MaxU16
      /\ \A i \in 1..Len(x.path) : Len(x.path[i].name) <= MaxU8
  BY <1>1 DEF EntryFitting
<1>4. AllOf("component", x.path) = EncodePath(x.path)
  BY DEF AllOf, WriteOne, EncodePath
<1>5. x.path \in Seq(Element("component"))
  <2> DEFINE path == x.path
  <2>1. \A i \in 1..Len(path) : path[i] \in PathComponent /\ Len(path[i].name) <= MaxU8
    BY <1>2, <1>3, ElementOfSeq
  <2>2. \A y \in PathComponent : Len(y.name) <= MaxU8 => y \in Element("component")
    BY DEF PathComponent, Element, Runs
  <2>3. path \in Seq(PathComponent)
    BY <1>2
  <2> HIDE DEF path
  <2>4. path \in Seq(Element("component"))
    BY <2>1, <2>2, <2>3
  <2>. QED BY <2>4 DEF path
<1>6. Len(x.reserved) \in Word /\ Len(x.payload) \in Long
  <2>1. Len(x.reserved) \in Nat /\ Len(x.payload) \in Nat
    BY <1>2, LenProperties, Zenon
  <2>. QED BY <1>3, <2>1, Limits DEF Word, Long
<1>. QED BY <1>2, <1>3, <1>4, <1>5, <1>6

\* The three parts of an entry: a path behind its type, a run of bytes, and
\* a payload behind two numbers.
EntryPath(x) == U16(Len(x.path)) \o AllOf("component", x.path)
EntryFront(x) == ((U32(x.type) \o U32(0)) \o U16(Len(EntryPath(x)))) \o EntryPath(x)
EntryMiddle(x) == U16(Len(x.reserved)) \o x.reserved
EntryBack(x) ==
  ((U32(x.compression_type) \o U32(x.decompressed_size)) \o U32(Len(x.payload))) \o x.payload

LEMMA FrontWritten ==
  ASSUME NEW x \in Element("entry")
  PROVE  /\ EntryFront(x) \in Seq(Byte) /\ EntryPath(x) \in Seq(Byte)
         /\ ReadPath(EntryPath(x)) = Good(x.path)
         /\ \A c \in Seq(Byte) : /\ Counted(EntryFront(x) \o c, 8, 2) = Got(EntryPath(x), c)
                                 /\ Read(EntryFront(x) \o c, 0, 4) = x.type
<1> DEFINE h == U32(x.type) \o U32(0)
           q == EntryPath(x)
           b == U16(Len(q))
           w == (h \o b) \o q
           a == AllOf("component", x.path)
<1>1. /\ x.type \in Long /\ x.path \in Seq(Element("component")) /\ Len(x.path) <= MaxU16
      /\ 2 + Len(a) <= MaxU16
  BY EntryHolds
<1>2. EntryFront(x) = w
  BY DEF EntryFront
<1>3. q \in Seq(Byte) /\ Listed("component", q) = Good(x.path)
  BY <1>1, ComponentElement, ListedWritten DEF EntryPath
<1>4. Len(q) \in Nat /\ Len(q) <= MaxU16
  <2>1. a \in Seq(Byte)
    BY <1>1, ComponentElement, AllOfTyped
  <2> DEFINE n == U16(Len(x.path))
  <2>2. n \in Seq(Byte) /\ Len(n) = 2
    BY <1>1, WordWritten, LenProperties
  <2>3. q = n \o a
    BY DEF EntryPath
  <2> HIDE DEF n, a, q
  <2>4. Len(n \o a) = Len(n) + Len(a)
    BY <2>1, <2>2, Joined, Zenon
  <2>5. Len(q) = 2 + Len(a) /\ Len(a) \in Nat
    BY <2>1, <2>2, <2>3, <2>4
  <2>. QED BY <1>1, <2>5 DEF a
<1>5. ReadPath(q) = Good(x.path)
  BY <1>3, PathListed
<1> HIDE DEF q
<1>6. h \in Seq(Byte) /\ Len(h) = 8 /\ Read(h, 0, 4) = x.type
  <2>1. 0 \in Long
    BY Limits DEF Long
  <2>. QED BY <1>1, <2>1, TwoLongs
<1> HIDE DEF h
<1>7. b \in Seq(Byte) /\ Len(b) = 2 /\ Number(b) = Len(q)
  BY <1>4, WordWritten
<1> HIDE DEF b
<1>8. /\ w \in Seq(Byte) /\ Continues(w, h) /\ Len(w) = (8 + 2) + Len(q)
      /\ \A c \in Seq(Byte) : Counted(w \o c, 8, 2) = Got(q, c)
  <2> DEFINE o == 8
             n == 2
  <2>1. /\ h \in Seq(Byte) /\ o \in Nat /\ Len(h) = o /\ q \in Seq(Byte) /\ b \in Seq(Byte)
        /\ n \in Nat /\ Len(b) = n /\ Number(b) = Len(q)
    BY <1>3, <1>6, <1>7
  <2> HIDE DEF o, n
  <2>2. /\ w \in Seq(Byte) /\ Continues(w, h) /\ Len(w) = (o + n) + Len(q)
        /\ \A c \in Seq(Byte) : Counted(w \o c, o, n) = Got(q, c)
    BY <2>1, RunBehind
  <2>. QED BY <2>2, Zenon DEF o, n
<1> HIDE DEF w
<1>9. ASSUME NEW c \in Seq(Byte)
      PROVE  Read(w \o c, 0, 4) = x.type
  <2> DEFINE s == w \o c
  <2>1. Continues(s, h)
    <3>1. Len(h) <= Len(w) /\ 8 \in Nat /\ 8 = Len(h)
      BY <1>4, <1>6, <1>8
    <3>2. w \in Seq(Byte) /\ h \in Seq(Byte) /\ Continues(w, h)
      BY <1>6, <1>8
    <3>. QED BY <3>1, <3>2, FrontKept
  <2> HIDE DEF s
  <2>2. At(s, 0, 4) = At(h, 0, 4)
    BY <1>6, <2>1 DEF Continues
  <2>3. Read(s, 0, 4) = x.type
    BY <1>6, <2>2 DEF Read
  <2>. QED BY <2>3 DEF s
<1>. QED BY <1>2, <1>3, <1>5, <1>8, <1>9 DEF q

LEMMA MiddleWritten ==
  ASSUME NEW x \in Element("entry")
  PROVE  /\ EntryMiddle(x) \in Seq(Byte)
         /\ \A c \in Seq(Byte) : Counted(EntryMiddle(x) \o c, 0, 2) = Got(x.reserved, c)
<1> DEFINE d == x.reserved
           b == U16(Len(d))
<1>1. d \in Seq(Byte) /\ Len(d) \in Nat /\ Len(d) <= MaxU16
  BY EntryHolds
<1>2. b \in Seq(Byte) /\ Len(b) = 2 /\ Number(b) = Len(d)
  BY <1>1, WordWritten
<1>3. EntryMiddle(x) = b \o d
  BY DEF EntryMiddle
<1> HIDE DEF b, d
<1>4. /\ b \o d \in Seq(Byte)
      /\ \A c \in Seq(Byte) : Counted((b \o d) \o c, 0, 2) = Got(d, c)
  <2>1. d \in Seq(Byte) /\ b \in Seq(Byte) /\ 2 \in Nat /\ Len(b) = 2 /\ Number(b) = Len(d)
    BY <1>1, <1>2
  <2>. QED BY <2>1, RunFirst
<1>. QED BY <1>3, <1>4, Zenon DEF d

LEMMA BackWritten ==
  ASSUME NEW x \in Element("entry")
  PROVE  /\ EntryBack(x) \in Seq(Byte)
         /\ \A c \in Seq(Byte) : /\ Counted(EntryBack(x) \o c, 8, 4) = Got(x.payload, c)
                                 /\ Read(EntryBack(x) \o c, 0, 4) = x.compression_type
                                 /\ Read(EntryBack(x) \o c, 4, 4) = x.decompressed_size
<1> DEFINE h == U32(x.compression_type) \o U32(x.decompressed_size)
           q == x.payload
           b == U32(Len(q))
           w == (h \o b) \o q
<1>1. /\ x.compression_type \in Long /\ x.decompressed_size \in Long
      /\ q \in Seq(Byte) /\ Len(q) \in Nat /\ Len(q) <= MaxU32
  BY EntryHolds
<1>2. EntryBack(x) = w
  BY DEF EntryBack
<1>3. /\ h \in Seq(Byte) /\ Len(h) = 8 /\ Read(h, 0, 4) = x.compression_type
      /\ Read(h, 4, 4) = x.decompressed_size
  BY <1>1, TwoLongs
<1> HIDE DEF h
<1>4. b \in Seq(Byte) /\ Len(b) = 4 /\ Number(b) = Len(q)
  BY <1>1, LongWritten
<1> HIDE DEF b, q
<1>5. /\ w \in Seq(Byte) /\ Continues(w, h) /\ Len(w) = (8 + 4) + Len(q)
      /\ \A c \in Seq(Byte) : Counted(w \o c, 8, 4) = Got(q, c)
  <2> DEFINE o == 8
             n == 4
  <2>1. /\ h \in Seq(Byte) /\ o \in Nat /\ Len(h) = o /\ q \in Seq(Byte) /\ b \in Seq(Byte)
        /\ n \in Nat /\ Len(b) = n /\ Number(b) = Len(q)
    BY <1>1, <1>3, <1>4
  <2> HIDE DEF o, n
  <2>2. /\ w \in Seq(Byte) /\ Continues(w, h) /\ Len(w) = (o + n) + Len(q)
        /\ \A c \in Seq(Byte) : Counted(w \o c, o, n) = Got(q, c)
    BY <2>1, RunBehind
  <2>. QED BY <2>2, Zenon DEF o, n
<1> HIDE DEF w
<1>6. ASSUME NEW c \in Seq(Byte)
      PROVE  /\ Read(w \o c, 0, 4) = x.compression_type
             /\ Read(w \o c, 4, 4) = x.decompressed_size
  <2> DEFINE s == w \o c
  <2>1. Continues(s, h)
    <3>1. Len(h) <= Len(w) /\ 8 \in Nat /\ 8 = Len(h)
      BY <1>1, <1>3, <1>5
    <3>2. w \in Seq(Byte) /\ h \in Seq(Byte) /\ Continues(w, h)
      BY <1>3, <1>5
    <3>. QED BY <3>1, <3>2, FrontKept
  <2> HIDE DEF s
  <2>2. At(s, 0, 4) = At(h, 0, 4) /\ At(s, 4, 4) = At(h, 4, 4)
    BY <1>3, <2>1 DEF Continues
  <2>3. Read(s, 0, 4) = x.compression_type /\ Read(s, 4, 4) = x.decompressed_size
    BY <1>3, <2>2 DEF Read
  <2>. QED BY <2>3 DEF s
<1>. QED BY <1>2, <1>5, <1>6 DEF q

LEMMA EntryInParts ==
  ASSUME NEW x \in Element("entry")
  PROVE  WriteEntry(x) = (EntryFront(x) \o EntryMiddle(x)) \o EntryBack(x)
<1> DEFINE p == EntryFront(x)
           b == U16(Len(x.reserved))
           d == x.reserved
           y == U32(x.compression_type)
           z == U32(x.decompressed_size)
           e == U32(Len(x.payload))
           f == x.payload
           m == p \o (b \o d)
<1>1. WriteEntry(x) = (((((p \o b) \o d) \o y) \o z) \o e) \o f
  <2>1. EntryPath(x) = U16(Len(x.path)) \o EncodePath(x.path)
    BY DEF EntryPath, AllOf, WriteOne, EncodePath
  <2>2. WriteEntry(x)
          = ((((((((U32(x.type) \o U32(0)) \o U16(Len(EntryPath(x)))) \o EntryPath(x)) \o b) \o d)
                \o y) \o z) \o e) \o f
    BY <2>1, Zenon DEF WriteEntry
  <2>. QED BY <2>2, Zenon DEF EntryFront
<1>2. EntryMiddle(x) = b \o d /\ EntryBack(x) = ((y \o z) \o e) \o f
  BY DEF EntryMiddle, EntryBack
<1>3. p \in Seq(Byte) /\ b \in Seq(Byte) /\ d \in Seq(Byte)
  <2>1. d \in Seq(Byte) /\ Len(d) \in Nat
    BY EntryHolds
  <2>. QED BY <2>1, FrontWritten, WordWritten
<1>4. y \in Seq(Byte) /\ z \in Seq(Byte) /\ e \in Seq(Byte) /\ f \in Seq(Byte)
  <2>1. /\ f \in Seq(Byte) /\ Len(x.payload) \in Long
        /\ x.compression_type \in Long /\ x.decompressed_size \in Long
    BY EntryHolds
  <2>. QED BY <2>1, LongFirst
<1> HIDE DEF p, b, d, y, z, e, f
<1>5. (p \o b) \o d = m
  BY <1>3, Regroup, Zenon
<1>6. m \in Seq(Byte)
  BY <1>3, Behind
<1> HIDE DEF m
<1>7. y \o z \in Seq(Byte) /\ (y \o z) \o e \in Seq(Byte)
  BY <1>4, Behind
<1>8. (m \o y) \o z = m \o (y \o z)
  BY <1>4, <1>6, Regroup, Zenon
<1> DEFINE yz == y \o z
           yze == yz \o e
<1>9. yz \in Seq(Byte) /\ yze \in Seq(Byte)
  BY <1>7
<1>10. (m \o yz) \o e = m \o yze
  <2> HIDE DEF yz
  <2>. QED BY <1>4, <1>6, <1>9, Regroup, Zenon
<1>11. (m \o yze) \o f = m \o (yze \o f)
  <2> HIDE DEF yze
  <2>. QED BY <1>4, <1>6, <1>9, Regroup, Zenon
<1>12. WriteEntry(x) = m \o (yze \o f)
  BY <1>1, <1>5, <1>8, <1>10, <1>11, Zenon
<1>. QED BY <1>2, <1>12, Zenon DEF m, p

LEMMA EntryElement == ElementWritten("entry")
<1> SUFFICES ASSUME NEW x \in Element("entry")
             PROVE  /\ WriteEntry(x) \in Seq(Byte)
                    /\ \A c \in Seq(Byte) : ReadEntryOf(WriteEntry(x) \o c) = Got(x, c)
  BY Zenon DEF ElementWritten, WriteOne, ReadOne
<1> DEFINE u == EntryFront(x)
           v == EntryMiddle(x)
           w == EntryBack(x)
<1>1. u \in Seq(Byte) /\ v \in Seq(Byte) /\ w \in Seq(Byte)
  BY FrontWritten, MiddleWritten, BackWritten
<1>2. WriteEntry(x) = (u \o v) \o w
  BY EntryInParts
<1> HIDE DEF u, v, w
<1>3. (u \o v) \o w \in Seq(Byte)
  BY <1>1, Behind
<1>4. ASSUME NEW c \in Seq(Byte)
      PROVE  ReadEntryOf(((u \o v) \o w) \o c) = Got(x, c)
  <2> DEFINE t == w \o c
             d == v \o t
             s == u \o d
             q == EntryPath(x)
  <2>1. t \in Seq(Byte) /\ d \in Seq(Byte)
    BY <1>1, Behind
  <2>2. ((u \o v) \o w) \o c = s
    <3>1. ((u \o v) \o w) \o c = (u \o v) \o t
      <4>1. u \o v \in Seq(Byte)
        BY <1>1, Behind
      <4>. QED BY <1>1, <4>1, Regroup, Zenon
    <3>2. (u \o v) \o t = s
      <4>1. t \in Seq(Byte)
        BY <2>1
      <4>2. \A y \in Seq(Byte) : (u \o v) \o y = u \o (v \o y)
        BY <1>1, Regroup, Zenon
      <4>. QED BY <4>1, <4>2, Zenon
    <3>. QED BY <3>1, <3>2
  <2>3. Counted(s, 8, 2) = Got(q, d) /\ Read(s, 0, 4) = x.type /\ ReadPath(q) = Good(x.path)
    <3> HIDE DEF d, q
    <3>. QED BY <2>1, FrontWritten DEF u, q
  <2>4. Counted(d, 0, 2) = Got(x.reserved, t)
    <3> HIDE DEF t
    <3>. QED BY <2>1, MiddleWritten DEF v
  <2>5. /\ Counted(t, 8, 4) = Got(x.payload, c) /\ Read(t, 0, 4) = x.compression_type
        /\ Read(t, 4, 4) = x.decompressed_size
    BY BackWritten DEF w
  <2> HIDE DEF s, d, t, q
  <2>6. ReadEntryOf(s) = Got(EntryOf(s, x.path, x.reserved, t, x.payload), c)
    BY <2>3, <2>4, <2>5, EntryIs
  <2>7. EntryOf(s, x.path, x.reserved, t, x.payload) = x
    BY <2>3, <2>5, EntryHolds DEF EntryOf
  <2>. QED BY <2>2, <2>6, <2>7
<1>. QED BY <1>2, <1>3, <1>4, Zenon

-----------------------------------------------------------------------------
(* An archive is read as it was written.                                   *)

LEMMA Further ==
  ASSUME NEW u, NEW v, NEW w, Continues(v, u), Continues(w, v), Len(u) \in Nat, Len(v) \in Nat,
         Len(u) <= Len(v)
  PROVE  Continues(w, u)
<1> SUFFICES ASSUME NEW o \in Nat, NEW n \in Nat, o + n <= Len(u)
             PROVE  At(w, o, n) = At(u, o, n)
  BY DEF Continues
<1>1. o + n <= Len(v)
  OBVIOUS
<1>. QED BY <1>1 DEF Continues

LEMMA ArchiveHolds ==
  ASSUME NEW v \in Holds("archive")
  PROVE  /\ v.archive_size \in Long /\ v.file_auto_launch \in Word
         /\ v.archive_name \in Seq(Byte) /\ Len(v.archive_name) < ArchiveNameField
         /\ Len(v.archive_name) \in Byte
         /\ v.reserved3 \in Seq(Byte) /\ Len(v.reserved3) <= MaxU16
         /\ v.entries \in Seq(Element("entry")) /\ Len(v.entries) \in Word
         /\ v = [archive_size |-> v.archive_size, archive_name |-> v.archive_name,
                 file_auto_launch |-> v.file_auto_launch, reserved3 |-> v.reserved3,
                 entries |-> v.entries]
<1>1. v \in ArchiveRecord /\ ArchiveFitting(v)
  BY DEF Holds
<1>2. /\ v.archive_size \in Long /\ v.file_auto_launch \in Word
      /\ v.archive_name \in Seq(Byte) /\ v.reserved3 \in Seq(Byte)
      /\ v.entries \in Seq(ArchiveEntry)
      /\ v = [archive_size |-> v.archive_size, archive_name |-> v.archive_name,
              file_auto_launch |-> v.file_auto_launch, reserved3 |-> v.reserved3,
              entries |-> v.entries]
  BY <1>1 DEF ArchiveRecord
<1>3. /\ Len(v.archive_name) < ArchiveNameField /\ Len(v.reserved3) <= MaxU16
      /\ Len(v.entries) <= MaxU16
      /\ \A i \in 1..Len(v.entries) : EntryFitting(v.entries[i])
  BY <1>1 DEF ArchiveFitting
<1>4. v.entries \in Seq(Element("entry")) /\ Len(v.entries) \in Nat
  <2> DEFINE es == v.entries
  <2>1. es \in Seq(ArchiveEntry) /\ \A i \in 1..Len(es) : EntryFitting(es[i])
    BY <1>2, <1>3
  <2> HIDE DEF es
  <2>2. \A i \in 1..Len(es) : es[i] \in ArchiveEntry
    BY <2>1, ElementOfSeq
  <2>3. \A i \in 1..Len(es) : es[i] \in Element("entry")
    BY <2>1, <2>2 DEF Element
  <2>4. es \in Seq(Element("entry")) /\ Len(es) \in Nat
    BY <2>1, <2>3
  <2>. QED BY <2>4 DEF es
<1>5. Len(v.archive_name) \in Byte
  <2>1. Len(v.archive_name) \in Nat
    BY <1>2, LenProperties, Zenon
  <2>. QED BY <1>3, <2>1, ArchiveNameAssumption, Limits DEF Byte
<1>6. Len(v.entries) \in Word
  BY <1>3, <1>4, Limits DEF Word
<1>. QED BY <1>2, <1>3, <1>4, <1>5, <1>6

\* What is in front of the size of the reserved bytes.
ArchiveFront(v) ==
  ArchiveTag \o U32(1) \o U32(v.archive_size) \o Zeros(16)
    \o << Len(v.archive_name) >> \o v.archive_name
    \o Zeros(ArchiveNameField - 1 - Len(v.archive_name))
    \o U16(Len(v.entries)) \o U16(v.file_auto_launch)

LEMMA ArchiveFrontWritten ==
  ASSUME NEW v \in Holds("archive"), NEW f \in Nat, f = ArchiveNameField
  PROVE  LET h == ArchiveFront(v)
         IN  /\ h \in Seq(Byte) /\ Len(h) = 32 + f
             /\ At(h, 0, 4) = ArchiveTag /\ Read(h, 4, 4) = 1 /\ Read(h, 8, 4) = v.archive_size
             /\ At(h, 28, 1) = << Len(v.archive_name) >>
             /\ At(h, 29, Len(v.archive_name)) = v.archive_name
             /\ Read(h, 28 + f, 2) = Len(v.entries) /\ Read(h, 30 + f, 2) = v.file_auto_launch
<1> DEFINE name == v.archive_name
           l == Len(name)
           n == Len(v.entries)
           size == v.archive_size
           launch == v.file_auto_launch
           tag == ArchiveTag
           z == Zeros(16)
           y == Zeros(f - 1 - l)
           b == << l >>
           u1 == tag \o U32(1)
           u2 == u1 \o U32(size)
           u3 == u2 \o z
           u4 == u3 \o b
           u5 == u4 \o name
           u6 == u5 \o y
           u7 == u6 \o U16(n)
           u8 == u7 \o U16(launch)
<1>1. /\ size \in Long /\ launch \in Word /\ name \in Seq(Byte) /\ l < f /\ l \in Byte /\ l \in Nat
      /\ n \in Word
  BY ArchiveHolds, LenProperties
<1>2. ArchiveFront(v) = u8
  BY DEF ArchiveFront
<1>3. tag \in Seq(Byte) /\ Len(tag) = 4
  BY ArchiveTagAssumption
<1>4. z \in Seq(Byte) /\ Len(z) = 16
  <2>1. 16 \in Nat
    OBVIOUS
  <2>. QED BY <2>1, ZerosTyped
<1>5. y \in Seq(Byte) /\ Len(y) = f - 1 - l
  <2>1. f - 1 - l \in Nat
    BY <1>1
  <2>. QED BY <2>1, ZerosTyped
<1>6. b \in Seq(Byte) /\ Len(b) = 1
  BY <1>1
<1>7. 1 \in Long
  BY Limits, Bases DEF Long
<1> HIDE DEF l, n, size, launch, z, y, b, tag
<1>8. u1 \in Seq(Byte) /\ Len(u1) = Len(tag) + 4 /\ Read(u1, Len(tag), 4) = 1 /\ Continues(u1, tag)
  BY <1>3, <1>7, LongAppended, Zenon
<1> HIDE DEF u1
<1>9. u2 \in Seq(Byte) /\ Len(u2) = Len(u1) + 4 /\ Read(u2, Len(u1), 4) = size /\ Continues(u2, u1)
  BY <1>1, <1>8, LongAppended, Zenon
<1> HIDE DEF u2
<1>10. u3 \in Seq(Byte) /\ Len(u3) = Len(u2) + Len(z) /\ Continues(u3, u2)
  <2>1. u2 \in Seq(Byte) /\ z \in Seq(Byte)
    BY <1>4, <1>9
  <2>. QED BY <2>1, Appended
<1> HIDE DEF u3
<1>11. /\ u4 \in Seq(Byte) /\ Len(u4) = Len(u3) + Len(b) /\ Continues(u4, u3)
       /\ At(u4, Len(u3), Len(b)) = b
  <2>1. u3 \in Seq(Byte) /\ b \in Seq(Byte)
    BY <1>6, <1>10
  <2>. QED BY <2>1, Appended
<1> HIDE DEF u4
<1>12. /\ u5 \in Seq(Byte) /\ Len(u5) = Len(u4) + Len(name) /\ Continues(u5, u4)
       /\ At(u5, Len(u4), Len(name)) = name
  <2>1. u4 \in Seq(Byte) /\ name \in Seq(Byte)
    BY <1>1, <1>11
  <2> HIDE DEF name
  <2>. QED BY <2>1, Appended
<1> HIDE DEF name, u5
<1>13. u6 \in Seq(Byte) /\ Len(u6) = Len(u5) + Len(y) /\ Continues(u6, u5)
  <2>1. u5 \in Seq(Byte) /\ y \in Seq(Byte)
    BY <1>5, <1>12
  <2>. QED BY <2>1, Appended
<1> HIDE DEF u6
<1>14. u7 \in Seq(Byte) /\ Len(u7) = Len(u6) + 2 /\ Read(u7, Len(u6), 2) = n /\ Continues(u7, u6)
  BY <1>1, <1>13, WordAppended, Zenon
<1> HIDE DEF u7
<1>15. /\ u8 \in Seq(Byte) /\ Len(u8) = Len(u7) + 2 /\ Read(u8, Len(u7), 2) = launch
       /\ Continues(u8, u7)
  BY <1>1, <1>14, WordAppended, Zenon
<1> HIDE DEF u8
<1>16. /\ Len(tag) = 4 /\ Len(u1) = 8 /\ Len(u2) = 12 /\ Len(u3) = 28 /\ Len(u4) = 29
       /\ Len(u5) = 29 + l /\ Len(u6) = 28 + f /\ Len(u7) = 30 + f /\ Len(u8) = 32 + f
  <2>1. Len(u1) = 8 /\ Len(u2) = 12
    BY <1>3, <1>8, <1>9
  <2>2. Len(u3) = 28 /\ Len(u4) = 29
    BY <1>4, <1>6, <1>10, <1>11, <2>1
  <2>3. Len(u5) = 29 + l
    BY <1>12, <2>2 DEF l
  <2>4. Len(u6) = 28 + f
    BY <1>1, <1>5, <1>13, <2>3
  <2>5. Len(u7) = 30 + f /\ Len(u8) = 32 + f
    BY <1>14, <1>15, <2>4
  <2>. QED BY <1>3, <2>1, <2>2, <2>3, <2>4, <2>5
<1>17. /\ Len(tag) \in Nat /\ Len(u1) \in Nat /\ Len(u2) \in Nat /\ Len(u3) \in Nat
       /\ Len(u4) \in Nat /\ Len(u5) \in Nat /\ Len(u6) \in Nat /\ Len(u7) \in Nat
       /\ Len(tag) <= Len(u1) /\ Len(u1) <= Len(u2) /\ Len(u2) <= Len(u3) /\ Len(u3) <= Len(u4)
       /\ Len(u4) <= Len(u5) /\ Len(u5) <= Len(u6) /\ Len(u6) <= Len(u7)
  BY <1>1, <1>16
<1>18. Continues(u8, u6)
  BY <1>14, <1>15, <1>17, Further, Zenon
<1>19. Continues(u8, u5)
  BY <1>13, <1>17, <1>18, Further, Zenon
<1>20. Continues(u8, u4)
  BY <1>12, <1>17, <1>19, Further, Zenon
<1>21. Continues(u8, u2) /\ Continues(u8, u1) /\ Continues(u8, tag)
  <2>1. Continues(u8, u3)
    BY <1>11, <1>17, <1>20, Further, Zenon
  <2>2. Continues(u8, u2)
    BY <1>10, <1>17, <2>1, Further, Zenon
  <2>3. Continues(u8, u1)
    BY <1>9, <1>17, <2>2, Further, Zenon
  <2>4. Continues(u8, tag)
    BY <1>8, <1>17, <2>3, Further, Zenon
  <2>. QED BY <2>2, <2>3, <2>4
<1>22. At(u8, 0, 4) = tag
  <2>1. At(u8, 0, 4) = At(tag, 0, 4)
    BY <1>16, <1>21 DEF Continues
  <2>2. At(tag, 0, 4) = tag
    BY <1>3, AllOfIt
  <2>. QED BY <2>1, <2>2
<1>23. Read(u8, 4, 4) = 1 /\ Read(u8, 8, 4) = size
  <2>1. At(u8, 4, 4) = At(u1, 4, 4) /\ At(u8, 8, 4) = At(u2, 8, 4)
    BY <1>16, <1>21 DEF Continues
  <2>. QED BY <1>8, <1>9, <1>16, <2>1 DEF Read
<1>24. At(u8, 28, 1) = b
  <2>1. At(u8, 28, 1) = At(u4, 28, 1)
    BY <1>16, <1>20 DEF Continues
  <2>. QED BY <1>6, <1>11, <1>16, <2>1
<1>25. At(u8, 29, l) = name
  <2>1. At(u8, 29, l) = At(u5, 29, l)
    BY <1>1, <1>16, <1>19 DEF Continues
  <2>. QED BY <1>12, <1>16, <2>1 DEF l
<1>26. Read(u8, 28 + f, 2) = n
  <2>1. At(u8, 28 + f, 2) = At(u7, 28 + f, 2)
    BY <1>15, <1>16 DEF Continues
  <2>. QED BY <1>14, <1>16, <2>1 DEF Read
<1>27. Read(u8, 30 + f, 2) = launch
  BY <1>15, <1>16
<1>. QED BY <1>2, <1>15, <1>16, <1>22, <1>23, <1>24, <1>25, <1>26, <1>27
     DEF tag, size, b, l, name, n, launch

\* What the parts of an archive are read as.
ArchiveOf(s, reserved3, entries) ==
  [archive_size |-> Read(s, 8, 4), archive_name |-> ArchiveName(s),
   file_auto_launch |-> Read(s, ArchiveHeaderSize - 4, 2), reserved3 |-> reserved3,
   entries |-> entries]

LEMMA ArchiveIs ==
  ASSUME NEW s \in Seq(Byte), ArchiveHeaderSize <= Len(s), ArchiveHeaderSize \in Nat,
         First(s, 4) = ArchiveTag, Read(s, 4, 4) = 1,
         NEW reserved3, NEW d, NEW n \in Nat, NEW entries,
         Counted(s, ArchiveHeaderSize - 2, 2) = Got(reserved3, d),
         Read(s, ArchiveHeaderSize - 6, 2) = n,
         SomeOf("entry", n, d, n) = Got(entries, << >>)
  PROVE  DecodeArchive(s) = Good(ArchiveOf(s, reserved3, entries))
<1> DEFINE m == Read(s, ArchiveHeaderSize - 6, 2)
           one == Counted(s, ArchiveHeaderSize - 2, 2)
           two == Whole(Items(m, one.rest, ReadEntryOf))
<1>1. DecodeArchive(s)
        = IF Len(s) < ArchiveHeaderSize THEN Truncated
          ELSE IF First(s, 4) # ArchiveTag THEN Fail("wrong_format_tag")
          ELSE IF Read(s, 4, 4) # 1 THEN Fail("unsupported_version")
          ELSE IF one.ok
            THEN IF two.ok
              THEN Good([archive_size |-> Read(s, 8, 4), archive_name |-> ArchiveName(s),
                         file_auto_launch |-> Read(s, ArchiveHeaderSize - 4, 2),
                         reserved3 |-> one.value, entries |-> two.value])
              ELSE two
            ELSE one
  BY DEF DecodeArchive, Then
<1>2. one.ok /\ one.value = reserved3 /\ one.rest = d
  BY GotIs
<1>3. two.ok /\ two.value = entries
  <2>1. Items(m, d, ReadEntryOf) = Got(entries, << >>)
    BY EntriesAre
  <2>2. two = Whole(Got(entries, << >>))
    BY <1>2, <2>1
  <2> HIDE DEF two
  <2>3. two = Good(entries)
    BY <2>2, WholeIs, GotIs
  <2>. QED BY <2>3, GoodIs
<1>4. ~ (Len(s) < ArchiveHeaderSize)
  OBVIOUS
<1> HIDE DEF one, two
<1>. QED BY <1>1, <1>2, <1>3, <1>4, Zenon DEF ArchiveOf

LEMMA ArchiveWritten == Written("archive")
<1> SUFFICES ASSUME NEW v \in Holds("archive")
             PROVE  /\ WriteArchive(v) \in Seq(Byte)
                    /\ DecodeArchive(WriteArchive(v)) = Good(v)
  <2>1. \A v : Encode("archive", v) = Good(WriteArchive(v))
    BY DEF Encode
  <2>2. \A s : Decode("archive", s) = DecodeArchive(s)
    BY DEF Decode
  <2>. QED BY <2>1, <2>2, GoodIs DEF Written
<1> DEFINE f == ArchiveNameField
           h == ArchiveFront(v)
           o == 32 + f
           d == v.reserved3
           b == U16(Len(d))
           w == (h \o b) \o d
           es == v.entries
           a == AllOf("entry", es)
           n == Len(es)
           name == v.archive_name
           s == w \o a
<1>1. f \in Nat /\ o \in Nat /\ ArchiveHeaderSize = o + 2 /\ o >= 32
  BY ArchiveNameAssumption, Bases DEF ArchiveHeaderSize, NameAt
<1>2. /\ d \in Seq(Byte) /\ Len(d) \in Nat /\ Len(d) <= MaxU16 /\ es \in Seq(Element("entry"))
      /\ n \in Word /\ name \in Seq(Byte) /\ Len(name) < f /\ Len(name) \in Byte
  BY ArchiveHolds, LenProperties
<1>3. /\ h \in Seq(Byte) /\ Len(h) = o
      /\ At(h, 0, 4) = ArchiveTag /\ Read(h, 4, 4) = 1 /\ Read(h, 8, 4) = v.archive_size
      /\ At(h, 28, 1) = << Len(name) >> /\ At(h, 29, Len(name)) = name
      /\ Read(h, 28 + f, 2) = n /\ Read(h, 30 + f, 2) = v.file_auto_launch
  <2> HIDE DEF h, f
  <2>. QED BY <1>1, ArchiveFrontWritten DEF h, f
<1>4. WriteArchive(v) = s
  BY Zenon DEF WriteArchive, ArchiveFront, AllOf, WriteOne
<1>5. b \in Seq(Byte) /\ Len(b) = 2 /\ Number(b) = Len(d)
  BY <1>2, WordWritten
<1>6. a \in Seq(Byte)
  BY <1>2, EntryElement, AllOfTyped
<1> HIDE DEF h, o, f, b, d, a
<1>7. /\ w \in Seq(Byte) /\ Continues(w, h) /\ Len(w) = (o + 2) + Len(d)
      /\ \A c \in Seq(Byte) : Counted(w \o c, o, 2) = Got(d, c)
  <2> DEFINE m == 2
  <2>1. /\ h \in Seq(Byte) /\ o \in Nat /\ Len(h) = o /\ d \in Seq(Byte) /\ b \in Seq(Byte)
        /\ m \in Nat /\ Len(b) = m /\ Number(b) = Len(d)
    BY <1>1, <1>2, <1>3, <1>5
  <2> HIDE DEF m
  <2>2. /\ w \in Seq(Byte) /\ Continues(w, h) /\ Len(w) = (o + m) + Len(d)
        /\ \A c \in Seq(Byte) : Counted(w \o c, o, m) = Got(d, c)
    BY <2>1, RunBehind
  <2>. QED BY <2>2, Zenon DEF m
<1> HIDE DEF w
<1>8. s \in Seq(Byte) /\ Len(s) = Len(w) + Len(a) /\ Continues(s, h) /\ Counted(s, o, 2) = Got(d, a)
  <2>1. w \in Seq(Byte) /\ a \in Seq(Byte)
    BY <1>6, <1>7
  <2>2. s \in Seq(Byte) /\ Len(s) = Len(w) + Len(a) /\ Continues(s, w)
    BY <2>1, Appended
  <2>3. Len(h) \in Nat /\ Len(w) \in Nat /\ Len(h) <= Len(w)
    BY <1>1, <1>2, <1>3, <1>7
  <2> HIDE DEF s
  <2>4. Continues(s, h)
    BY <1>7, <2>2, <2>3, Further
  <2>. QED BY <1>6, <1>7, <2>2, <2>4 DEF s
<1> HIDE DEF s
<1>9. ArchiveHeaderSize <= Len(s)
  <2>1. Len(a) \in Nat
    BY <1>6, LenProperties, Zenon
  <2>. QED BY <1>1, <1>2, <1>7, <1>8, <2>1
<1>10. /\ At(s, 0, 4) = At(h, 0, 4) /\ At(s, 4, 4) = At(h, 4, 4) /\ At(s, 8, 4) = At(h, 8, 4)
       /\ At(s, 28, 1) = At(h, 28, 1) /\ At(s, 29, Len(name)) = At(h, 29, Len(name))
       /\ At(s, 28 + f, 2) = At(h, 28 + f, 2) /\ At(s, 30 + f, 2) = At(h, 30 + f, 2)
  <2>1. 32 + f = o /\ Len(name) \in Nat
    BY <1>2, LenProperties DEF o
  <2>. QED BY <1>1, <1>2, <1>3, <1>8, <2>1 DEF Continues
<1>11. First(s, 4) = ArchiveTag
  <2>1. First(s, 4) = At(s, 0, 4)
    BY DEF First, At
  <2>. QED BY <1>3, <1>10, <2>1
<1>12. /\ Read(s, 4, 4) = 1 /\ Read(s, 8, 4) = v.archive_size
       /\ Read(s, 28 + f, 2) = n /\ Read(s, 30 + f, 2) = v.file_auto_launch
  BY <1>3, <1>10 DEF Read
<1>13. ArchiveName(s) = name
  <2>1. s[29] = Len(name)
    <3>1. 28 \in Nat /\ 1 \in Nat /\ 28 + 1 <= Len(s)
      BY <1>1, <1>9
    <3> DEFINE p == 28
               q == 1
    <3>2. p \in Nat /\ q \in Nat /\ p + q <= Len(s) /\ q \in 1..q /\ p + q = 29
      BY <3>1
    <3> HIDE DEF p, q
    <3>3. At(s, p, q)[q] = s[p + q]
      BY <1>8, <3>2, Part
    <3>. QED BY <1>3, <1>10, <3>2, <3>3 DEF p, q
  <2>2. ArchiveName(s) = At(s, 29, Len(name))
    BY <1>2, <2>1 DEF ArchiveName, NameAt, f
  <2>. QED BY <1>3, <1>10, <2>2
<1>14. DecodeArchive(s) = Good(ArchiveOf(s, d, es))
  <2>1. SomeOf("entry", n, a, n) = Got(es, << >>)
    <3>1. n \in Nat /\ << >> \in Seq(Byte) /\ a \o << >> = a
      BY <1>2, <1>6, Limits DEF Word
    <3>2. SomeOf("entry", n, AllOf("entry", es) \o << >>, n) = Got(es, << >>)
      BY <1>2, <3>1, EntryElement, ItemsWritten
    <3>. QED BY <3>1, <3>2 DEF a
  <2>2. ArchiveHeaderSize - 2 = o /\ ArchiveHeaderSize - 6 = 28 + f
    BY <1>1 DEF o
  <2>3. n \in Nat /\ ArchiveHeaderSize \in Nat
    BY <1>1, <1>2, Limits DEF Word
  <2> HIDE DEF n, es
  <2>. QED BY <1>8, <1>9, <1>11, <1>12, <2>1, <2>2, <2>3, ArchiveIs
<1>15. ArchiveOf(s, d, es) = v
  <2>1. ArchiveHeaderSize - 4 = 30 + f
    BY <1>1 DEF o
  <2>. QED BY <1>12, <1>13, <2>1, ArchiveHolds DEF ArchiveOf, d
<1>. QED BY <1>4, <1>8, <1>14, <1>15

-----------------------------------------------------------------------------
(* The records of transfers are read as they were written.                 *)

\* A tag, a version, reserved bytes and a count.
LEMMA TaggedHead ==
  ASSUME NEW tag \in Seq(Byte), Len(tag) = 4, NEW version \in Word, NEW n \in Word, NEW p \in Nat
  PROVE  LET h == ((tag \o U16(version)) \o Zeros(p)) \o U16(n)
         IN  /\ h \in Seq(Byte) /\ Len(h) = 8 + p /\ At(h, 0, 4) = tag
             /\ Read(h, 4, 2) = version /\ Read(h, 6 + p, 2) = n
<1> DEFINE z == Zeros(p)
           u1 == tag \o U16(version)
           u2 == u1 \o z
           u3 == u2 \o U16(n)
<1>1. z \in Seq(Byte) /\ Len(z) = p
  BY ZerosTyped
<1>2. /\ u1 \in Seq(Byte) /\ Len(u1) = Len(tag) + 2 /\ Read(u1, Len(tag), 2) = version
      /\ Continues(u1, tag)
  BY WordAppended, Zenon
<1> HIDE DEF z, u1
<1>3. u2 \in Seq(Byte) /\ Len(u2) = Len(u1) + Len(z) /\ Continues(u2, u1)
  <2>1. u1 \in Seq(Byte) /\ z \in Seq(Byte)
    BY <1>1, <1>2
  <2>. QED BY <2>1, Appended
<1> HIDE DEF u2
<1>4. u3 \in Seq(Byte) /\ Len(u3) = Len(u2) + 2 /\ Read(u3, Len(u2), 2) = n /\ Continues(u3, u2)
  BY <1>3, WordAppended, Zenon
<1> HIDE DEF u3
<1>5. Len(tag) = 4 /\ Len(u1) = 6 /\ Len(u2) = 6 + p /\ Len(u3) = 8 + p
  BY <1>1, <1>2, <1>3, <1>4
<1>6. /\ Len(tag) \in Nat /\ Len(u1) \in Nat /\ Len(u2) \in Nat
      /\ Len(tag) <= Len(u1) /\ Len(u1) <= Len(u2)
  BY <1>5
<1>7. Continues(u3, u1)
  BY <1>3, <1>4, <1>6, Further, Zenon
<1>8. Continues(u3, tag)
  BY <1>2, <1>6, <1>7, Further, Zenon
<1>9. At(u3, 0, 4) = tag
  <2>1. At(u3, 0, 4) = At(tag, 0, 4)
    BY <1>5, <1>8 DEF Continues
  <2>2. At(tag, 0, Len(tag)) = tag
    BY AllOfIt
  <2>. QED BY <2>1, <2>2
<1>10. Read(u3, 4, 2) = version
  <2>1. At(u3, 4, 2) = At(u1, 4, 2)
    BY <1>5, <1>7 DEF Continues
  <2>. QED BY <1>2, <1>5, <2>1 DEF Read
<1>. QED BY <1>4, <1>5, <1>9, <1>10 DEF u3, u2, u1, z

\* The same with something behind it.
LEMMA BehindHead ==
  ASSUME NEW tag \in Seq(Byte), Len(tag) = 4, NEW version \in Word, NEW n \in Word, NEW p \in Nat,
         NEW a \in Seq(Byte)
  PROVE  LET s == (((tag \o U16(version)) \o Zeros(p)) \o U16(n)) \o a
         IN  /\ s \in Seq(Byte) /\ Len(s) = (8 + p) + Len(a) /\ First(s, 4) = tag
             /\ Read(s, 4, 2) = version /\ Read(s, 6 + p, 2) = n /\ Rest(s, 8 + p) = a
             /\ \A o \in Nat, m \in Nat :
                  o + m <= Len(a) => At(s, (8 + p) + o, m) = At(a, o, m)
<1> DEFINE h == ((tag \o U16(version)) \o Zeros(p)) \o U16(n)
           s == h \o a
           l == 8 + p
<1>1. /\ h \in Seq(Byte) /\ Len(h) = l /\ At(h, 0, 4) = tag
      /\ Read(h, 4, 2) = version /\ Read(h, 6 + p, 2) = n
  <2>1. h \in Seq(Byte)
    BY TaggedHead
  <2>2. Len(h) = 8 + p
    BY TaggedHead
  <2>3. At(h, 0, 4) = tag
    BY TaggedHead
  <2>4. Read(h, 4, 2) = version
    BY TaggedHead
  <2>5. Read(h, 6 + p, 2) = n
    BY TaggedHead
  <2> HIDE DEF h
  <2>. QED BY <2>1, <2>2, <2>3, <2>4, <2>5
<1>2. l \in Nat /\ l = 8 + p
  OBVIOUS
<1> HIDE DEF h, l
<1>3. s \in Seq(Byte) /\ Len(s) = Len(h) + Len(a) /\ Continues(s, h)
  <2>1. h \in Seq(Byte)
    BY <1>1
  <2>. QED BY <2>1, Appended
<1>4. Rest(s, l) = a
  <2>1. h \in Seq(Byte) /\ l = Len(h)
    BY <1>1
  <2>. QED BY <1>2, <2>1, LeftBehind
<1>5. ASSUME NEW o \in Nat, NEW m \in Nat, o + m <= Len(a)
      PROVE  At(s, l + o, m) = At(a, o, m)
  <2> DEFINE q == l + o
  <2>1. q \in Nat /\ q = Len(h) + o /\ h \in Seq(Byte)
    BY <1>1, <1>2
  <2> HIDE DEF q
  <2>2. At(h \o a, q, m) = At(a, o, m)
    BY <1>5, <2>1, Shifted
  <2>. QED BY <2>2 DEF q
<1> HIDE DEF s
<1>6. /\ At(s, 0, 4) = At(h, 0, 4) /\ At(s, 4, 2) = At(h, 4, 2)
      /\ At(s, 6 + p, 2) = At(h, 6 + p, 2)
  BY <1>1, <1>2, <1>3 DEF Continues
<1>7. First(s, 4) = At(s, 0, 4)
  BY DEF First, At
<1>8. First(s, 4) = tag /\ Read(s, 4, 2) = version /\ Read(s, 6 + p, 2) = n
  BY <1>1, <1>6, <1>7 DEF Read
<1>9. Len(s) = l + Len(a)
  BY <1>1, <1>3
<1>. QED BY <1>3, <1>4, <1>5, <1>8, <1>9 DEF s, h, l

\* A file of which every fork is as long as its size can say.
LEMMA FlatReturned ==
  ASSUME NEW v \in Holds("flat"), Encode("flat", v).ok,
         \A i \in 1..Len(v.forks) : Len(v.forks[i].data) <= MaxU32
  PROVE  Encode("flat", v).value \in Seq(Byte)
         /\ Decode("flat", Encode("flat", v).value) = Good(v)
<1> DEFINE forks == v.forks
           n == Len(forks)
           version == v.version
           tag == FlatFileTag
           a == AllOf("fork", forks)
           s == (((tag \o U16(version)) \o Zeros(16)) \o U16(n)) \o a
<1>1. Encode("flat", v) = IF n > MaxU16 THEN Fail("count_too_large") ELSE Good(s)
  BY Zenon DEF Encode, EncodeFlatFile, AllOf, WriteOne
<1>2. /\ version \in Word /\ forks \in Seq(Fork) /\ v = [version |-> version, forks |-> forks]
      /\ tag \in Seq(Byte) /\ Len(tag) = 4
  BY TransferTagsAssumption DEF Holds, FlatFile
<1>3. \A i \in 1..Len(forks) : Len(forks[i].data) <= MaxU32
  OBVIOUS
<1> HIDE DEF forks, version, tag
<1>4. forks \in Seq(Element("fork"))
  <2>1. \A i \in 1..n : forks[i] \in Fork
    BY <1>2, ElementOfSeq
  <2>2. \A x \in Fork : Len(x.data) <= MaxU32 => x \in Element("fork")
    BY DEF Fork, Element, Runs
  <2>. QED BY <1>2, <1>3, <2>1, <2>2
<1>5. a \in Seq(Byte)
  BY <1>4, ForkElement, AllOfTyped
<1>6. n \in Nat /\ n <= MaxU16 /\ n \in Word
  <2>1. n \in Nat
    BY <1>2
  <2> HIDE DEF s, n
  <2>. QED BY <1>1, <2>1, Limits DEF Word, Fail
<1>7. Encode("flat", v).value = s
  <2>1. ~ (n > MaxU16)
    BY <1>6, Limits
  <2> HIDE DEF s, n
  <2>. QED BY <1>1, <2>1, GoodIs
<1> HIDE DEF a, n
<1>8. /\ s \in Seq(Byte) /\ Len(s) = 24 + Len(a) /\ First(s, 4) = tag
      /\ Read(s, 4, 2) = version /\ Read(s, 22, 2) = n /\ Rest(s, 24) = a
  <2> DEFINE p == 16
  <2>1. p \in Nat /\ 8 + p = 24 /\ 6 + p = 22
    OBVIOUS
  <2> HIDE DEF p
  <2> DEFINE t == (((tag \o U16(version)) \o Zeros(p)) \o U16(n)) \o a
  <2>2. /\ t \in Seq(Byte) /\ Len(t) = (8 + p) + Len(a) /\ First(t, 4) = tag
        /\ Read(t, 4, 2) = version /\ Read(t, 6 + p, 2) = n /\ Rest(t, 8 + p) = a
    <3>1. /\ tag \in Seq(Byte) /\ Len(tag) = 4 /\ version \in Word /\ n \in Word
          /\ p \in Nat /\ a \in Seq(Byte)
      BY <1>2, <1>5, <1>6, <2>1
    <3>2. t \in Seq(Byte)
      BY <3>1, BehindHead
    <3>3. Len(t) = (8 + p) + Len(a)
      BY <3>1, BehindHead
    <3>4. First(t, 4) = tag
      BY <3>1, BehindHead
    <3>5. Read(t, 4, 2) = version
      BY <3>1, BehindHead
    <3>6. Read(t, 6 + p, 2) = n
      BY <3>1, BehindHead
    <3>7. Rest(t, 8 + p) = a
      BY <3>1, BehindHead
    <3> HIDE DEF t
    <3>. QED BY <3>2, <3>3, <3>4, <3>5, <3>6, <3>7
  <2>3. t = s
    BY DEF p
  <2> HIDE DEF s, t
  <2>. QED BY <2>1, <2>2, <2>3
<1> HIDE DEF s
<1>9. DecodeFlatFile(s) = Good(v)
  <2> DEFINE all == Items(Read(s, 22, 2), Rest(s, 24), ReadFork)
  <2>1. all = Got(forks, << >>)
    <3>1. << >> \in Seq(Byte) /\ a \o << >> = a /\ Len(forks) = n
      BY <1>5 DEF n
    <3>2. SomeOf("fork", n, AllOf("fork", forks) \o << >>, n) = Got(forks, << >>)
      BY <1>4, <1>6, <3>1, ForkElement, ItemsWritten
    <3>3. SomeOf("fork", n, a, n) = Got(forks, << >>)
      BY <3>1, <3>2 DEF a
    <3>4. Items(n, a, ReadFork) = SomeOf("fork", n, a, n)
      BY <1>6, ForksAre
    <3>. QED BY <1>8, <3>3, <3>4
  <2>2. Whole(all) = Good(forks)
    <3> HIDE DEF all
    <3>. QED BY <2>1, WholeIs, GotIs
  <2>3. ~ (Len(s) < 24)
    BY <1>5, <1>8
  <2> DEFINE whole == Whole(all)
  <2>4. DecodeFlatFile(s)
          = IF Len(s) < 24 THEN Truncated
            ELSE IF First(s, 4) # FlatFileTag THEN Fail("wrong_format_tag")
            ELSE IF whole.ok THEN Good([version |-> Read(s, 4, 2), forks |-> whole.value])
            ELSE whole
    BY DEF DecodeFlatFile, FlatFileHeaderSize, Then
  <2> HIDE DEF whole
  <2>5. whole.ok /\ whole.value = forks
    BY <2>2, GoodIs DEF whole
  <2>6. First(s, 4) = FlatFileTag
    BY <1>8 DEF tag
  <2>7. DecodeFlatFile(s) = Good([version |-> version, forks |-> forks])
    BY <1>8, <2>3, <2>4, <2>5, <2>6, Zenon
  <2>. QED BY <1>2, <2>7
<1>10. Decode("flat", s) = DecodeFlatFile(s)
  BY DEF Decode
<1>. QED BY <1>7, <1>8, <1>9, <1>10

-----------------------------------------------------------------------------
(* Powers of two, and access masks.                                        *)

LEMMA PowerIsSubsets ==
  ASSUME NEW e \in Nat
  PROVE  /\ IsFiniteSet(1..e) /\ Cardinality(1..e) = e
         /\ IsFiniteSet(SUBSET (1..e)) /\ Cardinality(SUBSET (1..e)) = 2^e
<1>1. IsFiniteSet(1..e) /\ Cardinality(1..e) = e
  BY FS_Interval
<1>. QED BY <1>1, FS_SUBSET

LEMMA PowerIsNat ==
  ASSUME NEW e \in Nat
  PROVE  2^e \in Nat \ {0}
<1>1. IsFiniteSet(SUBSET (1..e)) /\ Cardinality(SUBSET (1..e)) = 2^e
  BY PowerIsSubsets
<1>2. SUBSET (1..e) # {}
  OBVIOUS
<1> DEFINE S == SUBSET (1..e)
<1> HIDE DEF S
<1>3. Cardinality(S) \in Nat /\ Cardinality(S) # 0
  BY <1>1, <1>2, FS_CardinalityType, FS_EmptySet DEF S
<1>. QED BY <1>1, <1>3, Zenon DEF S

LEMMA PowerNext ==
  ASSUME NEW e \in Nat
  PROVE  2^(e + 1) = 2^e + 2^e
<1> DEFINE n == e + 1
           A == SUBSET (1..e)
           B == {T \in SUBSET (1..n) : n \in T}
           f == [T \in A |-> T \cup {n}]
<1>1. n \in Nat /\ n \notin 1..e /\ 1..n = 1..e \cup {n}
  OBVIOUS
<1> HIDE DEF n
<1>2. A \cup B = SUBSET (1..n) /\ A \cap B = {}
  BY <1>1
<1>3. f \in Bijection(A, B)
  <2>1. f \in [A -> B]
    BY <1>1
  <2>2. \A T \in A, U \in A : f[T] = f[U] => T = U
    BY <1>1
  <2>3. \A V \in B : \E T \in A : f[T] = V
    <3> SUFFICES ASSUME NEW V \in B
                 PROVE  \E T \in A : f[T] = V
      OBVIOUS
    <3>1. V \ {n} \in A /\ (V \ {n}) \cup {n} = V
      BY <1>1
    <3>. QED BY <3>1
  <2> HIDE DEF A, B, f
  <2>4. f \in Injection(A, B)
    BY <2>1, <2>2 DEF Injection, IsInjective
  <2>5. f \in Surjection(A, B)
    BY <2>1, <2>3 DEF Surjection
  <2>. QED BY <2>4, <2>5, Zenon DEF Bijection
<1>4. IsFiniteSet(A) /\ Cardinality(A) = 2^e
  BY PowerIsSubsets
<1>5. Cardinality(SUBSET (1..n)) = 2^n
  BY <1>1, PowerIsSubsets
<1> HIDE DEF A, B, f
<1>6. IsFiniteSet(B) /\ Cardinality(B) = Cardinality(A)
  <2>1. ExistsBijection(A, B)
    BY <1>3 DEF ExistsBijection
  <2>. QED BY <1>4, <2>1, FS_Bijection
<1>7. Cardinality(A \cup B) = Cardinality(A) + Cardinality(B) - Cardinality(A \cap B)
  BY <1>4, <1>6, FS_Union
<1>8. Cardinality(A \cap B) = 0
  BY <1>2, FS_EmptySet
<1>9. 2^e \in Nat
  BY PowerIsNat
<1>10. 2^n = 2^e + 2^e - 0
  BY <1>2, <1>4, <1>5, <1>6, <1>7, <1>8, Zenon
<1>11. \A x \in Nat : x + x - 0 = x + x
  OBVIOUS
<1>12. 2^n = 2^e + 2^e
  BY <1>9, <1>10, <1>11, Zenon
<1>. QED BY <1>12, Zenon DEF n
\* The quotient and the remainder of natural numbers.
LEMMA DivisionIs ==
  ASSUME NEW b \in Nat \ {0}, NEW a \in Nat
  PROVE  /\ a \div b \in Nat /\ a % b \in 0..(b - 1)
         /\ a = (b * (a \div b)) + (a % b)
<1>1. a \in Int
  OBVIOUS
<1>. QED BY <1>1, DivisionExact, DivisionNat, Zenon

LEMMA QuotientIs ==
  ASSUME NEW b \in Nat \ {0}, NEW q \in Nat, NEW r \in Nat, r < b
  PROVE  (b * q + r) \div b = q /\ (b * q + r) % b = r
<1> DEFINE a == b * q + r
           d == a \div b
           e == a % b
<1>1. a \in Nat
  OBVIOUS
<1>2. d \in Nat /\ e \in 0..(b - 1) /\ a = (b * d) + e
  <2> HIDE DEF a
  <2>. QED BY <1>1, DivisionIs, Zenon
<1>3. b * q + r = b * d + e
  BY <1>2
<1> HIDE DEF a, d, e
<1>4. d = q
  <2>1. CASE d >= q + 1
    <3>1. b * d >= b * (q + 1)
      BY <1>2, <2>1
    <3>2. b * (q + 1) = b * q + b
      OBVIOUS
    <3>. QED BY <1>2, <1>3, <3>1, <3>2
  <2>2. CASE q >= d + 1
    <3>1. b * q >= b * (d + 1)
      BY <1>2, <2>2
    <3>2. b * (d + 1) = b * d + b
      BY <1>2
    <3>. QED BY <1>2, <1>3, <3>1, <3>2
  <2>. QED BY <1>2, <2>1, <2>2
<1>5. e = r
  BY <1>2, <1>3, <1>4
<1>. QED BY <1>4, <1>5 DEF a, d, e

\* Division by a product in two steps.
LEMMA DivisionTwice ==
  ASSUME NEW b \in Nat \ {0}, NEW c \in Nat \ {0}, NEW a \in Nat
  PROVE  a \div (b * c) = (a \div b) \div c
<1> DEFINE q == a \div b
           r == a % b
           p == q \div c
           s == q % c
<1>1. q \in Nat /\ r \in 0..(b - 1) /\ a = b * q + r
  BY DivisionIs, Zenon
<1> HIDE DEF q, r
<1>2. p \in Nat /\ s \in 0..(c - 1) /\ q = c * p + s
  BY <1>1, DivisionIs, Zenon
<1> HIDE DEF p, s
<1> DEFINE e == b * s + r
           bc == b * c
<1>3. e \in Nat /\ bc \in Nat \ {0} /\ e < bc
  <2>1. s \in Nat /\ r \in Nat /\ r < b /\ s + 1 <= c
    BY <1>1, <1>2
  <2>2. b * s \in Nat /\ b * c \in Nat /\ b * c # 0
    BY <2>1
  <2>3. b * (s + 1) <= b * c
    BY <2>1
  <2>4. b * (s + 1) = b * s + b
    BY <2>1
  <2>. QED BY <2>1, <2>2, <2>3, <2>4
<1>4. a = bc * p + e
  <2>1. a = b * (c * p + s) + r
    BY <1>1, <1>2
  <2>2. s \in Nat /\ r \in Nat
    BY <1>1, <1>2
  <2>3. b * (c * p + s) = b * c * p + b * s
    BY <1>2, <2>2
  <2>4. b * c * p \in Nat /\ b * s \in Nat
    BY <1>2, <2>2
  <2>. QED BY <2>1, <2>2, <2>3, <2>4
<1> HIDE DEF e, bc
<1>5. a \div bc = p
  BY <1>2, <1>3, <1>4, QuotientIs
<1>. QED BY <1>5 DEF bc, p, q

Bit(m, place) == (m \div place) % 2 = 1

\* Adding a place whose bit is not set carries into no other bit.
LEMMA BitAdded ==
  ASSUME NEW m \in Nat, NEW p \in Nat \ {0}, ~ Bit(m, p)
  PROVE  /\ Bit(m + p, p)
         /\ \A t \in Nat \ {0} : (m + p) \div (2 * p * t) = m \div (2 * p * t)
         /\ \A q \in Nat \ {0}, t \in Nat : p = 2 * q * t => (Bit(m + p, q) <=> Bit(m, q))
<1> DEFINE k == m \div p
           r == m % p
           j == k \div 2
<1>1. k \in Nat /\ r \in 0..(p - 1) /\ m = p * k + r
  BY DivisionIs, Zenon
<1>2. k % 2 # 1
  BY DEF Bit
<1> HIDE DEF k, r
<1>3. j \in Nat /\ k = 2 * j
  BY <1>1, <1>2
<1> HIDE DEF j
<1>4. m + p = p * (k + 1) + r
  BY <1>1
<1>5. (m + p) \div p = k + 1
  <2>1. k + 1 \in Nat /\ r \in Nat /\ r < p
    BY <1>1
  <2>. QED BY <1>4, <2>1, QuotientIs
<1>6. Bit(m + p, p)
  <2>1. (k + 1) % 2 = 1
    BY <1>3
  <2>. QED BY <1>5, <2>1 DEF Bit
<1>7. ASSUME NEW t \in Nat \ {0}
      PROVE  (m + p) \div (2 * p * t) = m \div (2 * p * t)
  <2> DEFINE b == 2 * p
  <2>1. b \in Nat \ {0} /\ r \in Nat /\ r < b /\ p + r \in Nat /\ p + r < b
    BY <1>1
  <2>2. m = b * j + r /\ m + p = b * j + (p + r)
    <3>1. p * k = b * j
      BY <1>3
    <3>2. p * k \in Nat
      BY <1>1
    <3>3. b * j \in Nat
      BY <1>3, <2>1
    <3> HIDE DEF b
    <3>. QED BY <1>1, <3>1, <3>2, <3>3
  <2> HIDE DEF b
  <2>3. m \div b = j /\ (m + p) \div b = j
    <3>1. (b * j + r) \div b = j
      BY <1>3, <2>1, QuotientIs
    <3>2. (b * j + (p + r)) \div b = j
      BY <1>3, <2>1, QuotientIs
    <3>. QED BY <2>2, <3>1, <3>2
  <2>4. m + p \in Nat
    OBVIOUS
  <2>5. m \div (b * t) = (m \div b) \div t
    BY <2>1, DivisionTwice
  <2>6. (m + p) \div (b * t) = ((m + p) \div b) \div t
    BY <2>1, <2>4, DivisionTwice
  <2>. QED BY <2>3, <2>5, <2>6 DEF b
<1>8. ASSUME NEW q \in Nat \ {0}, NEW t \in Nat, p = 2 * q * t
      PROVE  Bit(m + p, q) <=> Bit(m, q)
  <2> DEFINE d == m \div q
             e == m % q
  <2>1. d \in Nat /\ e \in 0..(q - 1) /\ m = q * d + e
    BY DivisionIs, Zenon
  <2> HIDE DEF d, e
  <2>2. m + p = q * (d + 2 * t) + e
    <3>1. q * (d + 2 * t) = q * d + 2 * q * t
      BY <2>1
    <3>2. q * d \in Nat /\ 2 * q * t \in Nat
      BY <2>1
    <3>. QED BY <1>8, <2>1, <3>1, <3>2
  <2>3. (m + p) \div q = d + 2 * t
    <3>1. d + 2 * t \in Nat /\ e \in Nat /\ e < q
      BY <2>1
    <3>. QED BY <2>2, <3>1, QuotientIs
  <2>4. (d + 2 * t) % 2 = d % 2
    BY <2>1
  <2>. QED BY <2>3, <2>4 DEF Bit, d
<1>. QED BY <1>6, <1>7, <1>8
LEMMA PowerSum ==
  ASSUME NEW a \in Nat, NEW b \in Nat
  PROVE  2^(a + b) = 2^a * 2^b
<1> DEFINE K == {k \in Nat : 2^(a + k) = 2^a * 2^k}
<1>0. 2^0 = 1 /\ 2^a \in Nat
  BY PowerIsNat
<1>1. 0 \in K
  <2>1. a + 0 = a
    OBVIOUS
  <2>2. 2^a * 1 = 2^a
    BY <1>0
  <2>. QED BY <1>0, <2>1, <2>2
<1>2. ASSUME NEW k \in K
      PROVE  k + 1 \in K
  <2>1. k \in Nat /\ 2^(a + k) = 2^a * 2^k /\ a + k \in Nat /\ a + (k + 1) = (a + k) + 1
    OBVIOUS
  <2>2. 2^((a + k) + 1) = 2^(a + k) + 2^(a + k) /\ 2^(k + 1) = 2^k + 2^k
    BY <2>1, PowerNext
  <2>3. 2^a \in Nat /\ 2^k \in Nat
    BY <2>1, PowerIsNat
  <2>4. \A x \in Nat, y \in Nat : x * y + x * y = x * (y + y)
    OBVIOUS
  <2>5. 2^a * 2^k + 2^a * 2^k = 2^a * (2^k + 2^k)
    BY <2>3, <2>4, Zenon
  <2>6. 2^(a + (k + 1)) = 2^a * 2^(k + 1)
    BY <2>1, <2>2, <2>5, Zenon
  <2>. QED BY <2>1, <2>6
<1>3. K = Nat
  <2>1. K \in SUBSET Nat
    OBVIOUS
  <2> HIDE DEF K
  <2>. QED BY <1>1, <1>2, <2>1, Induction
<1>. QED BY <1>3

LEMMA MaskBitsAre == MaskBits = 8 * ByteBits /\ MaskBits \in Nat
BY ByteBitsAre DEF MaskBits, AccessMaskSize

Masks == {m \in Nat : m < 2^MaskBits}

LEMMA PlaceIs ==
  ASSUME NEW p \in 0..MaskBits - 1
  PROVE  /\ Place(p) \in Nat \ {0}
         /\ \E t \in Nat \ {0} : 2^MaskBits = 2 * Place(p) * t
         /\ \A q \in 0..MaskBits - 1 :
              q < p => \E t \in Nat \ {0} : Place(q) = 2 * Place(p) * t
<1> DEFINE e == MaskBits - 1 - p
           P == 2^e
<1>1. e \in Nat /\ Place(p) = P
  BY MaskBitsAre DEF Place
<1>2. P \in Nat \ {0}
  <2> HIDE DEF e
  <2>. QED BY <1>1, PowerIsNat
<1>3. ASSUME NEW f \in Nat, e < f
      PROVE  \E t \in Nat \ {0} : 2^f = 2 * P * t
  <2> DEFINE d == f - e - 1
  <2>1. d \in Nat /\ e + 1 \in Nat /\ (e + 1) + d = f
    BY <1>1, <1>3
  <2> HIDE DEF e, d
  <2>2. 2^((e + 1) + d) = 2^(e + 1) * 2^d
    BY <2>1, PowerSum
  <2>3. 2^(e + 1) = 2^e + 2^e
    BY <1>1, PowerNext
  <2>4. 2^d \in Nat \ {0}
    BY <2>1, PowerIsNat
  <2>5. P + P = 2 * P
    BY <1>2
  <2>6. 2^f = 2 * P * 2^d
    BY <2>1, <2>2, <2>3, <2>5, Zenon
  <2>. QED BY <2>4, <2>6
<1>4. e < MaskBits /\ MaskBits \in Nat
  BY MaskBitsAre
<1>5. ASSUME NEW q \in 0..MaskBits - 1, q < p
      PROVE  \E t \in Nat \ {0} : Place(q) = 2 * Place(p) * t
  <2> DEFINE f == MaskBits - 1 - q
  <2>1. f \in Nat /\ e < f /\ Place(q) = 2^f
    BY <1>5, MaskBitsAre DEF Place
  <2> HIDE DEF e, f, P
  <2>2. \E t \in Nat \ {0} : 2^f = 2 * P * t
    BY <1>3, <2>1
  <2>. QED BY <1>1, <2>1, <2>2
<1> HIDE DEF e, P
<1>. QED BY <1>1, <1>2, <1>3, <1>4, <1>5

\* A place added to a mask, or taken from it, is that of one privilege.
LEMMA PlaceAdded ==
  ASSUME NEW m \in Nat, NEW p \in 0..MaskBits - 1, ~ Has(m, p)
  PROVE  /\ m + Place(p) \in Nat /\ Has(m + Place(p), p)
         /\ \A q \in 0..MaskBits - 1 : q # p => (Has(m + Place(p), q) <=> Has(m, q))
         /\ m + Place(p) \in Masks <=> m \in Masks
<1> DEFINE P == Place(p)
<1>1. P \in Nat \ {0} /\ \A x, q : Has(x, q) <=> Bit(x, Place(q))
  BY PlaceIs DEF Has, Bit
<1>2. ~ Bit(m, P)
  BY <1>1
<1>3. Bit(m + P, P)
  <2> HIDE DEF P
  <2>. QED BY <1>1, <1>2, BitAdded
<1>4. \A t \in Nat \ {0} : (m + P) \div (2 * P * t) = m \div (2 * P * t)
  <2> HIDE DEF P
  <2>. QED BY <1>1, <1>2, BitAdded
<1>5. \A Q \in Nat \ {0}, t \in Nat : P = 2 * Q * t => (Bit(m + P, Q) <=> Bit(m, Q))
  <2> HIDE DEF P
  <2>. QED BY <1>1, <1>2, BitAdded
<1>6. ASSUME NEW q \in 0..MaskBits - 1, q # p
      PROVE  Bit(m + P, Place(q)) <=> Bit(m, Place(q))
  <2>1. CASE q < p
    <3>1. PICK t \in Nat \ {0} : Place(q) = 2 * P * t
      BY <2>1, PlaceIs
    <3> HIDE DEF P
    <3>. QED BY <1>4, <3>1, Zenon DEF Bit
  <2>2. CASE p < q
    <3>1. PICK t \in Nat \ {0} : P = 2 * Place(q) * t
      BY <2>2, PlaceIs
    <3>2. Place(q) \in Nat \ {0} /\ t \in Nat
      BY PlaceIs
    <3> HIDE DEF P
    <3>. QED BY <1>5, <3>1, <3>2, Zenon
  <2>3. q < p \/ p < q
    BY <1>6, MaskBitsAre
  <2>. QED BY <2>1, <2>2, <2>3
<1>7. m + P \in Masks <=> m \in Masks
  <2>1. PICK t \in Nat \ {0} : 2^MaskBits = 2 * P * t
    BY PlaceIs
  <2> DEFINE N == 2^MaskBits
  <2>2. N \in Nat \ {0}
    BY MaskBitsAre, PowerIsNat
  <2>3. (m + P) \div N = m \div N
    BY <1>4, <2>1, Zenon
  <2> HIDE DEF N, P
  <2>4. ASSUME NEW x \in Nat
        PROVE  x < N <=> x \div N = 0
    <3> DEFINE d == x \div N
               r == x % N
    <3>1. d \in Nat /\ r \in 0..(N - 1) /\ x = (N * d) + r
      BY <2>2, DivisionIs, Zenon
    <3> HIDE DEF d, r
    <3>2. CASE d = 0
      BY <2>2, <3>1, <3>2 DEF d
    <3>3. CASE d # 0
      <4>1. N * d >= N * 1
        BY <2>2, <3>1, <3>3
      <4>2. ~ (x < N)
        BY <2>2, <3>1, <4>1
      <4>. QED BY <3>3, <4>2 DEF d
    <3>. QED BY <3>2, <3>3
  <2>5. m + P \in Nat
    BY <1>1
  <2>6. (m + P < N) <=> (m < N)
    BY <2>3, <2>4, <2>5, Zenon
  <2>. QED BY <2>5, <2>6 DEF Masks, N
<1>8. m + P \in Nat
  <2> HIDE DEF P
  <2>. QED BY <1>1
<1>. QED BY <1>1, <1>3, <1>6, <1>7, <1>8

LEMMA PrivilegeSet ==
  ASSUME NEW m \in Masks, NEW p \in 0..MaskBits - 1, NEW on \in BOOLEAN
  PROVE  /\ SetPrivilege(m, p, on) \in Masks
         /\ Has(SetPrivilege(m, p, on), p) = on
         /\ \A q \in 0..MaskBits - 1 : q # p => (Has(SetPrivilege(m, p, on), q) <=> Has(m, q))
<1> DEFINE P == Place(p)
           n == SetPrivilege(m, p, on)
<1>0. m \in Nat /\ P \in Nat \ {0} /\ Has(m, p) \in BOOLEAN
  BY PlaceIs DEF Masks, Has
<1>1. CASE Has(m, p) = on
  <2>1. n = m
    BY <1>1 DEF SetPrivilege
  <2> HIDE DEF n
  <2>. QED BY <1>1, <2>1 DEF n
<1>2. CASE Has(m, p) # on /\ on
  <2>1. n = m + P /\ ~ Has(m, p)
    BY <1>0, <1>2 DEF SetPrivilege
  <2>2. Has(m + P, p) /\ m + P \in Masks
    BY <1>0, <2>1, PlaceAdded
  <2>3. \A q \in 0..MaskBits - 1 : q # p => (Has(m + P, q) <=> Has(m, q))
    BY <1>0, <2>1, PlaceAdded
  <2> HIDE DEF n
  <2>. QED BY <1>0, <1>2, <2>1, <2>2, <2>3, Zenon DEF n
<1>3. CASE Has(m, p) # on /\ ~ on
  <2>1. n = m - P /\ Has(m, p)
    BY <1>0, <1>3 DEF SetPrivilege
  <2> DEFINE d == m \div P
             r == m % P
  <2>2. d \in Nat /\ r \in 0..(P - 1) /\ m = (P * d) + r
    <3> HIDE DEF P
    <3>. QED BY <1>0, DivisionIs, Zenon
  <2>3. d % 2 = 1
    BY <2>1 DEF Has
  <2> HIDE DEF d, r, n, P
  <2>4. d - 1 \in Nat /\ (d - 1) % 2 # 1 /\ r \in Nat /\ r < P
    BY <1>0, <2>2, <2>3
  <2>5. m - P = P * (d - 1) + r /\ m - P \in Nat /\ (m - P) + P = m
    <3>1. P * (d - 1) = P * d - P
      BY <1>0, <2>2
    <3>2. P * d \in Nat /\ P * (d - 1) \in Nat
      BY <1>0, <2>2, <2>4
    <3>. QED BY <1>0, <2>2, <2>4, <3>1, <3>2
  <2>6. (P * (d - 1) + r) \div P = d - 1
    BY <1>0, <2>4, QuotientIs
  <2>7. ~ Has(m - P, p)
    BY <2>4, <2>5, <2>6 DEF Has, P
  <2>8. m - P \in Masks
    BY <2>5, <2>7, PlaceAdded DEF P
  <2>9. \A q \in 0..MaskBits - 1 : q # p => (Has((m - P) + P, q) <=> Has(m - P, q))
    BY <2>5, <2>7, PlaceAdded DEF P
  <2>10. \A q \in 0..MaskBits - 1 : q # p => (Has(m, q) <=> Has(m - P, q))
    BY <2>5, <2>9, Zenon
  <2>11. Has(m - P, p) = FALSE /\ on = FALSE
    BY <1>3, <2>7 DEF Has
  <2>. QED BY <2>1, <2>8, <2>10, <2>11, Zenon DEF n
<1>. QED BY <1>1, <1>2, <1>3
\* One more call of set().
MaskStep(s, g) ==
  [T \in SUBSET DOMAIN s |->
     IF T = {} THEN 0 ELSE SetPrivilege(g[T \ {Max(T)}], s[Max(T)][1], s[Max(T)][2])]

\* The function that the mask is the value of at all calls.
MaskFolded(s) == CHOOSE g : g = MaskStep(s, g)

LEMMA MaskIsFolded ==
  ASSUME NEW s
  PROVE  EncodeAccessMask(s) = U64(MaskFolded(s)[DOMAIN s])
BY Zenon DEF EncodeAccessMask, MaskFolded, MaskStep, FoldLeft, MapThenFoldSet

\* g is right for the sets of at most k calls.
MaskRight(s, g, k) ==
  \A T \in SUBSET DOMAIN s : Cardinality(T) <= k => g[T] = MaskStep(s, g)[T]

LEMMA CallsAre ==
  ASSUME NEW s \in AccessCalls, NEW T \in SUBSET DOMAIN s
  PROVE  /\ DOMAIN s = 1..Len(s) /\ Len(s) \in Nat
         /\ IsFiniteSet(T) /\ Cardinality(T) \in Nat /\ Cardinality(T) <= Len(s)
         /\ T # {} => Max(T) \in T
<1> DEFINE n == Len(s)
<1>1. n \in Nat /\ DOMAIN s = 1..n
  BY DEF AccessCalls
<1>2. T \in SUBSET DOMAIN [i \in 1..n |-> i]
  BY <1>1
<1> HIDE DEF n
<1>. QED BY <1>1, <1>2, PositionsOfList DEF n

LEMMA MaskRightStep ==
  ASSUME NEW s \in AccessCalls, NEW k \in Nat, NEW g, MaskRight(s, g, k)
  PROVE  MaskRight(s, MaskStep(s, g), k + 1)
<1> DEFINE h == MaskStep(s, g)
<1> SUFFICES ASSUME NEW T \in SUBSET DOMAIN s, Cardinality(T) <= k + 1
             PROVE  h[T] = MaskStep(s, h)[T]
  BY DEF MaskRight
<1>1. CASE T = {}
  BY <1>1 DEF MaskStep
<1>2. CASE T # {}
  <2> DEFINE U == T \ {Max(T)}
             c == s[Max(T)]
  <2>1. IsFiniteSet(T) /\ Max(T) \in T
    BY <1>2, CallsAre
  <2>2. Cardinality(T) \in Nat /\ Cardinality(U) = Cardinality(T) - 1
    BY <2>1, FS_CardinalityType, FS_RemoveElement
  <2>3. U \in SUBSET DOMAIN s
    OBVIOUS
  <2>4. Cardinality(U) <= k
    <3> HIDE DEF U, h
    <3>. QED BY <2>2
  <2>5. g[U] = h[U]
    BY <2>3, <2>4 DEF MaskRight
  <2> HIDE DEF h
  <2>6. /\ MaskStep(s, h)[T] = SetPrivilege(h[U], c[1], c[2])
        /\ MaskStep(s, g)[T] = SetPrivilege(g[U], c[1], c[2])
    BY <1>2 DEF MaskStep
  <2> HIDE DEF U, c
  <2>. QED BY <2>5, <2>6, Zenon DEF h
<1>. QED BY <1>1, <1>2

LEMMA MaskFoldStep ==
  ASSUME NEW s \in AccessCalls
  PROVE  MaskFolded(s) = MaskStep(s, MaskFolded(s))
<1> DEFINE D == DOMAIN s
           n == Len(s)
           K == {k \in Nat : \E g : MaskRight(s, g, k)}
<1>0. n \in Nat
  BY DEF AccessCalls
<1>1. 0 \in K
  <2> DEFINE g == [T \in SUBSET D |-> 0]
  <2>1. ASSUME NEW T \in SUBSET D, Cardinality(T) <= 0
        PROVE  g[T] = MaskStep(s, g)[T]
    <3>1. IsFiniteSet(T) /\ Cardinality(T) \in Nat
      BY CallsAre
    <3>2. T = {}
      BY <2>1, <3>1, FS_EmptySet
    <3>. QED BY <3>2 DEF MaskStep
  <2>2. MaskRight(s, g, 0)
    BY <2>1 DEF MaskRight
  <2>. QED BY <2>2
<1>2. ASSUME NEW k \in K
      PROVE  k + 1 \in K
  <2>1. PICK g : MaskRight(s, g, k)
    OBVIOUS
  <2>2. MaskRight(s, MaskStep(s, g), k + 1)
    BY <2>1, MaskRightStep
  <2>. QED BY <2>2
<1>3. K = Nat
  <2>1. K \in SUBSET Nat
    OBVIOUS
  <2> HIDE DEF K
  <2>. QED BY <1>1, <1>2, <2>1, Induction
<1>4. PICK g : MaskRight(s, g, n)
  BY <1>0, <1>3
<1> DEFINE h == MaskStep(s, g)
           hh == MaskStep(s, h)
<1>5. ASSUME NEW T \in SUBSET D
      PROVE  h[T] = hh[T]
  <2>1. Cardinality(T) \in Nat /\ Cardinality(T) <= n
    BY CallsAre
  <2>2. MaskRight(s, h, n + 1)
    BY <1>0, <1>4, MaskRightStep
  <2>3. Cardinality(T) <= n + 1
    BY <1>0, <2>1
  <2>. QED BY <2>2, <2>3 DEF MaskRight
<1>6. h = [T \in SUBSET D |-> h[T]] /\ hh = [T \in SUBSET D |-> hh[T]]
  BY Zenon DEF MaskStep
<1> HIDE DEF D, h, hh
<1>7. h = hh
  BY <1>5, <1>6
<1>. QED BY <1>7 DEF MaskFolded, hh

\* The mask after the first k calls.
MaskAfter(s, k) == MaskFolded(s)[1..k]

\* The last of the first k calls for privilege p, if there is one, set it.
IsOn(s, k, p) ==
  \E j \in 1..k : s[j][1] = p /\ s[j][2] /\ \A l \in j + 1..k : s[l][1] # p

LEMMA MaskMade ==
  ASSUME NEW s \in AccessCalls, NEW k \in Nat, k <= Len(s)
  PROVE  /\ MaskAfter(s, k) \in Masks
         /\ \A p \in 0..MaskBits - 1 : Has(MaskAfter(s, k), p) <=> IsOn(s, k, p)
<1> DEFINE Made(m, i) == m \in Masks /\ \A p \in 0..MaskBits - 1 : Has(m, p) <=> IsOn(s, i, p)
           K == {i \in Nat : i <= Len(s) => Made(MaskAfter(s, i), i)}
<1>0. Len(s) \in Nat /\ \A i \in 1..Len(s) : s[i] \in (0..MaskBits - 1) \X BOOLEAN
  BY ElementOfSeq DEF AccessCalls
<1>1. 0 \in K
  <2>1. 1..0 = {} /\ {} \in SUBSET DOMAIN s
    OBVIOUS
  <2>2. MaskAfter(s, 0) = 0
    <3>1. MaskFolded(s)[{}] = MaskStep(s, MaskFolded(s))[{}]
      BY MaskFoldStep
    <3>. QED BY <2>1, <3>1 DEF MaskStep, MaskAfter
  <2>3. 0 \in Masks
    BY MaskBitsAre, PowerIsNat DEF Masks
  <2>4. ASSUME NEW p \in 0..MaskBits - 1
        PROVE  ~ Has(0, p) /\ ~ IsOn(s, 0, p)
    <3>1. Place(p) \in Nat \ {0}
      BY PlaceIs
    <3>2. 0 \div Place(p) = 0
      <4> DEFINE b == Place(p)
      <4> HIDE DEF b
      <4>1. b * 0 + 0 = 0 /\ 0 < b /\ b \in Nat \ {0}
        BY <3>1 DEF b
      <4>2. (b * 0 + 0) \div b = 0
        BY <4>1, QuotientIs
      <4>. QED BY <4>1, <4>2 DEF b
    <3>. QED BY <2>1, <3>2 DEF Has, IsOn
  <2>5. Made(0, 0)
    BY <2>3, <2>4
  <2>6. Made(MaskAfter(s, 0), 0)
    BY <2>2, <2>5
  <2> HIDE DEF Made
  <2>. QED BY <2>6
<1>2. ASSUME NEW i \in K
      PROVE  i + 1 \in K
  <2> SUFFICES ASSUME i + 1 <= Len(s)
               PROVE  Made(MaskAfter(s, i + 1), i + 1)
    OBVIOUS
  <2> DEFINE n == i + 1
             m == MaskAfter(s, i)
             c == s[n]
  <2>1. i \in Nat /\ n \in 1..Len(s) /\ c \in (0..MaskBits - 1) \X BOOLEAN /\ Made(m, i)
    BY <1>0
  <2>2. c[1] \in 0..MaskBits - 1 /\ c[2] \in BOOLEAN
    BY <2>1
  <2>3. MaskAfter(s, n) = SetPrivilege(m, c[1], c[2])
    <3>1. 1..n \in SUBSET DOMAIN s /\ 1..n # {}
      <4>1. DOMAIN s = 1..Len(s)
        BY DEF AccessCalls
      <4>. QED BY <1>0, <2>1, <4>1
    <3>2. Max(1..n) = n /\ (1..n) \ {n} = 1..i
      <4>1. n \in Nat /\ (1..n) \in SUBSET (1..n) /\ (1..n) # {}
        BY <2>1
      <4>2. Max(1..n) \in 1..n /\ \A x \in 1..n : Max(1..n) >= x
        BY <4>1, MaxOf
      <4>. QED BY <2>1, <4>2
    <3>3. MaskFolded(s)[1..n] = MaskStep(s, MaskFolded(s))[1..n]
      BY MaskFoldStep
    <3> HIDE DEF n
    <3>. QED BY <3>1, <3>2, <3>3 DEF MaskStep, MaskAfter
  <2>4. \A p : IsOn(s, n, p) <=> IF c[1] = p THEN c[2] = TRUE ELSE IsOn(s, i, p)
    <3> SUFFICES ASSUME NEW p
                 PROVE  IsOn(s, n, p) <=> IF c[1] = p THEN c[2] = TRUE ELSE IsOn(s, i, p)
      OBVIOUS
    <3>1. CASE c[1] = p
      <4>1. ASSUME NEW j \in 1..n, \A l \in j + 1..n : s[l][1] # p
            PROVE  j = n
        <5>1. j < n => n \in j + 1..n
          BY <2>1
        <5>. QED BY <2>1, <3>1, <4>1, <5>1
      <4>2. n \in 1..n /\ n + 1..n = {}
        BY <2>1
      <4> HIDE DEF n
      <4>. QED BY <2>2, <3>1, <4>1, <4>2 DEF IsOn
    <3>2. CASE c[1] # p
      <4>1. ASSUME NEW j \in 1..i
            PROVE  j \in 1..n /\ j + 1..n = (j + 1..i) \cup {n}
        BY <2>1
      <4>2. 1..n = 1..i \cup {n}
        BY <2>1
      <4> HIDE DEF n
      <4>3. ASSUME IsOn(s, i, p)
            PROVE  IsOn(s, n, p)
        <5>1. PICK j \in 1..i : s[j][1] = p /\ s[j][2] /\ \A l \in j + 1..i : s[l][1] # p
          BY <4>3 DEF IsOn
        <5>2. \A l \in j + 1..n : s[l][1] # p
          BY <3>2, <4>1, <5>1
        <5>. QED BY <4>1, <5>1, <5>2 DEF IsOn
      <4>4. ASSUME IsOn(s, n, p)
            PROVE  IsOn(s, i, p)
        <5>1. PICK j \in 1..n : s[j][1] = p /\ s[j][2] /\ \A l \in j + 1..n : s[l][1] # p
          BY <4>4 DEF IsOn
        <5>2. j \in 1..i
          BY <3>2, <4>2, <5>1
        <5>3. \A l \in j + 1..i : s[l][1] # p
          BY <4>1, <5>1, <5>2
        <5>. QED BY <5>1, <5>2, <5>3 DEF IsOn
      <4>. QED BY <3>2, <4>3, <4>4
    <3>. QED BY <3>1, <3>2
  <2> DEFINE w == SetPrivilege(m, c[1], c[2])
  <2>5. w \in Masks /\ Has(w, c[1]) = c[2]
        /\ \A q \in 0..MaskBits - 1 : q # c[1] => (Has(w, q) <=> Has(m, q))
    <3> HIDE DEF m, c
    <3>. QED BY <2>1, <2>2, PrivilegeSet
  <2>6. \A p \in 0..MaskBits - 1 : Has(w, p) <=> IsOn(s, n, p)
    <3> SUFFICES ASSUME NEW p \in 0..MaskBits - 1
                 PROVE  Has(w, p) <=> IsOn(s, n, p)
      OBVIOUS
    <3>1. IsOn(s, n, p) <=> IF c[1] = p THEN c[2] = TRUE ELSE IsOn(s, i, p)
      BY <2>4
    <3>2. Has(m, p) <=> IsOn(s, i, p)
      BY <2>1
    <3> HIDE DEF w, m, c, n
    <3>3. CASE c[1] = p
      BY <2>2, <2>5, <3>1, <3>3
    <3>4. CASE c[1] # p
      BY <2>5, <3>1, <3>2, <3>4
    <3>. QED BY <3>3, <3>4
  <2>7. Made(w, n)
    BY <2>5, <2>6
  <2> HIDE DEF Made, w, n
  <2>. QED BY <2>3, <2>7 DEF w, n
<1>3. K = Nat
  <2>1. K \in SUBSET Nat
    OBVIOUS
  <2> HIDE DEF K
  <2>. QED BY <1>1, <1>2, <2>1, Induction
<1>4. Made(MaskAfter(s, k), k)
  <2> HIDE DEF Made
  <2>. QED BY <1>3
<1>. QED BY <1>4
\* What the first bytes of eight are, from all of them.
LEMMA FirstBytes ==
  ASSUME NEW s \in Seq(Byte), Len(s) = 8, NEW k \in 0..8
  PROVE  Upto(s, 8 - k) \in Nat /\ Upto(s, 8 - k) = Number(s) \div 2^(ByteBits * k)
<1> DEFINE b == ByteBits
           N == Number(s)
           K == {i \in Nat : i <= 8 => /\ Upto(s, 8 - i) \in Nat
                                       /\ Upto(s, 8 - i) = N \div 2^(b * i)}
<1>0. s \in Seq(Int) /\ (\A i \in 1..8 : s[i] \in 0..(Base - 1)) /\ N \in Nat /\ N = Upto(s, 8)
  <2>1. s \in Seq(Int) /\ \A i \in 1..8 : s[i] \in 0..(Base - 1)
    BY BytesAreNumbers
  <2>2. Upto(s, Len(s)) = N
    BY <2>1, UptoAll
  <2>. QED BY <2>1, <2>2, NumberIsNat
<1>1. b \in Nat /\ 2^b = Base /\ Base \in Nat \ {0}
  BY ByteBitsAre, Limits
<1> HIDE DEF b, N
<1>2. 0 \in K
  <2>1. b * 0 = 0 /\ 2^0 = 1 /\ N \div 1 = N /\ 8 - 0 = 8
    BY <1>0, <1>1
  <2>2. Upto(s, 8 - 0) \in Nat /\ Upto(s, 8 - 0) = N \div 2^(b * 0)
    BY <1>0, <2>1
  <2>. QED BY <2>2
<1>3. ASSUME NEW i \in K
      PROVE  i + 1 \in K
  <2> SUFFICES ASSUME i + 1 <= 8
               PROVE  /\ Upto(s, 8 - (i + 1)) \in Nat
                      /\ Upto(s, 8 - (i + 1)) = N \div 2^(b * (i + 1))
    OBVIOUS
  <2>1. i \in Nat /\ i <= 8 /\ Upto(s, 8 - i) \in Nat /\ Upto(s, 8 - i) = N \div 2^(b * i)
    OBVIOUS
  <2> DEFINE l == 8 - i
             m == 8 - (i + 1)
  <2>2. l \in 1..8 /\ m \in Nat /\ l \in Nat /\ l = m + 1 /\ l <= Len(s)
    BY <2>1
  <2>3. N \div 2^(b * i) = Upto(s, l)
    BY <2>1
  <2> HIDE DEF l, m
  <2>4. Upto(s, l) = Upto(s, m) * Base + s[l] /\ s[l] \in 0..(Base - 1)
    BY <1>0, <2>2, UptoNext
  <2>5. Upto(s, m) \in Nat
    <3>1. m <= Len(s)
      BY <2>2
    <3>. QED BY <2>2, <3>1, UptoIsNat
  <2>6. Upto(s, l) \div Base = Upto(s, m)
    BY <2>4, <2>5, Digits
  <2>7. 2^(b * (i + 1)) = 2^(b * i) * Base
    <3>1. b * (i + 1) = b * i + b /\ b * i \in Nat
      BY <1>1, <2>1
    <3>2. 2^(b * i + b) = 2^(b * i) * 2^b
      BY <1>1, <3>1, PowerSum
    <3>. QED BY <1>1, <3>1, <3>2, Zenon
  <2>8. 2^(b * i) \in Nat \ {0}
    <3>1. b * i \in Nat
      BY <1>1, <2>1
    <3>. QED BY <3>1, PowerIsNat
  <2>9. N \div (2^(b * i) * Base) = (N \div 2^(b * i)) \div Base
    BY <1>0, <1>1, <2>8, DivisionTwice
  <2>10. N \div 2^(b * (i + 1)) = Upto(s, m)
    BY <2>3, <2>6, <2>7, <2>9, Zenon
  <2>. QED BY <2>5, <2>10, Zenon DEF m
<1>4. K = Nat
  <2>1. K \in SUBSET Nat
    OBVIOUS
  <2> HIDE DEF K
  <2>. QED BY <1>2, <1>3, <2>1, Induction
<1>. QED BY <1>4 DEF b, N

\* The bits of the number of 64 are those of its bytes.
LEMMA BitsOfBytes ==
  ASSUME NEW s \in Seq(Byte), Len(s) = 8, NEW p \in 0..MaskBits - 1
  PROVE  GetBit(s, p) <=> Has(Number(s), p)
<1> DEFINE b == ByteBits
           j == p \div b
           r == p % b
           k == 7 - j
           e == b - 1 - r
           N == Number(s)
           Q == 2^e
           X == Upto(s, j)
           y == s[j + 1]
<1>1. b \in 1..8 /\ 2^b = Base /\ MaskBits = 8 * b /\ p \in Nat /\ p <= 8 * b - 1
  BY ByteBitsAre, MaskBitsAre
<1>2. j \in 0..7 /\ r \in 0..(b - 1) /\ p = b * j + r
  <2> HIDE DEF b
  <2>1. b \in Nat \ {0}
    BY <1>1
  <2>2. j \in Nat /\ r \in 0..(b - 1) /\ p = b * j + r
    BY <1>1, <2>1, DivisionIs, Zenon
  <2> HIDE DEF j, r
  <2>3. ~ (j >= 8)
    <3> SUFFICES ASSUME j >= 8
                 PROVE  FALSE
      OBVIOUS
    <3>1. b * j >= b * 8
      BY <2>1, <2>2
    <3>. QED BY <1>1, <2>1, <2>2, <3>1
  <2>. QED BY <2>2, <2>3
<1>3. GetBit(s, p) <=> (y \div Q) % 2 = 1
  BY DEF GetBit
<1> HIDE DEF b, j, r
<1>4. k \in 0..8 /\ k \in Nat /\ e \in Nat /\ r \in Nat /\ 8 - k = j + 1
  BY <1>1, <1>2
<1>5. MaskBits - 1 - p = b * k + e /\ b * k \in Nat
  <2>1. b * k = b * 7 - b * j
    BY <1>1, <1>2
  <2>2. b * k \in Nat /\ b * j \in Nat
    BY <1>1, <1>2, <1>4
  <2> HIDE DEF k
  <2>. QED BY <1>1, <1>2, <1>4, <2>1, <2>2
<1>6. Upto(s, j + 1) \in Nat /\ Upto(s, j + 1) = N \div 2^(b * k)
  <2> HIDE DEF k, N
  <2>1. Upto(s, 8 - k) \in Nat /\ Upto(s, 8 - k) = N \div 2^(b * k)
    BY <1>4, FirstBytes DEF N, b
  <2>. QED BY <1>4, <2>1
<1>7. N \in Nat
  BY NumberIsNat
<1>8. Has(N, p) <=> (Upto(s, j + 1) \div Q) % 2 = 1
  <2> DEFINE A == 2^(b * k)
  <2>1. A \in Nat \ {0} /\ Q \in Nat \ {0}
    <3> DEFINE c == b * k
    <3>1. c \in Nat
      BY <1>5
    <3> HIDE DEF c, e
    <3>2. 2^c \in Nat \ {0}
      BY <3>1, PowerIsNat
    <3>3. 2^e \in Nat \ {0}
      BY <1>4, PowerIsNat
    <3>. QED BY <3>2, <3>3 DEF c
  <2>2. Place(p) = A * Q
    <3> DEFINE c == b * k
    <3>1. c \in Nat /\ MaskBits - 1 - p = c + e
      BY <1>5
    <3> HIDE DEF c, e
    <3>2. 2^(c + e) = 2^c * 2^e
      BY <1>4, <3>1, PowerSum
    <3>. QED BY <3>1, <3>2 DEF Place, c
  <2> HIDE DEF A, Q, N
  <2>3. N \div (A * Q) = (N \div A) \div Q
    BY <1>7, <2>1, DivisionTwice
  <2>4. N \div Place(p) = Upto(s, j + 1) \div Q
    BY <1>6, <2>2, <2>3, Zenon DEF A
  <2>. QED BY <2>4 DEF Has
<1>9. Upto(s, j + 1) = X * Base + y /\ X \in Nat /\ y \in 0..(Base - 1)
  <2>1. s \in Seq(Int) /\ \A i \in 1..8 : s[i] \in 0..(Base - 1)
    BY BytesAreNumbers
  <2>2. j \in Nat /\ j + 1 \in Nat /\ j + 1 \in 1..8 /\ j + 1 <= Len(s)
    BY <1>2
  <2>3. Upto(s, j + 1) = X * Base + y
    BY <2>1, <2>2, UptoNext
  <2>4. X \in Nat
    <3>1. j <= Len(s)
      BY <2>2
    <3>. QED BY <2>2, <3>1, UptoIsNat
  <2>. QED BY <2>1, <2>2, <2>3, <2>4
<1>10. Base = 2 * Q * 2^r /\ Q \in Nat \ {0} /\ 2^r \in Nat
  <2>1. (e + 1) + r = b /\ e + 1 \in Nat
    BY <1>1, <1>2
  <2> HIDE DEF e
  <2>2. 2^((e + 1) + r) = 2^(e + 1) * 2^r
    BY <1>4, <2>1, PowerSum
  <2>3. 2^(e + 1) = 2^e + 2^e
    BY <1>4, PowerNext
  <2>4. 2^e \in Nat \ {0} /\ 2^r \in Nat
    BY <1>4, PowerIsNat
  <2>5. 2^e + 2^e = 2 * Q
    BY <2>4
  <2>. QED BY <1>1, <2>1, <2>2, <2>3, <2>4, <2>5, Zenon
<1> DEFINE t == 2^r
           d == y \div Q
           f == y % Q
<1>11. y \in Nat
  BY <1>9
<1>12. d \in Nat /\ f \in 0..(Q - 1) /\ y = Q * d + f
  <2> HIDE DEF Q, y
  <2>. QED BY <1>10, <1>11, DivisionIs, Zenon
<1> HIDE DEF t, Q, X, y, d, f
<1>13. X * Base + y = Q * (2 * (t * X) + d) + f
  <2>1. X * Base = X * (2 * Q * t) /\ t \in Nat
    BY <1>10, Zenon DEF t
  <2>2. X * (2 * Q * t) = Q * (2 * (t * X))
    BY <1>9, <1>10, <2>1
  <2> DEFINE Z == t * X
  <2>3. Z \in Nat
    BY <1>9, <2>1
  <2> HIDE DEF Z
  <2>4. Q * (2 * Z + d) = Q * (2 * Z) + Q * d
    BY <1>10, <1>12, <2>3
  <2>5. Q * (2 * Z) \in Nat /\ Q * d \in Nat
    BY <1>10, <1>12, <2>3
  <2>6. X * Base = Q * (2 * Z)
    BY <2>1, <2>2, Zenon DEF Z
  <2>7. X * Base + y = Q * (2 * Z + d) + f
    BY <1>12, <2>4, <2>5, <2>6
  <2>. QED BY <2>7 DEF Z
<1> DEFINE W == t * X
<1>14. W \in Nat
  BY <1>9, <1>10 DEF t
<1> HIDE DEF W
<1>15. (Q * (2 * W + d) + f) \div Q = 2 * W + d
  <2>1. 2 * W + d \in Nat /\ f \in Nat /\ f < Q
    BY <1>10, <1>12, <1>14
  <2>. QED BY <1>10, <2>1, QuotientIs
<1>16. (2 * W + d) % 2 = d % 2
  BY <1>12, <1>14
<1>17. Upto(s, j + 1) \div Q = 2 * W + d
  BY <1>9, <1>13, <1>15, Zenon DEF W
<1>. QED BY <1>3, <1>8, <1>16, <1>17, Zenon DEF d, N
LEMMA FourAndFour ==
  ASSUME NEW u \in Seq(Byte), NEW w \in Seq(Byte), Len(u) = 4, Len(w) = 4
  PROVE  /\ (u \o w)[1] = u[1] /\ (u \o w)[2] = u[2] /\ (u \o w)[3] = u[3]
         /\ (u \o w)[4] = u[4] /\ (u \o w)[5] = w[1] /\ (u \o w)[6] = w[2]
         /\ (u \o w)[7] = w[3] /\ (u \o w)[8] = w[4]
<1> DEFINE x == u \o w
           n == Len(u)
           l == Len(w)
<1>1. \A i \in 1..n + l : x[i] = IF i <= n THEN u[i] ELSE w[i - n]
  BY ConcatProperties
<1>2. n = 4 /\ l = 4
  OBVIOUS
<1> HIDE DEF x, n, l
<1>3. \A i \in 1..8 : x[i] = IF i <= 4 THEN u[i] ELSE w[i - 4]
  BY <1>1, <1>2
<1>4. x[5] = w[5 - 4] /\ x[6] = w[6 - 4] /\ x[7] = w[7 - 4] /\ x[8] = w[8 - 4]
  BY <1>3
<1>5. x[1] = u[1] /\ x[2] = u[2] /\ x[3] = u[3] /\ x[4] = u[4]
  BY <1>3
<1>6. 5 - 4 = 1 /\ 6 - 4 = 2 /\ 7 - 4 = 3 /\ 8 - 4 = 4
  OBVIOUS
<1>. QED BY <1>4, <1>5, <1>6, Zenon DEF x

\* A number of 64 bits in its eight bytes.
LEMMA EightDigits ==
  ASSUME NEW m \in Masks
  PROVE  U64(m) \in Seq(Byte) /\ Len(U64(m)) = 8 /\ Number(U64(m)) = m
<1> DEFINE B == Base
           d == [i \in 0..8 |-> m \div 2^(ByteBits * i)]
           s == U64(m)
<1>1. m \in Nat /\ B \in Nat \ {0} /\ ByteBits \in Nat /\ 2^ByteBits = B
  BY ByteBitsAre, Limits DEF Masks
<1>2. s \in Seq(Byte) /\ Len(s) = 8
  BY <1>1, EightBytes
<1>3. d[0] = m
  <2>1. ByteBits * 0 = 0 /\ 2^0 = 1 /\ m \div 1 = m
    BY <1>1
  <2>2. 0 \in 0..8 /\ d[0] = m \div 2^(ByteBits * 0)
    OBVIOUS
  <2>. QED BY <2>1, <2>2, Zenon
<1>4. ASSUME NEW i \in 0..7
      PROVE  d[i] \in Nat /\ d[i + 1] = d[i] \div B /\ i + 1 \in 0..8
  <2> DEFINE A == 2^(ByteBits * i)
  <2>1. i \in Nat /\ i \in 0..8 /\ i + 1 \in 0..8 /\ ByteBits * i \in Nat
        /\ ByteBits * (i + 1) = ByteBits * i + ByteBits
    BY <1>1
  <2>2. A \in Nat \ {0}
    <3> DEFINE c == ByteBits * i
    <3>1. c \in Nat
      BY <2>1
    <3> HIDE DEF c
    <3>. QED BY <3>1, PowerIsNat DEF c
  <2>3. 2^(ByteBits * (i + 1)) = A * B
    <3> DEFINE c == ByteBits * i
    <3>1. c \in Nat /\ ByteBits * (i + 1) = c + ByteBits
      BY <2>1
    <3> HIDE DEF c
    <3>2. 2^(c + ByteBits) = 2^c * 2^ByteBits
      BY <1>1, <3>1, PowerSum
    <3>. QED BY <1>1, <3>1, <3>2 DEF c
  <2>4. d[i] = m \div A /\ d[i + 1] = m \div 2^(ByteBits * (i + 1))
    BY <2>1
  <2> HIDE DEF A, B, d
  <2>5. m \div A \in Nat
    BY <1>1, <2>2, DivisionNat
  <2>6. m \div (A * B) = (m \div A) \div B
    BY <1>1, <2>2, DivisionTwice
  <2>. QED BY <2>1, <2>3, <2>4, <2>5, <2>6
<1>5. d[8] = 0
  <2>1. MaskBits = ByteBits * 8 /\ MaskBits \in Nat
    BY <1>1, MaskBitsAre
  <2> DEFINE N == 2^MaskBits
  <2>2. N \in Nat \ {0} /\ m < N
    BY <2>1, PowerIsNat DEF Masks
  <2>3. d[8] = m \div N
    BY <2>1
  <2> HIDE DEF N
  <2>4. N * 0 + m = m /\ 0 \in Nat
    BY <1>1, <2>2
  <2>5. (N * 0 + m) \div N = 0
    BY <1>1, <2>2, <2>4, QuotientIs
  <2>. QED BY <2>3, <2>4, <2>5
<1> HIDE DEF d, s
<1>6. \A i \in 1..8 : s[i] = d[8 - i] % B
  <2> DEFINE h == m \div Base^4
             u == U32(h)
             w == U32(m)
  <2>1. h = d[4]
    <3>1. d[1] = d[0] \div B /\ d[2] = d[1] \div B /\ d[3] = d[2] \div B /\ d[4] = d[3] \div B
      <4>1. d[0 + 1] = d[0] \div B /\ d[1 + 1] = d[1] \div B /\ d[2 + 1] = d[2] \div B
            /\ d[3 + 1] = d[3] \div B
        BY <1>4
      <4>. QED BY <4>1
    <3>2. Base^4 = B * B * B * B
      BY Bases
    <3> DEFINE BB == B * B
               C == BB * B
    <3>3. BB \in Nat \ {0} /\ C \in Nat \ {0}
      BY Bases
    <3>4. Base^4 = C * B
      BY <3>2
    <3> HIDE DEF B, C
    <3>5. m \div (C * B) = (m \div C) \div B
      BY <1>1, <3>3, DivisionTwice
    <3>6. m \div (BB * B) = (m \div BB) \div B
      <4> HIDE DEF BB
      <4>. QED BY <1>1, <3>3, DivisionTwice
    <3>7. m \div (B * B) = (m \div B) \div B
      BY <1>1, DivisionTwice
    <3>. QED BY <1>3, <3>1, <3>4, <3>5, <3>6, <3>7, Zenon DEF C
  <2>2. d[5] = d[4] \div B /\ d[6] = d[5] \div B /\ d[7] = d[6] \div B
        /\ d[1] = d[0] \div B /\ d[2] = d[1] \div B /\ d[3] = d[2] \div B
    <3>1. d[4 + 1] = d[4] \div B /\ d[5 + 1] = d[5] \div B /\ d[6 + 1] = d[6] \div B
          /\ d[0 + 1] = d[0] \div B /\ d[1 + 1] = d[1] \div B /\ d[2 + 1] = d[2] \div B
      BY <1>4
    <3>. QED BY <3>1
  <2>3. d[4] \in Nat
    BY <1>4
  <2>4. s = u \o w
    BY DEF s, U64
  <2> HIDE DEF h
  <2>5. u = << d[7] % B, d[6] % B, d[5] % B, d[4] % B >>
    <3>1. u = << (((h \div Base) \div Base) \div Base) % Base,
                 ((h \div Base) \div Base) % Base, (h \div Base) % Base, h % Base >>
      BY <2>1, <2>3, LongDigits
    <3>. QED BY <2>1, <2>2, <3>1
  <2>6. w = << d[3] % B, d[2] % B, d[1] % B, d[0] % B >>
    <3>1. w = << (((m \div Base) \div Base) \div Base) % Base,
                 ((m \div Base) \div Base) % Base, (m \div Base) % Base, m % Base >>
      BY <1>1, LongDigits
    <3>. QED BY <1>3, <2>2, <3>1
  <2> HIDE DEF u, w, B
  <2>7. /\ (u \o w)[1] = u[1] /\ (u \o w)[2] = u[2] /\ (u \o w)[3] = u[3]
        /\ (u \o w)[4] = u[4] /\ (u \o w)[5] = w[1] /\ (u \o w)[6] = w[2]
        /\ (u \o w)[7] = w[3] /\ (u \o w)[8] = w[4]
    <3>1. u \in Seq(Byte) /\ Len(u) = 4 /\ w \in Seq(Byte) /\ Len(w) = 4
      BY <1>1, <2>1, <2>3, LongWritten DEF u, w
    <3>. QED BY <3>1, FourAndFour
  <2>8. /\ s[1] = d[8 - 1] % B /\ s[2] = d[8 - 2] % B /\ s[3] = d[8 - 3] % B
        /\ s[4] = d[8 - 4] % B /\ s[5] = d[8 - 5] % B /\ s[6] = d[8 - 6] % B
        /\ s[7] = d[8 - 7] % B /\ s[8] = d[8 - 8] % B
    BY <2>4, <2>5, <2>6, <2>7
  <2>. QED BY <2>8
<1>7. s \in Seq(Int)
  BY <1>2, BytesAreNumbers
<1> DEFINE K == {i \in Nat : i <= 8 => Upto(s, i) = d[8 - i]}
<1>8. 0 \in K
  <2>1. 8 - 0 = 8
    OBVIOUS
  <2>. QED BY <1>5, <1>7, <2>1, UptoNone
<1>9. ASSUME NEW i \in K
      PROVE  i + 1 \in K
  <2> SUFFICES ASSUME i + 1 <= 8
               PROVE  Upto(s, i + 1) = d[8 - (i + 1)]
    OBVIOUS
  <2> DEFINE j == 8 - (i + 1)
  <2>1. i \in Nat /\ i + 1 \in Nat /\ i + 1 <= Len(s) /\ i + 1 \in 1..8 /\ Upto(s, i) = d[8 - i]
    BY <1>2
  <2>2. j \in 0..7 /\ j + 1 = 8 - i
    BY <2>1
  <2> HIDE DEF j
  <2>3. d[j] \in Nat /\ d[j + 1] = d[j] \div B
    BY <1>4, <2>2
  <2>4. Upto(s, i + 1) = Upto(s, i) * Base + s[i + 1]
    BY <1>7, <2>1, UptoNext
  <2>5. s[i + 1] = d[j] % B
    BY <1>6, <2>1 DEF j
  <2>6. d[j] = (d[j] \div Base) * Base + (d[j] % Base)
    BY <2>3, Divided
  <2>7. Upto(s, i + 1) = d[j]
    BY <2>1, <2>2, <2>3, <2>4, <2>5, <2>6
  <2>. QED BY <2>7 DEF j
<1>10. K = Nat
  <2>1. K \in SUBSET Nat
    OBVIOUS
  <2> HIDE DEF K
  <2>. QED BY <1>8, <1>9, <2>1, Induction
<1>11. Upto(s, 8) = m
  <2>1. 8 \in K /\ 8 - 8 = 0
    BY <1>10
  <2>2. Upto(s, 8) = d[8 - 8]
    BY <2>1
  <2>. QED BY <1>3, <2>1, <2>2
<1>. QED BY <1>2, <1>7, <1>11, UptoAll DEF s

LEMMA AccessIs ==
  ASSUME NEW s \in Seq(Byte)
  PROVE  /\ Decode("access", s).ok => Len(s) = 8
         /\ Len(s) = 8 => Decode("access", s) = Good({p \in 0..MaskBits - 1 : Has(Number(s), p)})
<1>1. Decode("access", s) = DecodeAccessMask(s)
  BY DEF Decode
<1>2. DecodeAccessMask(s)
        = IF Exactly(s, 8).ok THEN Good({p \in 0..MaskBits - 1 : Has(Read(s, 0, 8), p)})
          ELSE Exactly(s, 8)
  BY DEF DecodeAccessMask, Then, AccessMaskSize
<1>3. Exactly(s, 8).ok <=> Len(s) = 8
  <2> DEFINE n == 8
  <2>1. n \in Nat
    OBVIOUS
  <2> HIDE DEF n
  <2>2. Exactly(s, n).ok <=> Len(s) = n
    BY <2>1, ExactlyIs
  <2>. QED BY <2>2 DEF n
<1>4. Len(s) = 8 => Read(s, 0, 8) = Number(s)
  BY AllOfIt DEF Read
<1>. QED BY <1>1, <1>2, <1>3, <1>4

LEMMA AccessReturned == Returned("access")
<1> SUFFICES ASSUME NEW v \in Holds("access")
             PROVE  /\ Encode("access", v).value \in Seq(Byte)
                    /\ Decode("access", Encode("access", v).value) = Good(Meant("access", v))
  BY DEF Returned
<1> DEFINE n == Len(v)
           m == MaskAfter(v, n)
           w == U64(m)
<1>1. v \in AccessCalls
  BY DEF Holds
<1>2. n \in Nat /\ DOMAIN v = 1..n /\ n <= Len(v)
  BY <1>1 DEF AccessCalls
<1>3. m \in Masks /\ \A p \in 0..MaskBits - 1 : Has(m, p) <=> IsOn(v, n, p)
  <2> HIDE DEF n
  <2>. QED BY <1>1, <1>2, MaskMade
<1>4. Encode("access", v).value = w
  <2>1. EncodeAccessMask(v) = w
    BY <1>2, MaskIsFolded DEF MaskAfter
  <2>2. Encode("access", v) = Good(EncodeAccessMask(v))
    BY DEF Encode
  <2> HIDE DEF w
  <2>. QED BY <2>1, <2>2, GoodIs
<1> HIDE DEF m
<1>5. w \in Seq(Byte) /\ Len(w) = 8 /\ Number(w) = m
  BY <1>3, EightDigits
<1> HIDE DEF w
<1>6. Decode("access", w) = Good({p \in 0..MaskBits - 1 : Has(m, p)})
  BY <1>5, AccessIs
<1>7. {p \in 0..MaskBits - 1 : Has(m, p)} = Meant("access", v)
  <2> DEFINE J == {j \in 1..n : v[j][2] /\ \A l \in j + 1..n : v[l][1] # v[j][1]}
  <2>1. Meant("access", v) = {v[i][1] : i \in J}
    BY DEF Meant
  <2>2. \A i \in 1..n : v[i][1] \in 0..MaskBits - 1
    <3>1. v \in Seq((0..MaskBits - 1) \X BOOLEAN)
      BY <1>1 DEF AccessCalls
    <3>2. \A i \in 1..n : v[i] \in (0..MaskBits - 1) \X BOOLEAN
      BY <3>1, ElementOfSeq
    <3>. QED BY <3>2
  <2>3. ASSUME NEW p \in 0..MaskBits - 1
        PROVE  IsOn(v, n, p) <=> p \in {v[i][1] : i \in J}
    BY Zenon DEF IsOn
  <2> HIDE DEF J
  <2>4. {v[i][1] : i \in J} \subseteq 0..MaskBits - 1
    BY <2>2 DEF J
  <2>. QED BY <1>3, <2>1, <2>3, <2>4
<1>. QED BY <1>4, <1>5, <1>6, <1>7
-----------------------------------------------------------------------------
(* Arrays.                                                                 *)

\* The data of the first k items of an array, joined, and the offset behind it.
HeldBy(items, k) == FlattenSeq([j \in 1..k |-> items[j].data])

LEMMA HeldTyped ==
  ASSUME NEW items \in IvarItems, NEW k \in Nat, k <= Len(items)
  PROVE  HeldBy(items, k) \in Seq(Byte) /\ Len(HeldBy(items, k)) \in Nat
<1> DEFINE ss == [j \in 1..k |-> items[j].data]
<1>1. \A j \in 1..Len(items) : items[j].id \in Long /\ items[j].data \in Seq(Byte)
  <2>1. \A j \in 1..Len(items) : items[j] \in [id : Long, data : Seq(Byte)]
    BY ElementOfSeq DEF IvarItems
  <2>. QED BY <2>1
<1>2. Len(items) \in Nat
  BY DEF IvarItems
<1>3. ss \in Seq(Seq(Byte))
  BY <1>1, <1>2
<1> HIDE DEF ss
<1>4. FlattenSeq(ss) \in Seq(Byte)
  BY <1>3, FlattenTyped
<1>. QED BY <1>4 DEF HeldBy, ss

LEMMA IvarTyped == EncodesBytes("ivar")
<1> SUFFICES ASSUME NEW v \in Holds("ivar")
             PROVE  Encode("ivar", v).value \in Seq(Byte)
  BY DEF EncodesBytes
<1> DEFINE items == v.items
           n == Len(items)
           Row(i) == U32(IF i > n THEN 0 ELSE items[i].id) \o U32(Len(HeldBy(items, i - 1)))
           rows == [i \in 1..n + 1 |-> Row(i)]
           a == U32(0)
           b == U32(v.text_encoding)
           c == U32(n)
           t == FlattenSeq(rows)
           h == HeldBy(items, n)
           w == IvarTag \o a \o b \o c \o t \o h
<1>1. v.text_encoding \in Nat /\ items \in IvarItems
  BY Limits DEF Holds, IvarArray, Long
<1>2. n \in Nat /\ \A i \in 1..n : items[i].id \in Nat
  <2>1. items \in Seq([id : Long, data : Seq(Byte)])
    BY <1>1 DEF IvarItems
  <2> HIDE DEF items
  <2>2. \A i \in 1..Len(items) : items[i] \in [id : Long, data : Seq(Byte)]
    BY <2>1, ElementOfSeq
  <2>3. Long \subseteq Nat
    BY Limits DEF Long
  <2>4. Len(items) \in Nat
    BY <2>1
  <2>5. \A i \in 1..Len(items) : items[i].id \in Long
    BY <2>2
  <2>. QED BY <2>3, <2>4, <2>5
<1>3. Encode("ivar", v).value = w
  BY DEF Encode, WriteIvar, Good, HeldBy
<1> HIDE DEF items
<1>4. rows \in Seq(Seq(Byte))
  <2> SUFFICES ASSUME NEW i \in 1..n + 1
               PROVE  Row(i) \in Seq(Byte)
    BY <1>2
  <2> DEFINE x == IF i > n THEN 0 ELSE items[i].id
             k == i - 1
             y == Len(HeldBy(items, k))
  <2>1. x \in Nat /\ k \in Nat /\ k <= n
    BY <1>2
  <2>2. y \in Nat
    <3> HIDE DEF k
    <3>. QED BY <1>1, <2>1, HeldTyped
  <2> HIDE DEF x, y
  <2>3. U32(x) \in Seq(Byte) /\ U32(y) \in Seq(Byte)
    BY <2>1, <2>2, LongWritten
  <2>4. U32(x) \o U32(y) \in Seq(Byte)
    BY <2>3, Behind
  <2>. QED BY <2>4 DEF x, y
<1>5. t \in Seq(Byte)
  <2> HIDE DEF rows
  <2>. QED BY <1>4, FlattenTyped
<1>6. h \in Seq(Byte)
  <2>1. n <= Len(items)
    BY <1>2
  <2> HIDE DEF n
  <2>. QED BY <1>1, <1>2, <2>1, HeldTyped
<1>7. a \in Seq(Byte) /\ b \in Seq(Byte) /\ c \in Seq(Byte) /\ IvarTag \in Seq(Byte)
  <2>1. 0 \in Nat
    OBVIOUS
  <2>. QED BY <1>1, <1>2, <2>1, LongWritten, IvarTagAssumption
<1> HIDE DEF a, b, c, t, h
<1>8. w \in Seq(Byte)
  BY <1>5, <1>6, <1>7, Behind
<1>. QED BY <1>3, <1>8
\* What is before the name of an information fork.
InfoFront(v) ==
  U32(v.platform) \o U32(v.type_sig) \o U32(v.creator_sig) \o U32(v.flags)
    \o U32(v.platform_flags) \o v.reserved \o Stamp(v.create_date) \o Stamp(v.modify_date)
    \o U16(v.name_script)

LEMMA InfoHolds ==
  ASSUME NEW v \in Holds("info")
  PROVE  /\ v.platform \in Long /\ v.type_sig \in Long /\ v.creator_sig \in Long
         /\ v.flags \in Long /\ v.platform_flags \in Long /\ v.name_script \in Word
         /\ v.create_date \in DateTimeStamp /\ v.modify_date \in DateTimeStamp
         /\ v.reserved \in [1..32 -> Byte] /\ v.name \in Seq(Byte) /\ v.comment \in Seq(Byte)
         /\ v = [platform |-> v.platform, type_sig |-> v.type_sig, creator_sig |-> v.creator_sig,
                 flags |-> v.flags, platform_flags |-> v.platform_flags, reserved |-> v.reserved,
                 create_date |-> v.create_date, modify_date |-> v.modify_date,
                 name_script |-> v.name_script, name |-> v.name, comment |-> v.comment]
<1>1. v \in InfoFork
  BY DEF Holds
<1>. QED BY <1>1 DEF InfoFork

LEMMA InfoFrontWritten ==
  ASSUME NEW v \in Holds("info")
  PROVE  LET h == InfoFront(v)
         IN  /\ h \in Seq(Byte) /\ Len(h) = 70
             /\ Read(h, 0, 4) = v.platform /\ Read(h, 4, 4) = v.type_sig
             /\ Read(h, 8, 4) = v.creator_sig /\ Read(h, 12, 4) = v.flags
             /\ Read(h, 16, 4) = v.platform_flags /\ At(h, 20, 32) = v.reserved
             /\ At(h, 52, 8) = Stamp(v.create_date) /\ At(h, 60, 8) = Stamp(v.modify_date)
             /\ Read(h, 68, 2) = v.name_script
<1> DEFINE a == v.platform
           b == v.type_sig
           c == v.creator_sig
           d == v.flags
           e == v.platform_flags
           f == v.reserved
           x == Stamp(v.create_date)
           y == Stamp(v.modify_date)
           k == v.name_script
           u1 == U32(a)
           u2 == u1 \o U32(b)
           u3 == u2 \o U32(c)
           u4 == u3 \o U32(d)
           u5 == u4 \o U32(e)
           u6 == u5 \o f
           u7 == u6 \o x
           u8 == u7 \o y
           u9 == u8 \o U16(k)
<1>1. a \in Long /\ b \in Long /\ c \in Long /\ d \in Long /\ e \in Long /\ k \in Word
  BY InfoHolds
<1>2. f \in Seq(Byte) /\ Len(f) = 32
  <2>1. f \in [1..32 -> Byte]
    BY InfoHolds
  <2>. QED BY <2>1, ReservedBytes
<1>3. x \in Seq(Byte) /\ Len(x) = 8 /\ y \in Seq(Byte) /\ Len(y) = 8
  BY InfoHolds, StampWritten
<1>4. InfoFront(v) = u9
  BY DEF InfoFront
<1> HIDE DEF a, b, c, d, e, f, x, y, k
<1>5. u1 \in Seq(Byte) /\ Len(u1) = 4 /\ Read(u1, 0, 4) = a
  BY <1>1, LongFirst
<1> HIDE DEF u1
<1>6. u2 \in Seq(Byte) /\ Len(u2) = Len(u1) + 4 /\ Read(u2, Len(u1), 4) = b /\ Continues(u2, u1)
  BY <1>1, <1>5, LongAppended, Zenon
<1> HIDE DEF u2
<1>7. u3 \in Seq(Byte) /\ Len(u3) = Len(u2) + 4 /\ Read(u3, Len(u2), 4) = c /\ Continues(u3, u2)
  BY <1>1, <1>6, LongAppended, Zenon
<1> HIDE DEF u3
<1>8. u4 \in Seq(Byte) /\ Len(u4) = Len(u3) + 4 /\ Read(u4, Len(u3), 4) = d /\ Continues(u4, u3)
  BY <1>1, <1>7, LongAppended, Zenon
<1> HIDE DEF u4
<1>9. u5 \in Seq(Byte) /\ Len(u5) = Len(u4) + 4 /\ Read(u5, Len(u4), 4) = e /\ Continues(u5, u4)
  BY <1>1, <1>8, LongAppended, Zenon
<1> HIDE DEF u5
<1>10. /\ u6 \in Seq(Byte) /\ Len(u6) = Len(u5) + Len(f) /\ At(u6, Len(u5), Len(f)) = f
       /\ Continues(u6, u5)
  <2>1. u5 \in Seq(Byte) /\ f \in Seq(Byte)
    BY <1>2, <1>9
  <2>. QED BY <2>1, Appended
<1> HIDE DEF u6
<1>11. /\ u7 \in Seq(Byte) /\ Len(u7) = Len(u6) + Len(x) /\ At(u7, Len(u6), Len(x)) = x
       /\ Continues(u7, u6)
  <2>1. u6 \in Seq(Byte) /\ x \in Seq(Byte)
    BY <1>3, <1>10
  <2>. QED BY <2>1, Appended
<1> HIDE DEF u7
<1>12. /\ u8 \in Seq(Byte) /\ Len(u8) = Len(u7) + Len(y) /\ At(u8, Len(u7), Len(y)) = y
       /\ Continues(u8, u7)
  <2>1. u7 \in Seq(Byte) /\ y \in Seq(Byte)
    BY <1>3, <1>11
  <2>. QED BY <2>1, Appended
<1> HIDE DEF u8
<1>13. u9 \in Seq(Byte) /\ Len(u9) = Len(u8) + 2 /\ Read(u9, Len(u8), 2) = k /\ Continues(u9, u8)
  BY <1>1, <1>12, WordAppended, Zenon
<1> HIDE DEF u9
<1>14. /\ Len(u1) = 4 /\ Len(u2) = 8 /\ Len(u3) = 12 /\ Len(u4) = 16 /\ Len(u5) = 20
       /\ Len(u6) = 52 /\ Len(u7) = 60 /\ Len(u8) = 68 /\ Len(u9) = 70
  <2>1. Len(u1) = 4 /\ Len(u2) = 8 /\ Len(u3) = 12 /\ Len(u4) = 16 /\ Len(u5) = 20
    BY <1>5, <1>6, <1>7, <1>8, <1>9
  <2>. QED BY <1>2, <1>3, <1>10, <1>11, <1>12, <1>13, <2>1
<1>15. /\ Len(u1) \in Nat /\ Len(u2) \in Nat /\ Len(u3) \in Nat /\ Len(u4) \in Nat
       /\ Len(u5) \in Nat /\ Len(u6) \in Nat /\ Len(u7) \in Nat /\ Len(u8) \in Nat
       /\ Len(u1) <= Len(u2) /\ Len(u2) <= Len(u3) /\ Len(u3) <= Len(u4) /\ Len(u4) <= Len(u5)
       /\ Len(u5) <= Len(u6) /\ Len(u6) <= Len(u7) /\ Len(u7) <= Len(u8)
  BY <1>14
<1>16. Continues(u9, u7)
  BY <1>12, <1>13, <1>15, Further, Zenon
<1>17. Continues(u9, u6)
  BY <1>11, <1>15, <1>16, Further, Zenon
<1>18. Continues(u9, u5)
  BY <1>10, <1>15, <1>17, Further, Zenon
<1>19. Continues(u9, u4)
  BY <1>9, <1>15, <1>18, Further, Zenon
<1>20. Continues(u9, u3)
  BY <1>8, <1>15, <1>19, Further, Zenon
<1>21. Continues(u9, u2)
  BY <1>7, <1>15, <1>20, Further, Zenon
<1>22. Continues(u9, u1)
  BY <1>6, <1>15, <1>21, Further, Zenon
<1>23. Read(u9, 0, 4) = a /\ Read(u9, 4, 4) = b /\ Read(u9, 8, 4) = c
  <2>1. At(u9, 0, 4) = At(u1, 0, 4) /\ At(u9, 4, 4) = At(u2, 4, 4) /\ At(u9, 8, 4) = At(u3, 8, 4)
    BY <1>14, <1>20, <1>21, <1>22 DEF Continues
  <2>. QED BY <1>5, <1>6, <1>7, <1>14, <2>1 DEF Read
<1>24. Read(u9, 12, 4) = d /\ Read(u9, 16, 4) = e /\ Read(u9, 68, 2) = k
  <2>1. At(u9, 12, 4) = At(u4, 12, 4) /\ At(u9, 16, 4) = At(u5, 16, 4)
    BY <1>14, <1>18, <1>19 DEF Continues
  <2>. QED BY <1>8, <1>9, <1>13, <1>14, <2>1 DEF Read
<1>25. At(u9, 20, 32) = f /\ At(u9, 52, 8) = x /\ At(u9, 60, 8) = y
  <2>1. At(u9, 20, 32) = At(u6, 20, 32) /\ At(u9, 52, 8) = At(u7, 52, 8)
        /\ At(u9, 60, 8) = At(u8, 60, 8)
    BY <1>13, <1>14, <1>16, <1>17 DEF Continues
  <2>. QED BY <1>2, <1>3, <1>10, <1>11, <1>12, <1>14, <2>1
<1>. QED BY <1>4, <1>13, <1>14, <1>23, <1>24, <1>25 DEF a, b, c, d, e, f, x, y, k
\* A part of a part.
LEMMA PartOfPart ==
  ASSUME NEW s \in Seq(Byte), NEW o \in Nat, NEW n \in Nat, o + n <= Len(s),
         NEW p \in Nat, NEW m \in Nat, p + m <= n
  PROVE  At(At(s, o, n), p, m) = At(s, o + p, m)
<1> DEFINE x == At(s, o, n)
           q == o + p
           y == At(x, p, m)
           z == At(s, q, m)
<1>1. x \in Seq(Byte) /\ Len(x) = n /\ \A i \in 1..n : x[i] = s[o + i]
  BY Part
<1>2. q \in Nat /\ q + m <= Len(s) /\ p + m <= Len(x)
  BY <1>1
<1> HIDE DEF x, q
<1>3. y \in Seq(Byte) /\ Len(y) = m /\ \A i \in 1..m : y[i] = x[p + i]
  BY <1>1, <1>2, Part
<1>4. z \in Seq(Byte) /\ Len(z) = m /\ \A i \in 1..m : z[i] = s[q + i]
  BY <1>2, Part
<1>5. ASSUME NEW i \in 1..m
      PROVE  y[i] = z[i]
  <2>1. p + i \in 1..n /\ o + (p + i) = q + i
    BY DEF q
  <2> HIDE DEF y, z
  <2>. QED BY <1>1, <1>3, <1>4, <2>1
<1> HIDE DEF y, z
<1>6. y = z
  BY <1>3, <1>4, <1>5, SameRun
<1>. QED BY <1>6 DEF x, y, z, q

LEMMA StampAt ==
  ASSUME NEW s \in Seq(Byte), NEW o \in Nat, o + 8 <= Len(s)
  PROVE  /\ ReadStamp(s, o) \in DateTimeStamp /\ Stamp(ReadStamp(s, o)) = At(s, o, 8)
         /\ \A date \in DateTimeStamp : At(s, o, 8) = Stamp(date) => ReadStamp(s, o) = date
<1> DEFINE w == At(s, o, 8)
           d == [year |-> Read(w, 0, 2), msecs |-> Read(w, 2, 2), seconds |-> Read(w, 4, 4)]
<1>1. w \in Seq(Byte) /\ Len(w) = 8
  <2>1. 8 \in Nat
    OBVIOUS
  <2>. QED BY <2>1, Part
<1>2. At(w, 0, 2) = At(s, o, 2) /\ At(w, 2, 2) = At(s, o + 2, 2) /\ At(w, 4, 4) = At(s, o + 4, 4)
  <2> DEFINE n == 8
  <2>1. n \in Nat /\ o + n <= Len(s) /\ 0 + 2 <= n /\ 2 + 2 <= n /\ 4 + 4 <= n /\ o + 0 = o
        /\ 0 \in Nat /\ 2 \in Nat /\ 4 \in Nat
    OBVIOUS
  <2> HIDE DEF n
  <2>2. At(At(s, o, n), 0, 2) = At(s, o + 0, 2)
    BY <2>1, PartOfPart
  <2>3. At(At(s, o, n), 2, 2) = At(s, o + 2, 2)
    BY <2>1, PartOfPart
  <2>4. At(At(s, o, n), 4, 4) = At(s, o + 4, 4)
    BY <2>1, PartOfPart
  <2>. QED BY <2>1, <2>2, <2>3, <2>4, Zenon DEF n
<1>3. ReadStamp(s, o) = d
  BY <1>2, Zenon DEF ReadStamp, Read
<1> HIDE DEF w
<1>4. Stamp(d) = w /\ d \in DateTimeStamp
  <2>1. /\ Read(w, 0, 2) \in Word /\ U16(Read(w, 0, 2)) = At(w, 0, 2)
    <3>1. 0 + 2 = 2 /\ 0 \in Nat /\ 2 \in Nat /\ 2 <= Len(w)
      BY <1>1
    <3>. QED BY <1>1, <3>1, WordBack
  <2>2. /\ Read(w, 2, 2) \in Word /\ At(w, 0, 2) \o U16(Read(w, 2, 2)) = At(w, 0, 4)
    <3>1. 2 + 2 = 4 /\ 4 \in Nat /\ 2 \in Nat /\ 4 <= Len(w)
      BY <1>1
    <3>. QED BY <1>1, <3>1, WordBack
  <2>3. /\ Read(w, 4, 4) \in Long /\ At(w, 0, 4) \o U32(Read(w, 4, 4)) = At(w, 0, 8)
    <3>1. 4 + 4 = 8 /\ 4 \in Nat /\ 8 \in Nat /\ 8 <= Len(w)
      BY <1>1
    <3>. QED BY <1>1, <3>1, LongBack
  <2>4. At(w, 0, 8) = w
    BY <1>1, AllOfIt
  <2>5. Stamp(d) = (U16(Read(w, 0, 2)) \o U16(Read(w, 2, 2))) \o U32(Read(w, 4, 4))
    BY DEF Stamp
  <2>6. d \in DateTimeStamp
    BY <2>1, <2>2, <2>3 DEF DateTimeStamp
  <2> HIDE DEF d
  <2>. QED BY <2>1, <2>2, <2>3, <2>4, <2>5, <2>6, Zenon
<1>5. ASSUME NEW date \in DateTimeStamp, w = Stamp(date)
      PROVE  d = date
  <2>1. Read(w, 0, 2) = date.year /\ Read(w, 2, 2) = date.msecs /\ Read(w, 4, 4) = date.seconds
    BY <1>5, StampWritten
  <2>2. date = [year |-> date.year, msecs |-> date.msecs, seconds |-> date.seconds]
    BY DEF DateTimeStamp
  <2>. QED BY <2>1, <2>2
<1> HIDE DEF d
<1>. QED BY <1>3, <1>4, <1>5, Zenon DEF w

\* What is read of an information fork.
InfoOf(s, name, comment) ==
  [platform |-> Read(s, 0, 4), type_sig |-> Read(s, 4, 4), creator_sig |-> Read(s, 8, 4),
   flags |-> Read(s, 12, 4), platform_flags |-> Read(s, 16, 4), reserved |-> At(s, 20, 32),
   create_date |-> ReadStamp(s, 52), modify_date |-> ReadStamp(s, 60),
   name_script |-> Read(s, 68, 2), name |-> name, comment |-> comment]

LEMMA InfoIs ==
  ASSUME NEW s
  PROVE  LET name == Counted(s, 70, 2)
             comment == Whole(Counted(name.rest, 0, 2))
         IN  Decode("info", s) = IF name.ok
                                 THEN IF comment.ok
                                      THEN Good(InfoOf(s, name.value, comment.value))
                                      ELSE comment
                                 ELSE name
<1> DEFINE name == Counted(s, 70, 2)
           comment == Whole(Counted(name.rest, 0, 2))
<1>1. InfoFixedSize - 2 = 70
  BY DEF InfoFixedSize
<1>2. Decode("info", s) = DecodeInfoFork(s)
  BY DEF Decode
<1>. QED BY <1>1, <1>2, Zenon DEF DecodeInfoFork, Then, InfoOf

LEMMA InfoWritten == Written("info")
<1> SUFFICES ASSUME NEW v \in Holds("info"), Encode("info", v).ok
             PROVE  /\ Encode("info", v).value \in Seq(Byte)
                    /\ Decode("info", Encode("info", v).value) = Good(v)
  BY DEF Written
<1> DEFINE h == InfoFront(v)
           name == v.name
           comment == v.comment
           b == U16(Len(name))
           c == U16(Len(comment))
           w == (h \o b) \o name
           t == c \o comment
           s == w \o t
<1>1. name \in Seq(Byte) /\ comment \in Seq(Byte) /\ Len(name) \in Nat /\ Len(comment) \in Nat
  BY InfoHolds, LenProperties
<1>2. Encode("info", v) = IF Len(name) > MaxU16 \/ Len(comment) > MaxU16
                          THEN Fail("string_too_long") ELSE Good((w \o c) \o comment)
  BY Zenon DEF Encode, EncodeInfoFork, InfoFront
<1>3. Len(name) <= MaxU16 /\ Len(comment) <= MaxU16
  <2> HIDE DEF w, c, comment, name
  <2>1. ~ Fail("string_too_long").ok
    BY DEF Fail
  <2>. QED BY <1>1, <1>2, <2>1, Limits
<1>4. h \in Seq(Byte) /\ Len(h) = 70
  BY InfoFrontWritten
<1>5. /\ b \in Seq(Byte) /\ Len(b) = 2 /\ Number(b) = Len(name)
      /\ c \in Seq(Byte) /\ Len(c) = 2 /\ Number(c) = Len(comment)
  BY <1>1, <1>3, WordWritten
<1>6. ~ (Len(name) > MaxU16) /\ ~ (Len(comment) > MaxU16)
  BY <1>1, <1>3, Limits
<1> HIDE DEF h, b, c, name, comment
<1> DEFINE o == 70
           n == 2
<1>7. o \in Nat /\ n \in Nat /\ Len(h) = o /\ Len(b) = n /\ Len(c) = n
  BY <1>4, <1>5
<1> HIDE DEF o, n
<1>8. w \in Seq(Byte)
  BY <1>1, <1>4, <1>5, Behind
<1>9. Continues(w, h) /\ Len(w) = (o + n) + Len(name)
  BY <1>1, <1>4, <1>5, <1>7, RunBehind
<1>10. \A x \in Seq(Byte) : Counted(w \o x, o, n) = Got(name, x)
  BY <1>1, <1>4, <1>5, <1>7, RunBehind
<1>11. t \in Seq(Byte)
  BY <1>1, <1>5, Behind
<1>12. \A x \in Seq(Byte) : Counted(t \o x, 0, n) = Got(comment, x)
  BY <1>1, <1>5, <1>7, RunFirst
<1>13. Counted(t, 0, n) = Got(comment, << >>)
  <2>1. << >> \in Seq(Byte) /\ t \o << >> = t
    BY <1>11
  <2> HIDE DEF t
  <2>. QED BY <1>12, <2>1, Zenon
<1>14. (w \o c) \o comment = s
  <2> HIDE DEF w
  <2>. QED BY <1>1, <1>5, <1>8, Regroup, Zenon
<1> HIDE DEF w, t
<1>15. Encode("info", v).value = s
  <2> HIDE DEF s
  <2>. QED BY <1>2, <1>6, <1>14, GoodIs
<1>16. s \in Seq(Byte) /\ Len(s) = Len(w) + Len(t) /\ Continues(s, w)
  <2>1. w \in Seq(Byte) /\ t \in Seq(Byte)
    BY <1>8, <1>11
  <2>. QED BY ONLY <2>1, Appended
<1>17. Counted(s, o, n) = Got(name, t)
  BY <1>10, <1>11
<1> HIDE DEF s
<1>18. Len(w) \in Nat /\ Len(t) \in Nat /\ Len(h) \in Nat /\ Len(h) <= Len(w)
       /\ 70 <= Len(s)
  <2>1. Len(w) \in Nat /\ Len(t) \in Nat
    BY <1>8, <1>11, LenProperties, Zenon
  <2>2. Len(h) <= Len(w)
    BY <1>1, <1>7, <1>9
  <2>. QED BY <1>4, <1>16, <2>1, <2>2
<1>19. Continues(s, h)
  BY <1>9, <1>16, <1>18, Further, Zenon
<1>20. InfoOf(s, name, comment) = v
  <2>1. /\ At(s, 0, 4) = At(h, 0, 4) /\ At(s, 4, 4) = At(h, 4, 4) /\ At(s, 8, 4) = At(h, 8, 4)
        /\ At(s, 12, 4) = At(h, 12, 4) /\ At(s, 16, 4) = At(h, 16, 4)
        /\ At(s, 20, 32) = At(h, 20, 32) /\ At(s, 52, 8) = At(h, 52, 8)
        /\ At(s, 60, 8) = At(h, 60, 8) /\ At(s, 68, 2) = At(h, 68, 2)
    BY <1>4, <1>19 DEF Continues
  <2>2. /\ Read(s, 0, 4) = v.platform /\ Read(s, 4, 4) = v.type_sig
        /\ Read(s, 8, 4) = v.creator_sig /\ Read(s, 12, 4) = v.flags
        /\ Read(s, 16, 4) = v.platform_flags /\ At(s, 20, 32) = v.reserved
        /\ At(s, 52, 8) = Stamp(v.create_date) /\ At(s, 60, 8) = Stamp(v.modify_date)
        /\ Read(s, 68, 2) = v.name_script
    BY <2>1, InfoFrontWritten, Zenon DEF Read, h
  <2>3. v.create_date \in DateTimeStamp /\ v.modify_date \in DateTimeStamp
    BY InfoHolds
  <2>4. ReadStamp(s, 52) = v.create_date
    <3> DEFINE p == 52
    <3>1. p \in Nat /\ p + 8 <= Len(s)
      BY <1>16, <1>18
    <3>2. At(s, p, 8) = Stamp(v.create_date)
      BY <2>2
    <3> HIDE DEF p
    <3>3. ReadStamp(s, p) = v.create_date
      BY <1>16, <2>3, <3>1, <3>2, StampAt
    <3>. QED BY <3>3 DEF p
  <2>5. ReadStamp(s, 60) = v.modify_date
    <3> DEFINE p == 60
    <3>1. p \in Nat /\ p + 8 <= Len(s)
      BY <1>16, <1>18
    <3>2. At(s, p, 8) = Stamp(v.modify_date)
      BY <2>2
    <3> HIDE DEF p
    <3>3. ReadStamp(s, p) = v.modify_date
      BY <1>16, <2>3, <3>1, <3>2, StampAt
    <3>. QED BY <3>3 DEF p
  <2>. QED BY <2>2, <2>4, <2>5, InfoHolds, Zenon DEF InfoOf, name, comment
<1>21. Counted(s, 70, 2) = Got(name, t) /\ Whole(Counted(t, 0, 2)) = Good(comment)
  <2>1. Whole(Counted(t, 0, n)) = Good(comment)
    BY <1>13, WholeIs, GotIs
  <2>. QED BY <1>17, <2>1 DEF o, n
<1>22. Decode("info", s) = Good(v)
  <2> DEFINE first == Counted(s, 70, 2)
             second == Whole(Counted(first.rest, 0, 2))
  <2>1. first.ok /\ first.value = name /\ first.rest = t
    BY <1>21, GotIs
  <2>2. second = Good(comment)
    BY <1>21, <2>1
  <2>3. Decode("info", s) = IF first.ok
                            THEN IF second.ok THEN Good(InfoOf(s, first.value, second.value))
                                 ELSE second
                            ELSE first
    BY InfoIs
  <2> HIDE DEF first, second
  <2>4. second.ok /\ second.value = comment
    BY <2>2, GoodIs
  <2>. QED BY <1>20, <2>1, <2>3, <2>4, Zenon
<1>. QED BY <1>15, <1>16, <1>22
LEMMA InfoFrontBack ==
  ASSUME NEW s \in Seq(Byte), 70 <= Len(s), NEW name, NEW comment
  PROVE  InfoFront(InfoOf(s, name, comment)) = At(s, 0, 70)
<1> DEFINE v == InfoOf(s, name, comment)
<1>1. At(s, 0, 4) = U32(Read(s, 0, 4))
  <2>1. 0 + 4 = 4 /\ 0 \in Nat /\ 4 \in Nat /\ 4 <= Len(s)
    OBVIOUS
  <2>. QED BY <2>1, LongBack
<1>2. At(s, 0, 4) \o U32(Read(s, 4, 4)) = At(s, 0, 8)
  <2>1. 4 + 4 = 8 /\ 4 \in Nat /\ 8 \in Nat /\ 8 <= Len(s)
    OBVIOUS
  <2>. QED BY <2>1, LongBack
<1>3. At(s, 0, 8) \o U32(Read(s, 8, 4)) = At(s, 0, 12)
  <2>1. 8 + 4 = 12 /\ 8 \in Nat /\ 12 \in Nat /\ 12 <= Len(s)
    OBVIOUS
  <2>. QED BY <2>1, LongBack
<1>4. At(s, 0, 12) \o U32(Read(s, 12, 4)) = At(s, 0, 16)
  <2>1. 12 + 4 = 16 /\ 12 \in Nat /\ 16 \in Nat /\ 16 <= Len(s)
    OBVIOUS
  <2>. QED BY <2>1, LongBack
<1>5. At(s, 0, 16) \o U32(Read(s, 16, 4)) = At(s, 0, 20)
  <2>1. 16 + 4 = 20 /\ 16 \in Nat /\ 20 \in Nat /\ 20 <= Len(s)
    OBVIOUS
  <2>. QED BY <2>1, LongBack
<1>6. At(s, 0, 20) \o At(s, 20, 32) = At(s, 0, 52)
  <2>1. 20 + 32 = 52 /\ 20 \in Nat /\ 32 \in Nat /\ 52 \in Nat /\ 52 <= Len(s)
    OBVIOUS
  <2>. QED BY <2>1, PartsMeet
<1>7. At(s, 0, 52) \o Stamp(ReadStamp(s, 52)) = At(s, 0, 60)
  <2> DEFINE p == 52
             n == 8
             l == 60
  <2>1. p + n = l /\ p \in Nat /\ n \in Nat /\ l \in Nat /\ l <= Len(s) /\ n = 8 /\ p + 8 <= Len(s)
    OBVIOUS
  <2> HIDE DEF p, n, l
  <2>2. At(s, 0, p) \o At(s, p, n) = At(s, 0, l)
    BY <2>1, PartsMeet
  <2>3. Stamp(ReadStamp(s, p)) = At(s, p, 8)
    BY <2>1, StampAt
  <2>. QED BY <2>1, <2>2, <2>3, Zenon DEF p, l
<1>8. At(s, 0, 60) \o Stamp(ReadStamp(s, 60)) = At(s, 0, 68)
  <2> DEFINE p == 60
             n == 8
             l == 68
  <2>1. p + n = l /\ p \in Nat /\ n \in Nat /\ l \in Nat /\ l <= Len(s) /\ n = 8 /\ p + 8 <= Len(s)
    OBVIOUS
  <2> HIDE DEF p, n, l
  <2>2. At(s, 0, p) \o At(s, p, n) = At(s, 0, l)
    BY <2>1, PartsMeet
  <2>3. Stamp(ReadStamp(s, p)) = At(s, p, 8)
    BY <2>1, StampAt
  <2>. QED BY <2>1, <2>2, <2>3, Zenon DEF p, l
<1>9. At(s, 0, 68) \o U16(Read(s, 68, 2)) = At(s, 0, 70)
  <2>1. 68 + 2 = 70 /\ 68 \in Nat /\ 70 \in Nat /\ 70 <= Len(s)
    OBVIOUS
  <2>. QED BY <2>1, WordBack
<1>10. InfoFront(v)
         = (((((((U32(Read(s, 0, 4)) \o U32(Read(s, 4, 4))) \o U32(Read(s, 8, 4)))
                 \o U32(Read(s, 12, 4))) \o U32(Read(s, 16, 4))) \o At(s, 20, 32))
              \o Stamp(ReadStamp(s, 52))) \o Stamp(ReadStamp(s, 60))) \o U16(Read(s, 68, 2))
  BY DEF InfoFront, InfoOf
<1>11. InfoFront(v) = At(s, 0, 70)
  <2> HIDE DEF v
  <2>1. InfoFront(v)
        = ((((At(s, 0, 16) \o U32(Read(s, 16, 4))) \o At(s, 20, 32))
              \o Stamp(ReadStamp(s, 52))) \o Stamp(ReadStamp(s, 60))) \o U16(Read(s, 68, 2))
    BY ONLY <1>1, <1>2, <1>3, <1>4, <1>10, Zenon
  <2>2. InfoFront(v) = (At(s, 0, 60) \o Stamp(ReadStamp(s, 60))) \o U16(Read(s, 68, 2))
    BY ONLY <1>5, <1>6, <1>7, <2>1, Zenon
  <2>. QED BY ONLY <1>8, <1>9, <2>2, Zenon
<1>. QED BY <1>11 DEF v

LEMMA InfoUnderstood == Understood("info")
<1> SUFFICES ASSUME NEW s \in Seq(Byte), Decode("info", s).ok
             PROVE  Encode("info", Decode("info", s).value) = Good(s)
  BY DEF Understood
<1> DEFINE o == 70
           n == 2
           first == Counted(s, o, n)
           r == first.rest
           second == Counted(r, 0, n)
           name == first.value
           comment == second.value
           v == InfoOf(s, name, comment)
           h == At(s, 0, o)
           b == U16(Len(name))
           c == U16(Len(comment))
<1>1. o \in Nat /\ n \in Nat /\ 0 \in Nat /\ o + n = 72 /\ 0 + n = n /\ n = 2
  OBVIOUS
<1>2. /\ first.ok /\ Whole(second).ok
      /\ Decode("info", s) = Good(InfoOf(s, name, Whole(second).value))
  BY InfoIs
<1>3. second.ok /\ second.rest = << >> /\ Decode("info", s).value = v
  <2> HIDE DEF second, first
  <2>1. second.ok /\ second.rest = << >> /\ Whole(second).value = second.value
    BY <1>2, WholeIs, GoodIs
  <2>. QED BY <1>2, <2>1, GoodIs
<1>4. InfoFront(v) = At(s, 0, 70)
  <2>1. 70 <= Len(s)
    <3> HIDE DEF o, n
    <3>1. o + n <= Len(s)
      BY <1>1, <1>2, RunTaken
    <3>. QED BY <1>1, <3>1 DEF o
  <2> HIDE DEF name, comment
  <2>. QED BY <2>1, InfoFrontBack
<1> HIDE DEF o, n, first, second, r, name, comment
<1>5. /\ name \in Seq(Byte) /\ r \in Seq(Byte) /\ o + n <= Len(s) /\ Len(name) = Read(s, o, n)
      /\ (At(s, 0, o + n) \o name) \o r = s
  <2>1. s \in Seq(Byte) /\ o \in Nat /\ n \in Nat /\ Counted(s, o, n).ok
    BY <1>1, <1>2 DEF first
  <2>2. /\ o + n <= Len(s) /\ Counted(s, o, n).value \in Seq(Byte)
        /\ Counted(s, o, n).rest \in Seq(Byte)
    BY ONLY <2>1, RunTaken, Zenon
  <2>3. Len(Counted(s, o, n).value) = Read(s, o, n)
    BY ONLY <2>1, RunTaken, Zenon
  <2>4. (At(s, 0, o + n) \o Counted(s, o, n).value) \o Counted(s, o, n).rest = s
    BY ONLY <2>1, RunTaken, Zenon
  <2>. QED BY <2>2, <2>3, <2>4, Zenon DEF r, first, name
<1>6. /\ comment \in Seq(Byte) /\ 0 + n <= Len(r) /\ Len(comment) = Read(r, 0, n)
      /\ (At(r, 0, 0 + n) \o comment) \o second.rest = r
  <2>1. r \in Seq(Byte) /\ 0 \in Nat /\ n \in Nat /\ Counted(r, 0, n).ok
    BY <1>1, <1>3, <1>5 DEF second
  <2>2. 0 + n <= Len(r) /\ Counted(r, 0, n).value \in Seq(Byte)
    BY ONLY <2>1, RunTaken, Zenon
  <2>3. Len(Counted(r, 0, n).value) = Read(r, 0, n)
    BY ONLY <2>1, RunTaken, Zenon
  <2>4. (At(r, 0, 0 + n) \o Counted(r, 0, n).value) \o Counted(r, 0, n).rest = r
    BY ONLY <2>1, RunTaken, Zenon
  <2>. QED BY <2>2, <2>3, <2>4, Zenon DEF second, comment
<1>7. Read(s, o, n) \in Word /\ h \o b = At(s, 0, o + n)
  <2> DEFINE l == o + n
  <2>1. l \in Nat /\ o + 2 = l /\ l <= Len(s)
    BY <1>1, <1>5
  <2> HIDE DEF l
  <2>2. Read(s, o, 2) \in Word /\ At(s, 0, o) \o U16(Read(s, o, 2)) = At(s, 0, l)
    BY <1>1, <2>1, WordBack
  <2>. QED BY <1>1, <1>5, <2>2, Zenon DEF l
<1>8. Read(r, 0, n) \in Word /\ c = At(r, 0, n)
  <2>1. 0 + 2 = 2 /\ 2 \in Nat /\ 2 <= Len(r)
    BY <1>1, <1>6
  <2>2. Read(r, 0, 2) \in Word /\ U16(Read(r, 0, 2)) = At(r, 0, 2)
    BY <1>1, <1>5, <2>1, WordBack
  <2>. QED BY <1>1, <1>6, <2>2, Zenon
<1>9. c \o comment = r
  <2>1. At(r, 0, n) \in Seq(Byte)
    BY <1>1, <1>5, <1>6, Part
  <2>2. c \in Seq(Byte)
    BY <1>8, <2>1, Zenon
  <2>3. (c \o comment) \o << >> = r
    BY <1>1, <1>3, <1>6, <1>8, Zenon
  <2>4. c \o comment \in Seq(Byte)
    BY <1>6, <2>2, Behind
  <2>5. \A x \in Seq(Byte) : x \o << >> = x
    OBVIOUS
  <2>. QED BY <2>3, <2>4, <2>5, Zenon
<1>10. Encode("info", v) = IF Len(name) > MaxU16 \/ Len(comment) > MaxU16
                           THEN Fail("string_too_long")
                           ELSE Good((((InfoFront(v) \o b) \o name) \o c) \o comment)
  <2>1. v.name = name /\ v.comment = comment
    BY DEF InfoOf
  <2> HIDE DEF v
  <2>2. Encode("info", v) = EncodeInfoFork(v)
    BY DEF Encode
  <2>3. EncodeInfoFork(v) = IF Len(v.name) > MaxU16 \/ Len(v.comment) > MaxU16
                            THEN Fail("string_too_long")
                            ELSE Good((((InfoFront(v) \o U16(Len(v.name))) \o v.name)
                                         \o U16(Len(v.comment))) \o v.comment)
    BY Zenon DEF EncodeInfoFork, InfoFront
  <2>. QED BY <2>1, <2>2, <2>3, Zenon
<1> HIDE DEF v
<1>11. ~ (Len(name) > MaxU16 \/ Len(comment) > MaxU16)
  BY <1>5, <1>6, <1>7, <1>8, Limits DEF Word
<1>12. Encode("info", v) = Good((((h \o b) \o name) \o c) \o comment)
  BY <1>4, <1>10, <1>11, Zenon DEF o
<1>13. (((h \o b) \o name) \o c) \o comment = s
  <2> DEFINE u == (h \o b) \o name
  <2>1. u \o r = s
    BY <1>5, <1>7, Zenon
  <2>2. u \in Seq(Byte) /\ c \in Seq(Byte)
    <3>1. At(s, 0, o + n) \in Seq(Byte)
      <4> DEFINE l == o + n
      <4>1. l \in Nat /\ 0 + l <= Len(s) /\ 0 \in Nat
        BY <1>1, <1>5
      <4> HIDE DEF l
      <4>. QED BY <4>1, Part DEF l
    <3>2. h \o b \in Seq(Byte)
      BY <1>7, <3>1, Zenon
    <3>3. Len(comment) \in Nat
      BY <1>6, LenProperties, Zenon
    <3>. QED BY <1>5, <3>2, <3>3, Behind, WordWritten
  <2> HIDE DEF u, c
  <2>3. (u \o c) \o comment = u \o (c \o comment)
    BY <1>6, <2>2, Regroup, Zenon
  <2>. QED BY <1>9, <2>1, <2>3, Zenon DEF u
<1>. QED BY <1>3, <1>12, <1>13, Zenon
-----------------------------------------------------------------------------
(* The table of a resume record, a row of sixteen bytes for every entry.   *)

Row(fork, size) == ((U32(fork) \o U32(size)) \o U32(0)) \o U32(0)
Rows(entries) == [i \in 1..Len(entries) |-> Row(entries[i].fork, entries[i].data_size)]

LEMMA RowWritten ==
  ASSUME NEW x \in Long, NEW y \in Long
  PROVE  /\ Row(x, y) \in Seq(Byte) /\ Len(Row(x, y)) = 16
         /\ Read(Row(x, y), 0, 4) = x /\ Read(Row(x, y), 4, 4) = y
<1> DEFINE h == U32(x) \o U32(y)
           u == h \o U32(0)
           w == u \o U32(0)
<1>1. h \in Seq(Byte) /\ Len(h) = 8 /\ Read(h, 0, 4) = x /\ Read(h, 4, 4) = y
  BY TwoLongs
<1>2. 0 \in Long
  BY Limits DEF Long
<1> HIDE DEF h
<1>3. u \in Seq(Byte) /\ Len(u) = Len(h) + 4 /\ Continues(u, h)
  BY <1>1, <1>2, LongAppended, Zenon
<1> HIDE DEF u
<1>4. w \in Seq(Byte) /\ Len(w) = Len(u) + 4 /\ Continues(w, u)
  BY <1>2, <1>3, LongAppended, Zenon
<1>5. Row(x, y) = w
  BY DEF Row, w, u, h
<1> HIDE DEF w
<1>6. Len(h) = 8 /\ Len(u) = 12 /\ Len(w) = 16
  BY <1>1, <1>3, <1>4
<1>7. /\ At(w, 0, 4) = At(u, 0, 4) /\ At(u, 0, 4) = At(h, 0, 4)
      /\ At(w, 4, 4) = At(u, 4, 4) /\ At(u, 4, 4) = At(h, 4, 4)
  BY <1>3, <1>4, <1>6 DEF Continues
<1>. QED BY <1>1, <1>4, <1>5, <1>6, <1>7 DEF Read

\* Rows lie one behind the other.
LEMMA RowsLaid ==
  ASSUME NEW w \in {8, 16}, NEW n \in Nat, NEW ss \in Seq(Seq(Byte)), Len(ss) = n,
         \A i \in 1..n : Len(ss[i]) = w
  PROVE  /\ FlattenSeq(ss) \in Seq(Byte) /\ Len(FlattenSeq(ss)) = n * w
         /\ \A i \in 1..n : At(FlattenSeq(ss), (i - 1) * w, w) = ss[i]
<1> DEFINE Laid(k) == /\ FirstOnes(ss, k) \in Seq(Byte) /\ Len(FirstOnes(ss, k)) = k * w
                      /\ \A i \in 1..k : At(FirstOnes(ss, k), (i - 1) * w, w) = ss[i]
           K == {k \in Nat : k <= n => Laid(k)}
<1>1. 0 \in K
  <2>1. FirstOnes(ss, 0) = << >> /\ << >> \in Seq(Byte) /\ Len(<< >>) = 0
    BY DEF FirstOnes
  <2>2. 0 * w = 0 /\ 1..0 = {} /\ 0 \in Nat
    OBVIOUS
  <2>3. Laid(0)
    BY <2>1, <2>2
  <2> HIDE DEF Laid
  <2>. QED BY <2>2, <2>3
<1>2. ASSUME NEW k \in K
      PROVE  k + 1 \in K
  <2> SUFFICES ASSUME k + 1 <= n
               PROVE  Laid(k + 1)
    OBVIOUS
  <2> DEFINE f == FirstOnes(ss, k)
             x == ss[k + 1]
             g == FirstOnes(ss, k + 1)
  <2>1. k \in Nat /\ Laid(k) /\ k + 1 \in 1..n /\ k + 1 <= Len(ss)
    OBVIOUS
  <2>2. g = f \o x
    BY <2>1, FirstOnesNext
  <2>3. x \in Seq(Byte) /\ Len(x) = w
    <3>1. x \in Seq(Byte)
      BY <2>1, ElementOfSeq, Zenon
    <3>. QED BY <2>1, <3>1
  <2>4. f \in Seq(Byte) /\ Len(f) = k * w /\ \A i \in 1..k : At(f, (i - 1) * w, w) = ss[i]
    BY <2>1
  <2> HIDE DEF f, x, g, K, Laid
  <2>5. g \in Seq(Byte) /\ Len(g) = Len(f) + Len(x) /\ At(g, Len(f), Len(x)) = x /\ Continues(g, f)
    BY <2>2, <2>3, <2>4, Appended
  <2>6. Len(g) = (k + 1) * w /\ At(g, k * w, w) = x
    BY <2>1, <2>3, <2>4, <2>5
  <2>7. ASSUME NEW i \in 1..k + 1
        PROVE  At(g, (i - 1) * w, w) = ss[i]
    <3>1. CASE i = k + 1
      <4>1. i - 1 = k
        BY <2>1, <3>1
      <4>. QED BY <2>6, <3>1, <4>1 DEF x
    <3>2. CASE i # k + 1
      <4> DEFINE o == (i - 1) * w
      <4>1. i \in 1..k /\ o \in Nat /\ o + w <= Len(f)
        BY <2>1, <2>4, <3>2
      <4>2. At(f, o, w) = ss[i]
        BY <2>4, <4>1
      <4> HIDE DEF o
      <4>3. At(g, o, w) = At(f, o, w)
        BY <2>5, <4>1 DEF Continues
      <4>. QED BY <4>2, <4>3 DEF o
    <3>. QED BY <3>1, <3>2
  <2>. QED BY <2>5, <2>6, <2>7 DEF g, Laid
<1>3. K = Nat
  <2>1. K \in SUBSET Nat
    OBVIOUS
  <2> HIDE DEF K
  <2>. QED BY <1>1, <1>2, <2>1, Induction
<1> HIDE DEF Laid
<1>4. Laid(n)
  BY <1>3
<1>5. FlattenSeq(ss) = FirstOnes(ss, n)
  BY FlattenIs
<1>. QED BY <1>4, <1>5 DEF Laid

LEMMA TableWritten ==
  ASSUME NEW entries \in Seq(ResumeEntry)
  PROVE  LET t == FlattenSeq(Rows(entries))
         IN  /\ t \in Seq(Byte) /\ Len(t) = Len(entries) * 16
             /\ \A i \in 1..Len(entries) :
                  /\ Read(t, (i - 1) * 16, 4) = entries[i].fork
                  /\ Read(t, (i - 1) * 16 + 4, 4) = entries[i].data_size
<1> DEFINE n == Len(entries)
           ss == Rows(entries)
           t == FlattenSeq(ss)
<1>1. n \in Nat
  OBVIOUS
<1>2. ASSUME NEW i \in 1..n
      PROVE  /\ ss[i] \in Seq(Byte) /\ Len(ss[i]) = 16
             /\ Read(ss[i], 0, 4) = entries[i].fork /\ Read(ss[i], 4, 4) = entries[i].data_size
  <2>1. entries[i] \in ResumeEntry
    BY ElementOfSeq
  <2>2. entries[i].fork \in Long /\ entries[i].data_size \in Long
    BY <2>1 DEF ResumeEntry
  <2>3. ss[i] = Row(entries[i].fork, entries[i].data_size)
    BY DEF Rows
  <2> HIDE DEF ss
  <2>. QED BY <2>2, <2>3, RowWritten
<1>3. ss \in Seq(Seq(Byte)) /\ Len(ss) = n
  <2>1. ss = [i \in 1..n |-> ss[i]]
    BY DEF Rows
  <2> HIDE DEF ss
  <2>. QED BY <1>1, <1>2, <2>1
<1> HIDE DEF n, ss
<1>4. t \in Seq(Byte) /\ Len(t) = n * 16 /\ \A i \in 1..n : At(t, (i - 1) * 16, 16) = ss[i]
  <2>1. \A i \in 1..n : Len(ss[i]) = 16
    BY <1>2
  <2>2. 16 \in {8, 16}
    OBVIOUS
  <2>. QED BY <1>1, <1>3, <2>1, <2>2, RowsLaid
<1> HIDE DEF t
<1>5. ASSUME NEW i \in 1..n
      PROVE  /\ Read(t, (i - 1) * 16, 4) = entries[i].fork
             /\ Read(t, (i - 1) * 16 + 4, 4) = entries[i].data_size
  <2> DEFINE o == (i - 1) * 16
             m == 16
  <2>1. At(t, o, m) = ss[i]
    BY <1>4
  <2>2. o \in Nat /\ m \in Nat /\ o + m <= Len(t) /\ 0 \in Nat /\ 4 \in Nat /\ 0 + 4 <= m
        /\ 4 + 4 <= m /\ o + 0 = o
    BY <1>1, <1>4
  <2> HIDE DEF o, m
  <2>3. At(t, o, 4) = At(ss[i], 0, 4)
    BY <1>4, <2>1, <2>2, PartOfPart
  <2>4. At(t, o + 4, 4) = At(ss[i], 4, 4)
    BY <1>4, <2>1, <2>2, PartOfPart
  <2>5. Read(t, o, 4) = Read(ss[i], 0, 4) /\ Read(t, o + 4, 4) = Read(ss[i], 4, 4)
    BY <2>3, <2>4 DEF Read
  <2>. QED BY <1>2, <2>5 DEF o
<1>. QED BY <1>4, <1>5 DEF t, n, ss

(* What a resume record of so many entries is, and what it is read as.     *)
ResumeBytes(v) ==
  (((ResumeTag \o U16(v.version)) \o Zeros(34)) \o U16(Len(v.entries)))
    \o FlattenSeq(Rows(v.entries))

EntryIn(s, i) ==
  [fork |-> Read(s, 42 + (i - 1) * 16, 4), data_size |-> Read(s, (42 + (i - 1) * 16) + 4, 4)]

ResumeFits(s) ==
  /\ 42 <= Len(s) /\ First(s, 4) = ResumeTag /\ Read(s, 4, 2) = 1
  /\ Len(s) = 42 + Read(s, 40, 2) * 16

ResumeOf(s) == [version |-> 1, entries |-> [i \in 1..Read(s, 40, 2) |-> EntryIn(s, i)]]

LEMMA ResumeIs ==
  ASSUME NEW s \in Seq(Byte)
  PROVE  /\ DecodeResume(s).ok <=> ResumeFits(s)
         /\ ResumeFits(s) => DecodeResume(s) = Good(ResumeOf(s))
<1> DEFINE n == Read(s, 40, 2)
           e == Exactly(s, 42 + n * 16)
<1>1. 42 <= Len(s) => n \in Nat
  <2>1. 40 \in Nat /\ 2 \in Nat /\ 40 + 2 = 42
    OBVIOUS
  <2>. QED BY <2>1, ReadNat
<1>2. DecodeResume(s)
        = IF Len(s) < 42 THEN Truncated
          ELSE IF First(s, 4) # ResumeTag THEN Fail("wrong_format_tag")
          ELSE IF Read(s, 4, 2) # 1 THEN Fail("unsupported_version")
          ELSE IF e.ok THEN Good(ResumeOf(s)) ELSE e
  BY DEF DecodeResume, Then, ResumeHeaderSize, ResumeEntrySize, ResumeOf, EntryIn
<1>3. 42 <= Len(s) => (e.ok <=> Len(s) = 42 + n * 16)
  <2> SUFFICES ASSUME 42 <= Len(s)
               PROVE  e.ok <=> Len(s) = 42 + n * 16
    OBVIOUS
  <2> DEFINE l == 42 + n * 16
  <2>1. l \in Nat
    BY <1>1
  <2> HIDE DEF l
  <2>2. Exactly(s, l).ok <=> Len(s) = l
    BY <2>1, ExactlyIs, GoodIs
  <2>. QED BY <2>2 DEF l
<1>4. ResumeFits(s) <=> /\ ~ (Len(s) < 42) /\ First(s, 4) = ResumeTag /\ Read(s, 4, 2) = 1 /\ e.ok
  <2>1. Len(s) \in Nat /\ (42 <= Len(s) <=> ~ (Len(s) < 42))
    OBVIOUS
  <2>. QED BY <1>3, <2>1, Zenon DEF ResumeFits
<1>5. ~ Truncated.ok /\ ~ Fail("wrong_format_tag").ok /\ ~ Fail("unsupported_version").ok
      /\ Good(ResumeOf(s)).ok
  BY GoodIs DEF Truncated, Fail
<1> HIDE DEF e
<1>. QED BY <1>2, <1>4, <1>5, Zenon

LEMMA ResumeIsBytes ==
  ASSUME NEW v
  PROVE  Encode("resume", v) = IF Len(v.entries) > MaxU16 THEN Fail("count_too_large")
                               ELSE Good(ResumeBytes(v))
BY DEF Encode, EncodeResume, ResumeBytes, Rows, Row

LEMMA ResumeBytesAre ==
  ASSUME NEW v \in Holds("resume"), Len(v.entries) <= MaxU16
  PROVE  /\ ResumeBytes(v) \in Seq(Byte) /\ DecodeResume(ResumeBytes(v)) = Good(v)
         /\ Len(ResumeBytes(v)) = 42 + Len(v.entries) * 16
<1> DEFINE entries == v.entries
           n == Len(entries)
           tag == ResumeTag
           a == FlattenSeq(Rows(entries))
           p == 34
           s == (((tag \o U16(1)) \o Zeros(p)) \o U16(n)) \o a
<1>1. /\ v.version = 1 /\ entries \in Seq(ResumeEntry)
      /\ v = [version |-> 1, entries |-> entries] /\ tag \in Seq(Byte) /\ Len(tag) = 4
  BY TransferTagsAssumption DEF Holds, ResumeData
<1>2. ResumeBytes(v) = s
  BY <1>1 DEF ResumeBytes
<1>3. n \in Nat /\ n \in Word /\ 1 \in Word /\ 1 \in Nat
  <2>1. n \in Nat /\ n <= MaxU16
    BY <1>1
  <2> HIDE DEF n
  <2>. QED BY <2>1, Limits DEF Word
<1>4. p \in Nat /\ 8 + p = 42 /\ 6 + p = 40
  OBVIOUS
<1> HIDE DEF entries, tag, p
<1>5. /\ a \in Seq(Byte) /\ Len(a) = n * 16
      /\ \A i \in 1..n : /\ Read(a, (i - 1) * 16, 4) = entries[i].fork
                         /\ Read(a, (i - 1) * 16 + 4, 4) = entries[i].data_size
  BY <1>1, TableWritten
<1> HIDE DEF a, n
<1>6. /\ s \in Seq(Byte) /\ Len(s) = (8 + p) + Len(a) /\ First(s, 4) = tag
      /\ Read(s, 4, 2) = 1 /\ Read(s, 6 + p, 2) = n
      /\ \A o \in Nat, m \in Nat : o + m <= Len(a) => At(s, (8 + p) + o, m) = At(a, o, m)
  <2>1. /\ tag \in Seq(Byte) /\ Len(tag) = 4 /\ 1 \in Word /\ n \in Word
        /\ p \in Nat /\ a \in Seq(Byte)
    BY <1>1, <1>3, <1>4, <1>5
  <2>2. s \in Seq(Byte)
    BY <2>1, BehindHead
  <2>3. Len(s) = (8 + p) + Len(a)
    BY <2>1, BehindHead
  <2>4. First(s, 4) = tag
    BY <2>1, BehindHead
  <2>5. Read(s, 4, 2) = 1
    BY <2>1, BehindHead
  <2>6. Read(s, 6 + p, 2) = n
    BY <2>1, BehindHead
  <2>7. \A o \in Nat, m \in Nat : o + m <= Len(a) => At(s, (8 + p) + o, m) = At(a, o, m)
    <3> DEFINE h == ((tag \o U16(1)) \o Zeros(p)) \o U16(n)
    <3>1. h \in Seq(Byte)
      BY <2>1, TaggedHead
    <3>2. Len(h) = 8 + p
      BY <2>1, TaggedHead
    <3> HIDE DEF h
    <3>3. a \in Seq(Byte)
      BY <2>1
    <3>4. ASSUME NEW o \in Nat, NEW m \in Nat, o + m <= Len(a)
          PROVE  At(h \o a, (8 + p) + o, m) = At(a, o, m)
      <4> DEFINE q == (8 + p) + o
      <4>1. q \in Nat /\ q = Len(h) + o
        BY <2>1, <3>2
      <4> HIDE DEF q
      <4>2. At(h \o a, q, m) = At(a, o, m)
        BY ONLY o \in Nat, m \in Nat, <3>1, <3>3, <3>4, <4>1, Shifted
      <4>. QED BY <4>2 DEF q
    <3>. QED BY <3>4, Zenon DEF h
  <2> HIDE DEF s
  <2>. QED BY <2>2, <2>3, <2>4, <2>5, <2>6, <2>7
<1> HIDE DEF s
<1>7. Len(s) = 42 + n * 16
  BY <1>4, <1>5, <1>6
<1>8. ASSUME NEW i \in 1..n
      PROVE  EntryIn(s, i) = entries[i]
  <2> DEFINE o == (i - 1) * 16
             q == o + 4
  <2>1. o \in Nat /\ q \in Nat /\ o + 4 <= Len(a) /\ q + 4 <= Len(a) /\ 4 \in Nat
        /\ (8 + p) + o = 42 + o /\ (8 + p) + q = (42 + o) + 4
    BY <1>3, <1>4, <1>5
  <2>2. Read(a, o, 4) = entries[i].fork /\ Read(a, q, 4) = entries[i].data_size
    BY <1>5
  <2>3. EntryIn(s, i) = [fork |-> Read(s, 42 + o, 4), data_size |-> Read(s, (42 + o) + 4, 4)]
    BY DEF EntryIn
  <2> HIDE DEF o, q
  <2>4. At(s, (8 + p) + o, 4) = At(a, o, 4) /\ At(s, (8 + p) + q, 4) = At(a, q, 4)
    BY <1>6, <2>1
  <2>5. Read(s, 42 + o, 4) = entries[i].fork /\ Read(s, (42 + o) + 4, 4) = entries[i].data_size
    BY <2>1, <2>2, <2>4 DEF Read
  <2>6. entries[i] = [fork |-> entries[i].fork, data_size |-> entries[i].data_size]
    <3>1. entries[i] \in ResumeEntry
      BY <1>1, ElementOfSeq DEF n
    <3>. QED BY <3>1 DEF ResumeEntry
  <2>. QED BY <2>3, <2>5, <2>6
<1>9. Read(s, 40, 2) = n
  BY <1>4, <1>6
<1>10. ResumeFits(s)
  <2>1. 42 <= Len(s)
    BY <1>3, <1>7
  <2>. QED BY <1>6, <1>7, <1>9, <2>1 DEF ResumeFits, tag
<1>11. ResumeOf(s) = v
  <2>1. entries = [i \in 1..n |-> entries[i]]
    BY <1>1 DEF n
  <2>2. [i \in 1..n |-> EntryIn(s, i)] = [i \in 1..n |-> entries[i]]
    BY <1>8, Zenon
  <2>. QED BY <1>1, <1>9, <2>1, <2>2, Zenon DEF ResumeOf
<1>. QED BY <1>2, <1>6, <1>7, <1>10, <1>11, ResumeIs DEF n, entries

LEMMA ResumeReturned == Returned("resume")
<1> SUFFICES ASSUME NEW v \in Holds("resume"), Encode("resume", v).ok
             PROVE  Encode("resume", v).value \in Seq(Byte)
                    /\ Decode("resume", Encode("resume", v).value) = Good(Meant("resume", v))
  BY DEF Returned
<1>1. Len(v.entries) \in Nat /\ MaxU16 \in Nat
  BY Limits DEF Holds, ResumeData
<1>2. Len(v.entries) <= MaxU16 /\ Encode("resume", v) = Good(ResumeBytes(v))
  BY <1>1, ResumeIsBytes DEF Fail
<1>3. Decode("resume", ResumeBytes(v)) = DecodeResume(ResumeBytes(v)) /\ Meant("resume", v) = v
  BY DEF Decode, Meant
<1>. QED BY <1>2, <1>3, ResumeBytesAre, GoodIs

\* Two words and something behind them.
LEMMA BehindTwoWords ==
  ASSUME NEW x \in Word, NEW y \in Word, NEW a \in Seq(Byte)
  PROVE  /\ (U16(x) \o U16(y)) \o a \in Seq(Byte)
         /\ Len((U16(x) \o U16(y)) \o a) = 4 + Len(a)
         /\ Read((U16(x) \o U16(y)) \o a, 0, 2) = x /\ Read((U16(x) \o U16(y)) \o a, 2, 2) = y
         /\ Rest((U16(x) \o U16(y)) \o a, 4) = a
<1> DEFINE u == U16(x)
           h == u \o U16(y)
           s == h \o a
           o == 4
<1>1. u \in Seq(Byte) /\ Len(u) = 2 /\ Read(u, 0, 2) = x
  BY WordFirst
<1> HIDE DEF u
<1>2. h \in Seq(Byte) /\ Len(h) = Len(u) + 2 /\ Read(h, Len(u), 2) = y /\ Continues(h, u)
  BY <1>1, WordAppended, Zenon
<1> HIDE DEF h
<1>3. s \in Seq(Byte) /\ Len(s) = Len(h) + Len(a) /\ Continues(s, h)
  BY <1>2, Appended
<1>4. Len(h) = 4 /\ Len(u) = 2
  BY <1>1, <1>2
<1>5. Rest(s, o) = a
  <2>1. h \in Seq(Byte) /\ o \in Nat /\ o = Len(h)
    BY <1>2, <1>4
  <2>. QED BY <2>1, LeftBehind
<1> HIDE DEF s
<1>6. /\ At(s, 0, 2) = At(h, 0, 2) /\ At(h, 0, 2) = At(u, 0, 2) /\ At(s, 2, 2) = At(h, 2, 2)
  BY <1>2, <1>3, <1>4 DEF Continues
<1>7. Read(s, 0, 2) = x /\ Read(s, 2, 2) = y
  BY <1>1, <1>2, <1>4, <1>6 DEF Read
<1>. QED BY <1>3, <1>4, <1>5, <1>7 DEF s, h, u, o

FolderResumeFits(s) ==
  4 <= Len(s) /\ Read(s, 0, 2) = ResumeFile /\ Len(s) = 4 + Read(s, 2, 2)

LEMMA FolderResumeIs ==
  ASSUME NEW s \in Seq(Byte)
  PROVE  /\ Decode("folder_resume", s).ok
              <=> FolderResumeFits(s) /\ DecodeResume(Rest(s, 4)).ok
         /\ FolderResumeFits(s) => Decode("folder_resume", s) = DecodeResume(Rest(s, 4))
<1> DEFINE n == Read(s, 2, 2)
           e == Exactly(s, 4 + n)
           r == DecodeResume(Rest(s, 4))
<1>1. 4 <= Len(s) => n \in Nat
  <2>1. 2 \in Nat /\ 2 + 2 = 4
    OBVIOUS
  <2>. QED BY <2>1, ReadNat
<1>2. Decode("folder_resume", s)
        = IF Len(s) < 4 THEN Truncated
          ELSE IF Read(s, 0, 2) # ResumeFile THEN Fail("wrong_format_tag")
          ELSE IF e.ok THEN r ELSE e
  BY DEF Decode, DecodeFolderResume, Then
<1>3. 4 <= Len(s) => (e.ok <=> Len(s) = 4 + n)
  <2> SUFFICES ASSUME 4 <= Len(s)
               PROVE  e.ok <=> Len(s) = 4 + n
    OBVIOUS
  <2> DEFINE l == 4 + n
  <2>1. l \in Nat
    BY <1>1
  <2> HIDE DEF l
  <2>2. Exactly(s, l).ok <=> Len(s) = l
    BY <2>1, ExactlyIs, GoodIs
  <2>. QED BY <2>2 DEF l
<1>4. FolderResumeFits(s) <=> ~ (Len(s) < 4) /\ Read(s, 0, 2) = ResumeFile /\ e.ok
  <2>1. Len(s) \in Nat /\ (4 <= Len(s) <=> ~ (Len(s) < 4))
    OBVIOUS
  <2>. QED BY <1>3, <2>1, Zenon DEF FolderResumeFits
<1>5. ~ Truncated.ok /\ ~ Fail("wrong_format_tag").ok
  BY DEF Truncated, Fail
<1> HIDE DEF e, r
<1>6. Decode("folder_resume", s).ok <=> FolderResumeFits(s) /\ r.ok
  BY <1>2, <1>4, <1>5, Zenon
<1>7. FolderResumeFits(s) => Decode("folder_resume", s) = r
  BY <1>2, <1>4, Zenon
<1>. QED BY <1>6, <1>7 DEF r

LEMMA FolderResumeIsBytes ==
  ASSUME NEW v
  PROVE  Encode("folder_resume", v)
           = IF Len(v.entries) > MaxU16 THEN Fail("count_too_large")
             ELSE IF Len(ResumeBytes(v)) > MaxU16 THEN Fail("element_too_large")
             ELSE Good((U16(ResumeFile) \o U16(Len(ResumeBytes(v)))) \o ResumeBytes(v))
<1> DEFINE e == EncodeResume(v)
<1>1. Encode("folder_resume", v)
        = IF e.ok THEN IF Len(e.value) > MaxU16 THEN Fail("element_too_large")
                       ELSE Good((U16(ResumeFile) \o U16(Len(e.value))) \o e.value)
          ELSE e
  BY DEF Encode, EncodeFolderResume, Then
<1>2. e = IF Len(v.entries) > MaxU16 THEN Fail("count_too_large") ELSE Good(ResumeBytes(v))
  BY DEF EncodeResume, ResumeBytes, Rows, Row
<1>3. ~ Fail("count_too_large").ok /\ Good(ResumeBytes(v)).ok
      /\ Good(ResumeBytes(v)).value = ResumeBytes(v)
  BY GoodIs DEF Fail
<1> HIDE DEF e
<1>. QED BY <1>1, <1>2, <1>3, Zenon

LEMMA FolderResumeReturned == Returned("folder_resume")
<1> SUFFICES ASSUME NEW v \in Holds("folder_resume"), Encode("folder_resume", v).ok
             PROVE  Encode("folder_resume", v).value \in Seq(Byte)
                    /\ Decode("folder_resume", Encode("folder_resume", v).value)
                         = Good(Meant("folder_resume", v))
  BY DEF Returned
<1> DEFINE x == ResumeBytes(v)
           s == (U16(ResumeFile) \o U16(Len(x))) \o x
<1>1. v \in Holds("resume") /\ Len(v.entries) \in Nat /\ MaxU16 \in Nat
  BY Limits DEF Holds, ResumeData
<1>2. ~ (Len(v.entries) > MaxU16) /\ ~ (Len(x) > MaxU16) /\ Encode("folder_resume", v) = Good(s)
  <2> HIDE DEF s, x
  <2>. QED BY FolderResumeIsBytes DEF Fail, s, x
<1>3. Len(v.entries) <= MaxU16
  BY <1>1, <1>2
<1>4. x \in Seq(Byte) /\ DecodeResume(x) = Good(v)
  BY <1>1, <1>3, ResumeBytesAre
<1> HIDE DEF x
<1>5. Len(x) \in Word /\ Len(x) \in Nat
  <2>1. Len(x) \in Nat
    BY <1>4
  <2>. QED BY <1>2, <2>1, Limits DEF Word
<1>6. /\ s \in Seq(Byte) /\ Len(s) = 4 + Len(x) /\ Read(s, 0, 2) = ResumeFile
      /\ Read(s, 2, 2) = Len(x) /\ Rest(s, 4) = x
  <2>1. x \in Seq(Byte) /\ Len(x) \in Word /\ ResumeFile \in Word
    BY <1>4, <1>5, ResumeFileAssumption
  <2>2. s \in Seq(Byte)
    BY <2>1, BehindTwoWords
  <2>3. Len(s) = 4 + Len(x)
    BY <2>1, BehindTwoWords
  <2>4. Read(s, 0, 2) = ResumeFile
    BY <2>1, BehindTwoWords
  <2>5. Read(s, 2, 2) = Len(x)
    BY <2>1, BehindTwoWords
  <2>6. Rest(s, 4) = x
    BY <2>1, BehindTwoWords
  <2>. QED BY <2>2, <2>3, <2>4, <2>5, <2>6
<1> HIDE DEF s
<1>7. FolderResumeFits(s)
  BY <1>5, <1>6 DEF FolderResumeFits
<1>8. Decode("folder_resume", s) = Good(v)
  BY <1>4, <1>6, <1>7, FolderResumeIs
<1>9. Meant("folder_resume", v) = v
  BY DEF Meant
<1>. QED BY <1>2, <1>6, <1>8, <1>9, GoodIs
-----------------------------------------------------------------------------
(* What is passed over in a resume record, a file and an archive.          *)

LEMMA PartsJoined ==
  \A s \in Seq(Byte) : \A m \in Nat, n \in Nat, k \in Nat :
    m + n = k /\ k <= Len(s) => At(s, 0, m) \o At(s, m, n) = At(s, 0, k)
<1> SUFFICES ASSUME NEW s \in Seq(Byte), NEW m \in Nat, NEW n \in Nat, NEW k \in Nat,
                    m + n = k, k <= Len(s)
             PROVE  At(s, 0, m) \o At(s, m, n) = At(s, 0, k)
  OBVIOUS
<1>. QED BY PartsMeet

\* The n bytes at p of s, which is behind b others.
LEMMA PartAdded ==
  ASSUME NEW s \in Seq(Byte), NEW a \in Nat, NEW m \in Nat, NEW p \in Nat, p = a + m,
         NEW n \in Nat, NEW k \in Nat, k = m + n, a + k <= Len(s),
         NEW S, NEW o \in Nat, NEW q \in Nat, q = o + m, NEW u, NEW v,
         Alike(u, At(s, a, m), S, o), Alike(v, At(s, p, n), S, q)
  PROVE  Alike(u \o v, At(s, a, k), S, o)
<1> DEFINE x == At(s, a, m)
           z == At(s, p, n)
<1>1. x \in Seq(Byte) /\ Len(x) = m /\ z \in Seq(Byte)
  BY Part
<1>2. x \o z = At(s, a, k)
  <2> DEFINE w == At(s, a, k)
  <2>1. w \in Seq(Byte) /\ Len(w) = k /\ 0 \in Nat /\ m \in Nat /\ n \in Nat /\ k \in Nat
        /\ m + n = k /\ k <= Len(w) /\ 0 + m <= k /\ m + n <= k /\ a + 0 = a
    BY Part
  <2>2. At(w, 0, m) = At(s, a + 0, m) /\ At(w, m, n) = At(s, a + m, n)
    BY <2>1, PartOfPart
  <2> HIDE DEF w
  <2>3. At(w, 0, m) \o At(w, m, n) = At(w, 0, k)
    <3>1. w \in Seq(Byte)
      BY <2>1
    <3>2. m \in Nat /\ n \in Nat /\ k \in Nat /\ m + n = k
      BY <2>1
    <3>3. k <= Len(w)
      BY <2>1
    <3>4. \A i \in Nat, j \in Nat, l \in Nat :
            i + j = l /\ l <= Len(w) => At(w, 0, i) \o At(w, i, j) = At(w, 0, l)
      BY ONLY <3>1, PartsJoined
    <3>. QED BY ONLY <3>2, <3>3, <3>4, Zenon
  <2>4. At(w, 0, k) = w
    BY <2>1, AllOfIt
  <2>. QED BY <2>1, <2>2, <2>3, <2>4 DEF w
<1> HIDE DEF x, z
<1>3. Alike(u \o v, x \o z, S, o)
  <2>1. Alike(u, x, S, o) /\ Alike(v, z, S, q)
    BY DEF x, z
  <2>. QED BY <1>1, <2>1, JoinedAlike
<1>. QED BY <1>2, <1>3

LEMMA WordAlike ==
  ASSUME NEW s \in Seq(Byte), NEW p \in Nat, p + 2 <= Len(s), NEW S, NEW o
  PROVE  Alike(U16(Read(s, p, 2)), At(s, p, 2), S, o)
<1> DEFINE l == p + 2
<1>1. l \in Nat /\ p + 2 = l /\ l <= Len(s) /\ 2 \in Nat
  OBVIOUS
<1>2. At(s, p, 2) \in Seq(Byte)
  BY <1>1, Part
<1> HIDE DEF l
<1>3. U16(Read(s, p, 2)) = At(s, p, 2)
  BY <1>1, WordBack
<1>. QED BY <1>2, <1>3, SameAlike

LEMMA LongAlike ==
  ASSUME NEW s \in Seq(Byte), NEW p \in Nat, p + 4 <= Len(s), NEW S, NEW o
  PROVE  Alike(U32(Read(s, p, 4)), At(s, p, 4), S, o)
<1> DEFINE l == p + 4
<1>1. l \in Nat /\ p + 4 = l /\ l <= Len(s) /\ 4 \in Nat
  OBVIOUS
<1>2. At(s, p, 4) \in Seq(Byte)
  BY <1>1, Part
<1> HIDE DEF l
<1>3. U32(Read(s, p, 4)) = At(s, p, 4)
  BY <1>1, LongBack
<1>. QED BY <1>2, <1>3, SameAlike

LEMMA LongPassed ==
  ASSUME NEW s \in Seq(Byte), NEW p \in Nat, p + 4 <= Len(s), NEW S, NEW o \in Nat,
         Span(o, 4) \subseteq S
  PROVE  Alike(U32(0), At(s, p, 4), S, o)
<1>1. 0 \in Nat /\ 4 \in Nat
  OBVIOUS
<1>2. U32(0) \in Seq(Byte) /\ Len(U32(0)) = 4
  BY <1>1, LongWritten
<1>3. At(s, p, 4) \in Seq(Byte) /\ Len(At(s, p, 4)) = 4
  BY <1>1, Part
<1>. QED BY <1>1, <1>2, <1>3, GapAlike

LEMMA RowAlike ==
  ASSUME NEW s \in Seq(Byte), NEW p \in Nat, p + 16 <= Len(s), NEW S, NEW o \in Nat,
         Span(o + 8, 8) \subseteq S
  PROVE  Alike(Row(Read(s, p, 4), Read(s, p + 4, 4)), At(s, p, 16), S, o)
<1> DEFINE p1 == p + 4
           p2 == p + 8
           p3 == p + 12
           o1 == o + 4
           o2 == o + 8
           o3 == o + 12
           a == U32(Read(s, p, 4))
           b == U32(Read(s, p1, 4))
           z == U32(0)
<1>1. /\ p1 \in Nat /\ p2 \in Nat /\ p3 \in Nat /\ p1 + 4 <= Len(s) /\ p2 + 4 <= Len(s)
      /\ p3 + 4 <= Len(s) /\ p + 4 <= Len(s) /\ p1 = p + 4 /\ p2 = p + 8 /\ p3 = p + 12
      /\ o1 \in Nat /\ o2 \in Nat /\ o3 \in Nat /\ o1 = o + 4 /\ o2 = o + 8 /\ o3 = o + 12
      /\ 4 \in Nat /\ 8 \in Nat /\ 12 \in Nat /\ 16 \in Nat /\ 8 = 4 + 4 /\ 12 = 8 + 4
      /\ 16 = 12 + 4 /\ p + 8 <= Len(s) /\ p + 12 <= Len(s)
  OBVIOUS
<1>2. Span(o2, 4) \subseteq S /\ Span(o3, 4) \subseteq S
  BY DEF Span
<1>3. Row(Read(s, p, 4), Read(s, p1, 4)) = ((a \o b) \o z) \o z
  BY DEF Row
<1> HIDE DEF p1, p2, p3, o1, o2, o3
<1>4. Alike(a, At(s, p, 4), S, o) /\ Alike(b, At(s, p1, 4), S, o1)
  BY <1>1, LongAlike
<1>5. Alike(z, At(s, p2, 4), S, o2) /\ Alike(z, At(s, p3, 4), S, o3)
  BY <1>1, <1>2, LongPassed
<1> HIDE DEF a, b, z
<1>6. Alike(a \o b, At(s, p, 8), S, o)
  BY <1>1, <1>4, PartAdded
<1>7. Alike((a \o b) \o z, At(s, p, 12), S, o)
  BY <1>1, <1>5, <1>6, PartAdded
<1>8. Alike(((a \o b) \o z) \o z, At(s, p, 16), S, o)
  BY <1>1, <1>5, <1>7, PartAdded
<1>. QED BY <1>3, <1>8 DEF p1

\* The rows of the table, but for the last eight bytes of each.
LEMMA RowsAlike ==
  ASSUME NEW s \in Seq(Byte), NEW a \in Nat, NEW n \in Nat, a + n * 16 <= Len(s),
         NEW S, NEW o \in Nat, \A i \in 1..n : Span((o + (i - 1) * 16) + 8, 8) \subseteq S,
         NEW ss \in Seq(Seq(Byte)), Len(ss) = n,
         \A i \in 1..n :
           ss[i] = Row(Read(s, a + (i - 1) * 16, 4), Read(s, (a + (i - 1) * 16) + 4, 4))
  PROVE  Alike(FlattenSeq(ss), At(s, a, n * 16), S, o)
<1> DEFINE K == {k \in Nat : k <= n => Alike(FirstOnes(ss, k), At(s, a, k * 16), S, o)}
<1>1. 0 \in K
  <2>1. FirstOnes(ss, 0) = << >> /\ << >> \in Seq(Byte) /\ Len(<< >>) = 0 /\ 0 * 16 = 0 /\ 0 \in Nat
    BY DEF FirstOnes
  <2>2. a + 0 <= Len(s)
    OBVIOUS
  <2>3. At(s, a, 0) \in Seq(Byte) /\ Len(At(s, a, 0)) = 0
    BY <2>1, <2>2, Part
  <2>4. At(s, a, 0) = << >>
    BY <2>3
  <2>5. Alike(<< >>, << >>, S, o)
    BY <2>1, SameAlike
  <2>. QED BY <2>1, <2>4, <2>5
<1>2. ASSUME NEW k \in K
      PROVE  k + 1 \in K
  <2> SUFFICES ASSUME k + 1 <= n
               PROVE  Alike(FirstOnes(ss, k + 1), At(s, a, (k + 1) * 16), S, o)
    OBVIOUS
  <2> DEFINE m == k * 16
             p == a + m
             q == o + m
             l == (k + 1) * 16
             x == ss[k + 1]
             f == FirstOnes(ss, k)
  <2>1. k \in Nat /\ k + 1 \in 1..n /\ (k + 1) - 1 = k /\ Alike(f, At(s, a, m), S, o)
        /\ k + 1 <= Len(ss)
    OBVIOUS
  <2>2. FirstOnes(ss, k + 1) = f \o x
    BY <2>1, FirstOnesNext
  <2>3. /\ m \in Nat /\ p \in Nat /\ q \in Nat /\ l \in Nat /\ p = a + m /\ q = o + m
        /\ l = m + 16 /\ a + l <= Len(s) /\ p + 16 <= Len(s) /\ 16 \in Nat
    BY <2>1
  <2>4. x = Row(Read(s, p, 4), Read(s, p + 4, 4))
    BY <2>1, Zenon
  <2>5. Span(q + 8, 8) \subseteq S
    BY <2>1, Zenon
  <2> HIDE DEF K, m, p, q, l, x, f
  <2>6. Alike(x, At(s, p, 16), S, q)
    BY <2>3, <2>4, <2>5, RowAlike
  <2>7. Alike(f \o x, At(s, a, l), S, o)
    BY <2>1, <2>3, <2>6, PartAdded
  <2>. QED BY <2>2, <2>7 DEF l
<1>3. K = Nat
  <2>1. K \in SUBSET Nat
    OBVIOUS
  <2> HIDE DEF K
  <2>. QED BY <1>1, <1>2, <2>1, Induction
<1>4. Alike(FirstOnes(ss, n), At(s, a, n * 16), S, o)
  BY <1>3
<1>5. FlattenSeq(ss) = FirstOnes(ss, n)
  BY FlattenIs
<1>. QED BY <1>4, <1>5

LEMMA ResumeAlike ==
  ASSUME NEW s \in Seq(Byte), ResumeFits(s), NEW o \in Nat
  PROVE  LET v == ResumeOf(s)
         IN  /\ Len(v.entries) = Read(s, 40, 2) /\ Len(v.entries) <= MaxU16
             /\ Alike(ResumeBytes(v), s, ResumeIgnored(o, v), o)
<1> DEFINE v == ResumeOf(s)
           n == Read(s, 40, 2)
           S == ResumeIgnored(o, v)
           ss == Rows(v.entries)
           o4 == o + 4
           o6 == o + 6
           o40 == o + 40
           o42 == o + 42
           tag == ResumeTag
           a == U16(v.version)
           b == U16(n)
           z == Zeros(34)
           t == FlattenSeq(ss)
<1>1. /\ 42 <= Len(s) /\ First(s, 4) = tag /\ Read(s, 4, 2) = 1 /\ Len(s) = 42 + n * 16
  BY DEF ResumeFits
<1>2. n \in Word /\ n \in Nat /\ n <= MaxU16
  <2>1. n \in Word
    <3>1. 40 \in Nat /\ 42 \in Nat /\ 40 + 2 = 42
      OBVIOUS
    <3>. QED BY <1>1, <3>1, WordBack
  <2> HIDE DEF n
  <2>. QED BY <2>1, Limits DEF Word
<1>3. v.version = 1 /\ v.entries = [i \in 1..n |-> EntryIn(s, i)]
  BY DEF ResumeOf
<1>4. Len(v.entries) = n
  <2> HIDE DEF v, n
  <2>. QED BY <1>2, <1>3
<1>5. /\ Span(o6, 34) \subseteq S
      /\ \A i \in 1..n : Span((o42 + (i - 1) * 16) + 8, 8) \subseteq S
  <2>1. S = Span(o6, 34)
              \cup UNION {Span(o42 + (i - 1) * 16 + 8, 8) : i \in 1..n}
    BY <1>4, Zenon DEF ResumeIgnored, ResumeHeaderSize, ResumeEntrySize
  <2> HIDE DEF S, n, o6, o42
  <2>. QED BY <2>1
<1>6. ResumeBytes(v) = (((tag \o a) \o z) \o b) \o t
  BY <1>4, Zenon DEF ResumeBytes
<1>7. /\ o4 \in Nat /\ o6 \in Nat /\ o40 \in Nat /\ o42 \in Nat /\ o4 = o + 4 /\ o6 = o + 6
      /\ o40 = o + 40 /\ o42 = o + 42
  OBVIOUS
<1>8. ss \in Seq(Seq(Byte)) /\ Len(ss) = n
      /\ \A i \in 1..n : ss[i] = Row(Read(s, 42 + (i - 1) * 16, 4),
                                     Read(s, (42 + (i - 1) * 16) + 4, 4))
  <2>1. ss = [i \in 1..n |-> Row(v.entries[i].fork, v.entries[i].data_size)]
    BY <1>4, Zenon DEF Rows
  <2>2. ASSUME NEW i \in 1..n
        PROVE  ss[i] = Row(Read(s, 42 + (i - 1) * 16, 4), Read(s, (42 + (i - 1) * 16) + 4, 4))
    <3>1. v.entries[i] = EntryIn(s, i)
      BY <1>3
    <3>2. v.entries[i].fork = Read(s, 42 + (i - 1) * 16, 4)
          /\ v.entries[i].data_size = Read(s, (42 + (i - 1) * 16) + 4, 4)
      <4> HIDE DEF v
      <4>. QED BY <3>1 DEF EntryIn
    <3> HIDE DEF v, n, ss
    <3>. QED BY <2>1, <3>2
  <2>3. ASSUME NEW i \in 1..n
        PROVE  ss[i] \in Seq(Byte)
    <3> DEFINE p == 42 + (i - 1) * 16
               q == p + 4
    <3>1. p \in Nat /\ q \in Nat /\ p + 4 = q /\ q <= Len(s) /\ q + 4 <= Len(s)
      <4> HIDE DEF n
      <4>. QED BY <1>1, <1>2
    <3>2. ss[i] = Row(Read(s, p, 4), Read(s, q, 4))
      BY <2>2
    <3> HIDE DEF p, q, ss
    <3> DEFINE q2 == q + 4
    <3>3. q2 \in Nat /\ q + 4 = q2 /\ q2 <= Len(s)
      BY <3>1
    <3> HIDE DEF q2
    <3>4. Read(s, p, 4) \in Long /\ Read(s, q, 4) \in Long
      BY <3>1, <3>3, LongBack
    <3>. QED BY <3>2, <3>4, RowWritten
  <2> HIDE DEF v, n, ss
  <2>4. ss = [i \in 1..n |-> ss[i]]
    BY <2>1
  <2>5. n \in Nat
    BY <1>2
  <2>6. ss \in Seq(Seq(Byte)) /\ Len(ss) = n
    BY ONLY <2>3, <2>4, <2>5
  <2>. QED BY <2>2, <2>6, Zenon
<1>9. Alike(tag, At(s, 0, 4), S, o)
  <2>1. At(s, 0, 4) = tag
    BY <1>1 DEF First, At
  <2>2. tag \in Seq(Byte)
    BY TransferTagsAssumption
  <2> HIDE DEF tag, S
  <2>. QED BY <2>1, <2>2, SameAlike
<1>10. Alike(a, At(s, 4, 2), S, o4)
  <2>1. 4 \in Nat /\ 4 + 2 <= Len(s) /\ a = U16(Read(s, 4, 2))
    BY <1>1, <1>3
  <2> HIDE DEF a, S
  <2>. QED BY <2>1, WordAlike
<1>11. Alike(b, At(s, 40, 2), S, o40)
  <2>1. 40 \in Nat /\ 40 + 2 <= Len(s)
    BY <1>1
  <2> HIDE DEF S
  <2>. QED BY <2>1, WordAlike
<1>12. Alike(z, At(s, 6, 34), S, o6)
  <2>1. 6 \in Nat /\ 34 \in Nat /\ 6 + 34 <= Len(s)
    BY <1>1
  <2>2. At(s, 6, 34) \in Seq(Byte) /\ Len(At(s, 6, 34)) = 34
    BY <2>1, Part
  <2>3. z \in Seq(Byte) /\ Len(z) = 34
    BY <2>1, ZerosTyped
  <2> HIDE DEF z, S, o6
  <2>. QED BY <1>5, <1>7, <2>1, <2>2, <2>3, GapAlike
<1> HIDE DEF v, S, tag, a, b, z, ss, n, o4, o6, o40, o42
<1>13. Alike(t, At(s, 42, n * 16), S, o42)
  <2>1. 42 \in Nat /\ 42 + n * 16 <= Len(s)
    BY <1>1, <1>2
  <2>. QED BY <1>2, <1>5, <1>7, <1>8, <2>1, RowsAlike
<1> HIDE DEF t
<1>14. Alike((((tag \o a) \o z) \o b) \o t, s, S, o)
  <2> DEFINE m == n * 16
             l == 42 + m
  <2>1. /\ 0 \in Nat /\ 2 \in Nat /\ 4 \in Nat /\ 6 \in Nat /\ 34 \in Nat /\ 40 \in Nat
        /\ 42 \in Nat /\ 4 = 0 + 4 /\ 6 = 0 + 6 /\ 40 = 0 + 40 /\ 42 = 0 + 42
        /\ 6 = 4 + 2 /\ 40 = 6 + 34 /\ 42 = 40 + 2 /\ m \in Nat /\ l \in Nat /\ l = 42 + m
        /\ 0 + 6 <= Len(s) /\ 0 + 40 <= Len(s) /\ 0 + 42 <= Len(s) /\ 0 + l <= Len(s)
        /\ l = Len(s)
    BY <1>1, <1>2
  <2>2. Alike(t, At(s, 42, m), S, o42)
    BY <1>13
  <2> HIDE DEF m, l
  <2>3. Alike(tag \o a, At(s, 0, 6), S, o)
    BY <1>7, <1>9, <1>10, <2>1, PartAdded
  <2>4. Alike((tag \o a) \o z, At(s, 0, 40), S, o)
    BY <1>7, <1>12, <2>1, <2>3, PartAdded
  <2>5. Alike(((tag \o a) \o z) \o b, At(s, 0, 42), S, o)
    BY <1>7, <1>11, <2>1, <2>4, PartAdded
  <2>6. Alike((((tag \o a) \o z) \o b) \o t, At(s, 0, l), S, o)
    BY <1>7, <2>1, <2>2, <2>5, PartAdded
  <2>7. At(s, 0, Len(s)) = s
    BY AllOfIt
  <2>. QED BY <2>1, <2>6, <2>7
<1>. QED BY <1>2, <1>4, <1>6, <1>14 DEF v, S, n

LEMMA ResumeReproduced == Reproduced("resume")
<1>1. ASSUME NEW s \in Seq(Byte), Decode("resume", s).ok
      PROVE  LET v == Decode("resume", s).value
             IN  /\ Encode("resume", v).ok
                 /\ Alike(Encode("resume", v).value, s, Ignored("resume", v), 0)
  <2> DEFINE v == ResumeOf(s)
  <2>1. Decode("resume", s) = DecodeResume(s)
    BY DEF Decode
  <2>2. ResumeFits(s) /\ Decode("resume", s).value = v
    BY <1>1, <2>1, ResumeIs, GoodIs
  <2>3. Len(v.entries) = Read(s, 40, 2)
    BY <2>2, ResumeAlike
  <2>4. Len(v.entries) <= MaxU16
    BY <2>2, ResumeAlike
  <2>5. Alike(ResumeBytes(v), s, ResumeIgnored(0, v), 0)
    <3>1. 0 \in Nat
      OBVIOUS
    <3>. QED BY <2>2, <3>1, ResumeAlike
  <2>6. Len(v.entries) \in Nat
    <3>1. 40 \in Nat /\ 2 \in Nat /\ 40 + 2 <= Len(s)
      BY <2>2 DEF ResumeFits
    <3>2. Read(s, 40, 2) \in Nat
      BY <3>1, ReadNat
    <3>. QED BY <2>3, <3>2, Zenon
  <2> HIDE DEF v
  <2>7. Encode("resume", v) = Good(ResumeBytes(v))
    BY <2>4, <2>6, ResumeIsBytes, Limits
  <2>8. Ignored("resume", v) = ResumeIgnored(0, v)
    BY DEF Ignored
  <2>. QED BY <2>2, <2>5, <2>7, <2>8, GoodIs, Zenon
<1>. QED BY <1>1, AlikeReproduced

LEMMA FolderResumeReproduced == Reproduced("folder_resume")
<1>1. ASSUME NEW s \in Seq(Byte), Decode("folder_resume", s).ok
      PROVE  LET v == Decode("folder_resume", s).value
             IN  /\ Encode("folder_resume", v).ok
                 /\ Alike(Encode("folder_resume", v).value, s, Ignored("folder_resume", v), 0)
  <2> DEFINE r == Rest(s, 4)
             v == ResumeOf(r)
             x == ResumeBytes(v)
             S == ResumeIgnored(4, v)
             n == Read(s, 2, 2)
  <2>1. FolderResumeFits(s) /\ DecodeResume(r).ok /\ Decode("folder_resume", s) = DecodeResume(r)
    BY <1>1, FolderResumeIs
  <2>2. 4 <= Len(s) /\ Read(s, 0, 2) = ResumeFile /\ Len(s) = 4 + n
    BY <2>1 DEF FolderResumeFits
  <2>3. n \in Word
    <3>1. 2 \in Nat /\ 4 \in Nat /\ 2 + 2 = 4
      OBVIOUS
    <3>. QED BY <2>2, <3>1, WordBack
  <2>4. n \in Nat /\ n <= MaxU16 /\ 4 \in Nat
    <3> HIDE DEF n
    <3>. QED BY <2>3, Limits DEF Word
  <2>5. r \in Seq(Byte) /\ Len(r) = Len(s) - 4 /\ r = At(s, 4, n)
    <3>1. r \in Seq(Byte) /\ Len(r) = Len(s) - 4
      BY <2>2, <2>4, TwoParts
    <3>2. r = At(s, 4, n)
      <4> HIDE DEF n
      <4>. QED BY <2>2, <2>4, RestIs
    <3>. QED BY <3>1, <3>2
  <2>6. Len(r) = n
    <3> HIDE DEF r, n
    <3>. QED BY <2>2, <2>4, <2>5
  <2> HIDE DEF r, n
  <2>7. ResumeFits(r) /\ Decode("folder_resume", s).value = v
    BY <2>1, <2>5, ResumeIs, GoodIs
  <2>8. Len(v.entries) = Read(r, 40, 2)
    BY <2>5, <2>7, ResumeAlike
  <2>9. Len(v.entries) <= MaxU16
    BY <2>5, <2>7, ResumeAlike
  <2>10. Alike(x, r, S, 4)
    BY <2>4, <2>5, <2>7, ResumeAlike
  <2>11. Len(v.entries) \in Nat
    <3>1. 40 \in Nat /\ 2 \in Nat /\ 40 + 2 <= Len(r)
      BY <2>7 DEF ResumeFits
    <3>2. Read(r, 40, 2) \in Nat
      BY <2>5, <3>1, ReadNat
    <3>. QED BY <2>8, <3>2, Zenon
  <2> HIDE DEF v, x, S
  <2>12. Len(x) = n /\ x \in Seq(Byte)
    BY <2>6, <2>10 DEF Alike
  <2>13. Encode("folder_resume", v) = Good((U16(ResumeFile) \o U16(n)) \o x)
    <3>1. ~ (Len(v.entries) > MaxU16) /\ ~ (Len(x) > MaxU16)
      BY <2>4, <2>9, <2>11, <2>12, Limits
    <3>2. Encode("folder_resume", v)
            = IF Len(v.entries) > MaxU16 THEN Fail("count_too_large")
              ELSE IF Len(x) > MaxU16 THEN Fail("element_too_large")
              ELSE Good((U16(ResumeFile) \o U16(Len(x))) \o x)
      BY FolderResumeIsBytes, Zenon DEF x
    <3>. QED BY <2>12, <3>1, <3>2, Zenon
  <2>14. Alike((U16(ResumeFile) \o U16(n)) \o x, s, S, 0)
    <3>1. /\ 0 \in Nat /\ 2 \in Nat /\ 4 \in Nat /\ 2 = 0 + 2 /\ 4 = 0 + 4 /\ 4 = 2 + 2
          /\ 0 + 2 <= Len(s) /\ 2 + 2 <= Len(s) /\ 0 + 4 <= Len(s)
      BY <2>2
    <3>2. Alike(U16(ResumeFile), At(s, 0, 2), S, 0)
      BY <2>2, <3>1, WordAlike
    <3>3. Alike(U16(n), At(s, 2, 2), S, 2)
      BY <3>1, WordAlike DEF n
    <3>4. Alike(U16(ResumeFile) \o U16(n), At(s, 0, 4), S, 0)
      BY <3>1, <3>2, <3>3, PartAdded
    <3> DEFINE l == 4 + n
    <3>5. l \in Nat /\ l = 4 + n /\ 0 + l <= Len(s) /\ l = Len(s)
      BY <2>2, <2>4
    <3> HIDE DEF l
    <3>6. Alike(x, At(s, 4, n), S, 4)
      BY <2>5, <2>10
    <3>7. Alike((U16(ResumeFile) \o U16(n)) \o x, At(s, 0, l), S, 0)
      BY <2>4, <3>1, <3>4, <3>5, <3>6, PartAdded
    <3>8. At(s, 0, Len(s)) = s
      BY AllOfIt
    <3>. QED BY <3>5, <3>7, <3>8
  <2>15. Ignored("folder_resume", v) = S
    BY DEF Ignored, S
  <2>. QED BY <2>7, <2>13, <2>14, <2>15, GoodIs, Zenon
<1>. QED BY <1>1, AlikeReproduced

(* An element with a reserved word in it: where that begins, and where the *)
(* words of all elements are when these lie behind o bytes.                *)
Gap(r) == IF r = "fork" THEN 8 ELSE 4

GapOf(r, xs, i, o) ==
  Span((o + Len(FlattenSeq([j \in 1..i - 1 |-> WriteOne(r, xs[j])]))) + Gap(r), 4)

GapsIn(r, xs, o) == UNION {GapOf(r, xs, i, o) : i \in 1..Len(xs)}

\* What was read of s is written as it was, but for its reserved word.
TakenAlike(r, s, one) ==
  /\ one.value \in Element(r) /\ one.rest \in Seq(Byte)
  /\ \E t \in Seq(Byte) : s = t \o one.rest /\ Alike(WriteOne(r, one.value), t, Span(Gap(r), 4), 0)

ElementAlike(r) == \A s \in Seq(Byte) : ReadOne(r, s).ok => TakenAlike(r, s, ReadOne(r, s))

\* The same of m elements.
AreAlike(r, s, most, m, o) ==
  /\ most.value \in Seq(Element(r)) /\ Len(most.value) = m /\ most.rest \in Seq(Byte)
  /\ \E t \in Seq(Byte) : s = t \o most.rest
                          /\ Alike(AllOf(r, most.value), t, GapsIn(r, most.value, o), o)

LEMMA MoreAlike ==
  ASSUME NEW w, NEW y, NEW S, NEW T, NEW o, Alike(w, y, S, o), S \subseteq T
  PROVE  Alike(w, y, T, o)
BY DEF Alike

LEMMA GapsMore ==
  ASSUME NEW r, NEW xs \in Seq(Element(r)), NEW x \in Element(r), NEW o
  PROVE  /\ GapsIn(r, xs, o) \subseteq GapsIn(r, Append(xs, x), o)
         /\ Span((o + Len(AllOf(r, xs))) + Gap(r), 4) \subseteq GapsIn(r, Append(xs, x), o)
<1> DEFINE ys == Append(xs, x)
           n == Len(xs)
<1>1. /\ n \in Nat /\ Len(ys) = n + 1 /\ \A j \in 1..n : ys[j] = xs[j]
  OBVIOUS
<1> HIDE DEF ys
<1>2. ASSUME NEW i \in 1..n + 1
      PROVE  GapOf(r, ys, i, o) = GapOf(r, xs, i, o)
  <2>1. \A j \in 1..i - 1 : ys[j] = xs[j]
    BY <1>1
  <2>2. [j \in 1..i - 1 |-> WriteOne(r, ys[j])] = [j \in 1..i - 1 |-> WriteOne(r, xs[j])]
    BY <2>1, Zenon
  <2>. QED BY <2>2, Zenon DEF GapOf
<1>3. ASSUME NEW i \in 1..n + 1
      PROVE  GapOf(r, xs, i, o) \subseteq GapsIn(r, ys, o)
  <2>1. GapOf(r, ys, i, o) \subseteq GapsIn(r, ys, o)
    BY <1>1 DEF GapsIn
  <2>. QED BY <1>2, <2>1
<1>4. GapsIn(r, xs, o) \subseteq GapsIn(r, ys, o)
  <2> SUFFICES ASSUME NEW i \in 1..n
               PROVE  GapOf(r, xs, i, o) \subseteq GapsIn(r, ys, o)
    BY DEF GapsIn
  <2>1. i \in 1..n + 1
    BY <1>1
  <2>. QED BY <1>3, <2>1
<1>5. Span((o + Len(AllOf(r, xs))) + Gap(r), 4) \subseteq GapsIn(r, ys, o)
  <2>1. n + 1 \in 1..n + 1 /\ (n + 1) - 1 = n
    BY <1>1
  <2>2. GapOf(r, xs, n + 1, o) = Span((o + Len(AllOf(r, xs))) + Gap(r), 4)
    BY <2>1, Zenon DEF GapOf, AllOf, n
  <2>. QED BY <1>3, <2>1, <2>2
<1>. QED BY <1>4, <1>5 DEF ys

LEMMA ItemsAlike ==
  ASSUME NEW r, ElementWritten(r), ElementAlike(r), Gap(r) \in Nat, NEW n \in Nat,
         NEW s \in Seq(Byte), SomeOf(r, n, s, n).ok, NEW o \in Nat
  PROVE  AreAlike(r, s, SomeOf(r, n, s, n), n, o)
<1> DEFINE K == {m \in Nat : m <= n /\ SomeOf(r, n, s, m).ok
                               => AreAlike(r, s, SomeOf(r, n, s, m), m, o)}
<1>1. 0 \in K
  <2>1. /\ Got(<< >>, s).value = << >> /\ Got(<< >>, s).rest = s
        /\ << >> \in Seq(Element(r)) /\ Len(<< >>) = 0 /\ << >> \o s = s /\ << >> \in Seq(Byte)
    BY DEF Got
  <2>2. Alike(AllOf(r, << >>), << >>, GapsIn(r, << >>, o), o)
    BY <2>1, AllOfNone, SameAlike
  <2>3. AreAlike(r, s, Got(<< >>, s), 0, o)
    BY <2>1, <2>2, Zenon DEF AreAlike
  <2>. QED BY <2>3, NoneOf
<1>2. ASSUME NEW m \in K
      PROVE  m + 1 \in K
  <2> DEFINE most == SomeOf(r, n, s, m)
             one == ReadOne(r, most.rest)
  <2> SUFFICES ASSUME m + 1 <= n, SomeOf(r, n, s, m + 1).ok
               PROVE  AreAlike(r, s, SomeOf(r, n, s, m + 1), m + 1, o)
    OBVIOUS
  <2>1. m \in Nat /\ m <= n /\ (most.ok => AreAlike(r, s, most, m, o))
    OBVIOUS
  <2>2. SomeOf(r, n, s, m + 1) = AndNext(r, most)
    BY <2>1, OneMoreOf
  <2> HIDE DEF most, one, K
  <2>3. most.ok /\ one.ok
    BY <2>2 DEF AndNext, one
  <2>4. SomeOf(r, n, s, m + 1) = Got(Append(most.value, one.value), one.rest)
    BY <2>2, <2>3 DEF AndNext, one
  <2> DEFINE ys == most.value
             x == one.value
             d == one.rest
             b == WriteOne(r, x)
             a == AllOf(r, ys)
             zs == Append(ys, x)
             S == GapsIn(r, zs, o)
  <2>5. ys \in Seq(Element(r)) /\ Len(ys) = m /\ most.rest \in Seq(Byte)
    BY <2>1, <2>3 DEF AreAlike
  <2>6. PICK t \in Seq(Byte) : s = t \o most.rest /\ Alike(a, t, GapsIn(r, ys, o), o)
    BY <2>1, <2>3 DEF AreAlike
  <2>7. TakenAlike(r, most.rest, one)
    BY <2>3, <2>5 DEF ElementAlike, one
  <2>8. x \in Element(r) /\ d \in Seq(Byte)
    BY <2>7 DEF TakenAlike
  <2>9. PICK u \in Seq(Byte) : most.rest = u \o d /\ Alike(b, u, Span(Gap(r), 4), 0)
    BY <2>7 DEF TakenAlike
  <2>10. AllOf(r, zs) = a \o b
    BY <2>5, <2>8, AllOfMore
  <2>11. zs \in Seq(Element(r)) /\ Len(zs) = m + 1
    <3> HIDE DEF ys, x
    <3>. QED BY <2>5, <2>8, AppendProperties
  <2>12. GapsIn(r, ys, o) \subseteq S /\ Span((o + Len(a)) + Gap(r), 4) \subseteq S
    BY <2>5, <2>8, GapsMore
  <2> HIDE DEF ys, x, d, a, b, zs, S
  <2>13. s = (t \o u) \o d /\ t \o u \in Seq(Byte)
    <3>1. s = t \o (u \o d)
      BY <2>6, <2>9
    <3>2. (t \o u) \o d = t \o (u \o d)
      BY <2>8, Associative
    <3>3. t \o u \in Seq(Byte)
      BY Joined
    <3>. QED BY <3>1, <3>2, <3>3
  <2>14. Alike(a \o b, t \o u, S, o)
    <3> DEFINE l == Len(t)
               p == o + l
    <3>1. l \in Nat /\ p \in Nat /\ p = o + l /\ l = Len(a)
      BY <2>6 DEF Alike
    <3>2. Span(p + Gap(r), 4) \subseteq S
      BY <2>12, <3>1
    <3> HIDE DEF p
    <3>3. Alike(a, t, S, o)
      BY <2>6, <2>12, MoreAlike
    <3>4. 4 \in Nat
      OBVIOUS
    <3>5. Alike(b, u, S, p)
      BY <2>9, <3>1, <3>2, <3>4, MovedAlike
    <3>6. Len(t) = l /\ l \in Nat
      BY <3>1
    <3> HIDE DEF l
    <3>. QED BY <3>1, <3>3, <3>5, <3>6, JoinedAlike
  <2>15. SomeOf(r, n, s, m + 1).value = zs /\ SomeOf(r, n, s, m + 1).rest = d
    BY <2>4 DEF Got, ys, x, d, zs
  <2>16. Alike(AllOf(r, zs), t \o u, S, o)
    BY <2>10, <2>14
  <2>. QED BY <2>8, <2>11, <2>13, <2>15, <2>16, Zenon DEF AreAlike, S
<1>3. K = Nat
  <2>1. K \in SUBSET Nat
    OBVIOUS
  <2> HIDE DEF K
  <2>. QED BY <1>1, <1>2, <2>1, Induction
<1>. QED BY <1>3

\* As RunTaken, one conclusion at a time.
LEMMA TakenIs ==
  \A s \in Seq(Byte) : \A o \in Nat, n \in Nat :
    Counted(s, o, n).ok =>
      /\ Counted(s, o, n).value \in Seq(Byte) /\ Counted(s, o, n).rest \in Seq(Byte)
      /\ o + n <= Len(s) /\ Len(Counted(s, o, n).value) = Read(s, o, n)
      /\ (At(s, 0, o + n) \o Counted(s, o, n).value) \o Counted(s, o, n).rest = s
<1> SUFFICES ASSUME NEW s \in Seq(Byte), NEW o \in Nat, NEW n \in Nat, Counted(s, o, n).ok
             PROVE  /\ Counted(s, o, n).value \in Seq(Byte) /\ Counted(s, o, n).rest \in Seq(Byte)
                    /\ o + n <= Len(s) /\ Len(Counted(s, o, n).value) = Read(s, o, n)
                    /\ (At(s, 0, o + n) \o Counted(s, o, n).value) \o Counted(s, o, n).rest = s
  OBVIOUS
<1>. QED BY RunTaken, Zenon

LEMMA ForkAlike == ElementAlike("fork")
<1> SUFFICES ASSUME NEW s \in Seq(Byte), ReadOne("fork", s).ok
             PROVE  TakenAlike("fork", s, ReadOne("fork", s))
  BY DEF ElementAlike
<1> DEFINE one == Counted(s, 12, 4)
           data == one.value
           d == one.rest
           type == Read(s, 0, 4)
           compression == Read(s, 4, 4)
           x == [type |-> type, compression |-> compression, data |-> data]
           S == Span(8, 4)
           h == At(s, 0, 16)
           t == h \o data
           a == ((U32(type) \o U32(compression)) \o U32(0)) \o U32(Len(data))
<1>1. ReadOne("fork", s) = IF one.ok THEN Got(x, d) ELSE one
  BY DEF ReadOne, ReadFork, Then, ForkHeaderSize
<1>2. one.ok
  <2> HIDE DEF one
  <2>. QED BY <1>1
<1>3. /\ data \in Seq(Byte) /\ d \in Seq(Byte) /\ 16 <= Len(s) /\ Len(data) = Read(s, 12, 4)
      /\ t \o d = s
  <2>1. 12 \in Nat /\ 4 \in Nat /\ 12 + 4 = 16
    OBVIOUS
  <2>. QED BY <1>2, <2>1, TakenIs, Zenon
<1> HIDE DEF one, data, d
<1>4. /\ 0 \in Nat /\ 4 \in Nat /\ 8 \in Nat /\ 12 \in Nat /\ 16 \in Nat /\ 0 + 4 <= Len(s)
      /\ 4 + 4 <= Len(s) /\ 8 + 4 <= Len(s) /\ 12 + 4 <= Len(s) /\ 0 + 8 <= Len(s)
      /\ 0 + 12 <= Len(s) /\ 0 + 16 <= Len(s)
      /\ 4 = 0 + 4 /\ 8 = 0 + 8 /\ 12 = 0 + 12 /\ 8 = 4 + 4 /\ 12 = 8 + 4 /\ 16 = 12 + 4
      /\ 4 <= Len(s) /\ 8 <= Len(s)
  BY <1>3
<1>5. type \in Long /\ compression \in Long /\ Len(data) \in Long
  BY <1>3, <1>4, LongBack
<1>6. x \in Element("fork")
  <2>1. data \in Runs(MaxU32)
    BY <1>3, <1>5, Limits DEF Runs, Long
  <2>. QED BY <1>5, <2>1 DEF Element
<1> HIDE DEF x, S, type, compression
<1>7. Alike(U32(type), At(s, 0, 4), S, 0) /\ Alike(U32(compression), At(s, 4, 4), S, 4)
  BY <1>4, LongAlike DEF type, compression
<1>8. Alike(U32(0), At(s, 8, 4), S, 8)
  BY <1>4, LongPassed DEF S
<1>9. Alike(U32(Len(data)), At(s, 12, 4), S, 12)
  BY <1>3, <1>4, LongAlike
<1>10. Alike(U32(type) \o U32(compression), At(s, 0, 8), S, 0)
  BY <1>4, <1>7, PartAdded
<1>11. Alike((U32(type) \o U32(compression)) \o U32(0), At(s, 0, 12), S, 0)
  BY <1>4, <1>8, <1>10, PartAdded
<1>12. Alike(a, h, S, 0)
  BY <1>4, <1>9, <1>11, PartAdded
<1>13. h \in Seq(Byte) /\ Len(h) = 16
  BY <1>3, <1>4, TwoParts
<1> HIDE DEF a, h
<1>14. t \in Seq(Byte) /\ Alike(a \o data, t, S, 0)
  <2>1. Alike(data, data, S, 16)
    BY <1>3, SameAlike
  <2>2. 16 = 0 + 16
    OBVIOUS
  <2>. QED BY <1>3, <1>4, <1>12, <1>13, <2>1, <2>2, JoinedAlike, Joined
<1>15. WriteOne("fork", x) = a \o data
  BY DEF WriteOne, EncodeFork, x, a
<1>16. Span(Gap("fork"), 4) = S
  BY DEF Gap, S
<1> HIDE DEF t
<1>17. ReadOne("fork", s).value = x /\ ReadOne("fork", s).rest = d
  BY <1>1, <1>2, GotIs
<1>. QED BY <1>3, <1>6, <1>14, <1>15, <1>16, <1>17, Zenon DEF TakenAlike

(* What a flat file is read as.                                            *)
ForksIn(s) == Items(Read(s, 22, 2), Rest(s, 24), ReadFork)

LEMMA FlatIs ==
  ASSUME NEW s \in Seq(Byte), Decode("flat", s).ok
  PROVE  /\ 24 <= Len(s) /\ First(s, 4) = FlatFileTag /\ ForksIn(s).ok /\ ForksIn(s).rest = << >>
         /\ Decode("flat", s).value = [version |-> Read(s, 4, 2), forks |-> ForksIn(s).value]
<1> DEFINE all == ForksIn(s)
           whole == Whole(all)
<1>1. Decode("flat", s)
        = IF Len(s) < 24 THEN Truncated
          ELSE IF First(s, 4) # FlatFileTag THEN Fail("wrong_format_tag")
          ELSE IF whole.ok THEN Good([version |-> Read(s, 4, 2), forks |-> whole.value])
          ELSE whole
  BY DEF Decode, DecodeFlatFile, FlatFileHeaderSize, Then, ForksIn
<1>2. ~ Truncated.ok /\ ~ Fail("wrong_format_tag").ok
  BY DEF Truncated, Fail
<1> HIDE DEF whole
<1>3. ~ (Len(s) < 24) /\ First(s, 4) = FlatFileTag /\ whole.ok
  BY <1>1, <1>2, Zenon
<1>4. Decode("flat", s) = Good([version |-> Read(s, 4, 2), forks |-> whole.value])
  BY <1>1, <1>3, Zenon
<1>5. all.ok /\ all.rest = << >> /\ whole.value = all.value
  <2> HIDE DEF all
  <2>. QED BY <1>3, WholeIs, GoodIs DEF whole
<1>6. 24 <= Len(s)
  <2>1. Len(s) \in Nat
    OBVIOUS
  <2>. QED BY <1>3, <2>1
<1>. QED BY <1>3, <1>4, <1>5, <1>6, GoodIs

LEMMA GapsAreIgnored ==
  ASSUME NEW xs, NEW n
  PROVE  LET v == [version |-> n, forks |-> xs]
         IN  GapsIn("fork", xs, 24) \subseteq Ignored("flat", v)
             /\ Span(6, 16) \subseteq Ignored("flat", v)
<1> DEFINE v == [version |-> n, forks |-> xs]
           T == UNION {Span(ForkAt(xs, i) + 8, 4) : i \in 1..Len(xs)}
<1>1. Ignored("flat", v) = Span(6, 16) \cup T
  BY DEF Ignored
<1>2. ASSUME NEW i
      PROVE  GapOf("fork", xs, i, 24) = Span(ForkAt(xs, i) + 8, 4)
  <2>1. [j \in 1..i - 1 |-> WriteOne("fork", xs[j])] = [j \in 1..i - 1 |-> EncodeFork(xs[j])]
    BY DEF WriteOne
  <2>2. Gap("fork") = 8
    BY DEF Gap
  <2>. QED BY <2>1, <2>2, Zenon DEF GapOf, ForkAt, FlatFileHeaderSize
<1>3. GapsIn("fork", xs, 24) = T
  BY <1>2, Zenon DEF GapsIn
<1> HIDE DEF T, v
<1>4. /\ GapsIn("fork", xs, 24) \subseteq Ignored("flat", v)
      /\ Span(6, 16) \subseteq Ignored("flat", v)
  BY <1>1, <1>3
<1>. QED BY <1>4 DEF v

LEMMA FlatReproduced == Reproduced("flat")
<1>1. ASSUME NEW s \in Seq(Byte), Decode("flat", s).ok
      PROVE  LET v == Decode("flat", s).value
             IN  /\ Encode("flat", v).ok
                 /\ Alike(Encode("flat", v).value, s, Ignored("flat", v), 0)
  <2> DEFINE tag == FlatFileTag
             version == Read(s, 4, 2)
             n == Read(s, 22, 2)
             r == Rest(s, 24)
             all == ForksIn(s)
             xs == all.value
             v == [version |-> version, forks |-> xs]
             S == Ignored("flat", v)
             a == U16(version)
             b == U16(n)
             z == Zeros(16)
             f == AllOf("fork", xs)
             w == (((tag \o a) \o z) \o b) \o f
  <2>1. /\ 24 <= Len(s) /\ First(s, 4) = tag /\ all.ok /\ all.rest = << >>
        /\ Decode("flat", s).value = v
    BY <1>1, FlatIs
  <2>2. n \in Nat /\ n <= MaxU16
    <3>1. 22 \in Nat /\ 24 \in Nat /\ 22 + 2 = 24
      OBVIOUS
    <3>2. n \in Word
      BY <2>1, <3>1, WordBack
    <3> HIDE DEF n
    <3>. QED BY <3>2, Limits DEF Word
  <2>3. /\ r \in Seq(Byte) /\ Len(r) = Len(s) - 24 /\ At(s, 0, 24) \o r = s /\ 24 \in Nat
    BY <2>1, TwoParts
  <2>4. all = SomeOf("fork", n, r, n)
    BY <2>2, ForksAre DEF ForksIn
  <2>5. GapsIn("fork", xs, 24) \subseteq S
    BY GapsAreIgnored
  <2>6. Span(6, 16) \subseteq S
    BY GapsAreIgnored
  <2>7. Encode("flat", v) = IF Len(xs) > MaxU16 THEN Fail("count_too_large")
                            ELSE Good((((tag \o a) \o z) \o U16(Len(xs))) \o f)
    <3>1. v.version = version /\ v.forks = xs
      OBVIOUS
    <3> HIDE DEF v, version, xs
    <3>2. Encode("flat", v) = EncodeFlatFile(v)
      BY DEF Encode
    <3>3. AllOf("fork", xs) = FlattenSeq([i \in 1..Len(xs) |-> EncodeFork(xs[i])])
      BY DEF AllOf, WriteOne
    <3>4. EncodeFlatFile(v) = IF Len(v.forks) > MaxU16 THEN Fail("count_too_large")
             ELSE Good((((FlatFileTag \o U16(v.version)) \o Zeros(16)) \o U16(Len(v.forks)))
                         \o FlattenSeq([i \in 1..Len(v.forks) |-> EncodeFork(v.forks[i])]))
      BY Zenon DEF EncodeFlatFile
    <3>. QED BY <3>1, <3>2, <3>3, <3>4, Zenon
  <2> HIDE DEF n, r, all, xs, v, S, version, tag
  <2>8. AreAlike("fork", r, all, n, 24)
    <3>1. Gap("fork") \in Nat
      BY DEF Gap
    <3>. QED BY <2>1, <2>2, <2>3, <2>4, <3>1, ForkElement, ForkAlike, ItemsAlike
  <2>9. xs \in Seq(Element("fork")) /\ Len(xs) = n
    BY <2>8 DEF AreAlike, xs
  <2>10. PICK t \in Seq(Byte) : r = t \o << >> /\ Alike(f, t, GapsIn("fork", xs, 24), 24)
    BY <2>1, <2>8 DEF AreAlike, xs
  <2>11. Alike(f, r, S, 24)
    <3>1. r = t
      BY <2>10
    <3>. QED BY <2>5, <2>10, <3>1, MoreAlike
  <2>12. Encode("flat", v) = Good(w)
    <3>1. ~ (Len(xs) > MaxU16)
      BY <2>2, <2>9, Limits
    <3>. QED BY <2>7, <2>9, <3>1, Zenon
  <2>13. /\ 0 \in Nat /\ 2 \in Nat /\ 4 \in Nat /\ 6 \in Nat /\ 16 \in Nat /\ 22 \in Nat
         /\ 24 \in Nat /\ 4 = 0 + 4 /\ 6 = 0 + 6 /\ 22 = 0 + 22 /\ 24 = 0 + 24
         /\ 6 = 4 + 2 /\ 22 = 6 + 16 /\ 24 = 22 + 2
         /\ 4 + 2 <= Len(s) /\ 6 + 16 <= Len(s) /\ 22 + 2 <= Len(s) /\ 0 + 4 <= Len(s)
         /\ 0 + 6 <= Len(s) /\ 0 + 22 <= Len(s) /\ 0 + 24 <= Len(s)
    BY <2>1
  <2>14. Alike(tag, At(s, 0, 4), S, 0)
    <3>1. At(s, 0, 4) = tag
      BY <2>1 DEF First, At
    <3>2. tag \in Seq(Byte)
      BY TransferTagsAssumption DEF tag
    <3>. QED BY <3>1, <3>2, SameAlike
  <2>15. Alike(a, At(s, 4, 2), S, 4)
    BY <2>13, WordAlike DEF version
  <2>16. Alike(z, At(s, 6, 16), S, 6)
    <3>1. At(s, 6, 16) \in Seq(Byte) /\ Len(At(s, 6, 16)) = 16
      BY <2>13, Part
    <3>2. z \in Seq(Byte) /\ Len(z) = 16
      BY <2>13, ZerosTyped
    <3> HIDE DEF z
    <3>. QED BY <2>6, <2>13, <3>1, <3>2, GapAlike
  <2>17. Alike(b, At(s, 22, 2), S, 22)
    BY <2>13, WordAlike DEF n
  <2> HIDE DEF a, b, z, f
  <2>18. Alike(tag \o a, At(s, 0, 6), S, 0)
    BY <2>13, <2>14, <2>15, PartAdded
  <2>19. Alike((tag \o a) \o z, At(s, 0, 22), S, 0)
    BY <2>13, <2>16, <2>18, PartAdded
  <2>20. Alike(((tag \o a) \o z) \o b, At(s, 0, 24), S, 0)
    BY <2>13, <2>17, <2>19, PartAdded
  <2>21. Alike(w, s, S, 0)
    <3>1. At(s, 0, 24) \in Seq(Byte) /\ Len(At(s, 0, 24)) = 24
      BY <2>1, <2>3, TwoParts
    <3>2. Alike(w, At(s, 0, 24) \o r, S, 0)
      BY <2>11, <2>13, <2>20, <3>1, JoinedAlike
    <3>. QED BY <2>3, <3>2
  <2>. QED BY <2>1, <2>12, <2>21, GoodIs, Zenon DEF S
<1>. QED BY <1>1, AlikeReproduced

\* The parts of an entry that was read.
EntryReserved(s) == Counted(Counted(s, 8, 2).rest, 0, 2)
EntryPayload(s) == Counted(EntryReserved(s).rest, 8, 4)
EntryTaken(s) ==
  EntryOf(s, ReadPath(Counted(s, 8, 2).value).value, EntryReserved(s).value,
          EntryReserved(s).rest, EntryPayload(s).value)

LEMMA EntryRead ==
  ASSUME NEW s, ReadOne("entry", s).ok
  PROVE  /\ Counted(s, 8, 2).ok /\ ReadPath(Counted(s, 8, 2).value).ok
         /\ EntryReserved(s).ok /\ EntryPayload(s).ok
         /\ ReadOne("entry", s).value = EntryTaken(s)
         /\ ReadOne("entry", s).rest = EntryPayload(s).rest
<1> DEFINE one == Counted(s, 8, 2)
           two == ReadPath(one.value)
           three == EntryReserved(s)
           four == EntryPayload(s)
           x == EntryTaken(s)
<1>1. ReadOne("entry", s)
        = IF one.ok THEN IF two.ok THEN IF three.ok THEN IF four.ok
            THEN Got(x, four.rest)
            ELSE four ELSE three ELSE two ELSE one
  BY DEF ReadOne, ReadEntryOf, Then, EntryReserved, EntryPayload, EntryTaken, EntryOf
<1> HIDE DEF one, two, three, four, x
<1>2. one.ok /\ two.ok /\ three.ok /\ four.ok
  BY <1>1
<1>3. ReadOne("entry", s) = Got(x, four.rest)
  BY <1>1, <1>2, Zenon
<1>. QED BY <1>2, <1>3, GotIs DEF one, two, three, four, x

LEMMA EntryTyped ==
  ASSUME NEW q \in Seq(Byte), Len(q) \in Word, ReadPath(q).ok,
         NEW type \in Long, NEW reserved \in Seq(Byte), Len(reserved) \in Word,
         NEW compression \in Long, NEW size \in Long, NEW payload \in Seq(Byte),
         Len(payload) \in Long
  PROVE  LET x == [type |-> type, path |-> ReadPath(q).value, reserved |-> reserved,
                   compression_type |-> compression, decompressed_size |-> size,
                   payload |-> payload]
         IN  x \in Element("entry") /\ EntryPath(x) = q
<1> DEFINE names == ReadPath(q).value
           x == [type |-> type, path |-> names, reserved |-> reserved,
                 compression_type |-> compression, decompressed_size |-> size,
                 payload |-> payload]
           a == AllOf("component", names)
<1>1. /\ names \in Seq(Element("component")) /\ Len(names) <= MaxU16
      /\ U16(Len(names)) \o a = q
  <2>1. Listed("component", q) = ReadPath(q)
    BY PathListed
  <2>2. Listed("component", q).ok
    BY <2>1
  <2> DEFINE xs == Listed("component", q).value
  <2>3. xs \in Seq(Element("component"))
    BY <2>2, ComponentElement, ComponentBack, ListedRead
  <2>4. Len(xs) <= MaxU16
    BY <2>2, ComponentElement, ComponentBack, ListedRead
  <2>5. U16(Len(xs)) \o AllOf("component", xs) = q
    BY <2>2, ComponentElement, ComponentBack, ListedRead
  <2>6. xs = names
    BY <2>1, Zenon
  <2> HIDE DEF xs, names
  <2>. QED BY <2>3, <2>4, <2>5, <2>6
<1> HIDE DEF names
<1>2. EntryPath(x) = q
  BY <1>1 DEF EntryPath
<1>3. a = EncodePath(names)
  BY DEF AllOf, WriteOne, EncodePath
<1>4. Len(q) = 2 + Len(a)
  <2> DEFINE n == U16(Len(names))
  <2>1. Len(names) \in Nat
    BY <1>1, LenProperties, Zenon
  <2>2. n \in Seq(Byte) /\ Len(n) = 2
    BY <2>1, WordWritten
  <2>3. a \in Seq(Byte)
    BY <1>1, ComponentElement, AllOfTyped
  <2> HIDE DEF n, a
  <2>4. Len(n \o a) = Len(n) + Len(a)
    BY <2>2, <2>3, Joined, Zenon
  <2>. QED BY <1>1, <2>2, <2>4 DEF n
<1>5. ASSUME NEW i \in 1..Len(names)
      PROVE  names[i] \in PathComponent /\ Len(names[i].name) <= MaxU8
  <2>1. names[i] \in Element("component")
    BY <1>1, ElementOfSeq
  <2>. QED BY <2>1 DEF Element, PathComponent, Runs
<1>6. names \in Seq(PathComponent)
  <2>1. names \in Seq(Element("component")) /\ \A i \in 1..Len(names) : names[i] \in PathComponent
    BY <1>1, <1>5
  <2>2. names = [i \in 1..Len(names) |-> names[i]] /\ Len(names) \in Nat
    BY ONLY <2>1
  <2> DEFINE n == Len(names)
  <2>3. n \in Nat /\ names \in [1..n -> PathComponent]
    BY <2>1, <2>2
  <2> HIDE DEF n
  <2>. QED BY ONLY <2>3
<1>7. x \in ArchiveEntry
  BY <1>6 DEF ArchiveEntry
<1>8. EntryFitting(x)
  <2>1. /\ Len(reserved) <= MaxU16 /\ Len(payload) <= MaxU32 /\ Len(q) <= MaxU16
    BY Limits DEF Word, Long
  <2>2. /\ x.path = names /\ x.reserved = reserved /\ x.payload = payload
    OBVIOUS
  <2> HIDE DEF x
  <2>. QED BY <1>1, <1>3, <1>4, <1>5, <2>1, <2>2 DEF EntryFitting
<1>9. x \in Element("entry")
  BY <1>7, <1>8 DEF Element
<1>. QED BY <1>2, <1>9 DEF names

LEMMA TakenAt ==
  ASSUME NEW s \in Seq(Byte), NEW o \in Nat, NEW n \in Nat, NEW l \in Nat, o + n = l,
         Counted(s, o, n).ok
  PROVE  /\ Counted(s, o, n).value \in Seq(Byte) /\ Counted(s, o, n).rest \in Seq(Byte)
         /\ l <= Len(s) /\ Len(Counted(s, o, n).value) = Read(s, o, n)
         /\ (At(s, 0, l) \o Counted(s, o, n).value) \o Counted(s, o, n).rest = s
BY TakenIs

LEMMA PathBack ==
  ASSUME NEW q \in Seq(Byte), ReadPath(q).ok, NEW x, x.path = ReadPath(q).value
  PROVE  EntryPath(x) = q
<1>1. Listed("component", q) = ReadPath(q)
  BY PathListed
<1>2. Listed("component", q).ok
  BY <1>1
<1> DEFINE xs == Listed("component", q).value
<1>3. U16(Len(xs)) \o AllOf("component", xs) = q
  BY <1>2, ComponentElement, ComponentBack, ListedRead
<1>4. x.path = xs
  BY <1>1, Zenon
<1> HIDE DEF xs
<1>. QED BY <1>3, <1>4, Zenon DEF EntryPath

LEMMA EntryAlike == ElementAlike("entry")
<1> SUFFICES ASSUME NEW s \in Seq(Byte), ReadOne("entry", s).ok
             PROVE  TakenAlike("entry", s, ReadOne("entry", s))
  BY DEF ElementAlike
<1> DEFINE one == Counted(s, 8, 2)
           q == one.value
           d == one.rest
           two == EntryReserved(s)
           reserved == two.value
           t == two.rest
           three == EntryPayload(s)
           payload == three.value
           c == three.rest
           x == EntryTaken(s)
           type == Read(s, 0, 4)
           compression == Read(t, 0, 4)
           size == Read(t, 4, 4)
           S == Span(4, 4)
           h == At(s, 0, 10)
           h2 == At(d, 0, 2)
           h3 == At(t, 0, 12)
           f == h \o q
           g == h2 \o reserved
           e == h3 \o payload
<1>1. /\ one.ok /\ ReadPath(q).ok /\ two.ok /\ three.ok
      /\ ReadOne("entry", s).value = x /\ ReadOne("entry", s).rest = c
  BY EntryRead
<1>2. two = Counted(d, 0, 2) /\ three = Counted(t, 8, 4)
  BY DEF EntryReserved, EntryPayload
<1>3. x = [type |-> type, path |-> ReadPath(q).value, reserved |-> reserved,
           compression_type |-> compression, decompressed_size |-> size, payload |-> payload]
  BY DEF EntryTaken, EntryOf
<1>4. q \in Seq(Byte) /\ d \in Seq(Byte) /\ 10 <= Len(s) /\ Len(q) = Read(s, 8, 2) /\ f \o d = s
  <2>1. 8 \in Nat /\ 2 \in Nat /\ 10 \in Nat /\ 8 + 2 = 10 /\ Counted(s, 8, 2).ok
    BY <1>1
  <2> DEFINE z == Counted(s, 8, 2)
  <2>2. z.value \in Seq(Byte)
    BY <2>1, TakenAt
  <2>3. z.rest \in Seq(Byte)
    BY <2>1, TakenAt
  <2>4. 10 <= Len(s)
    BY <2>1, TakenAt
  <2>5. Len(z.value) = Read(s, 8, 2)
    BY <2>1, TakenAt
  <2>6. (At(s, 0, 10) \o z.value) \o z.rest = s
    BY <2>1, TakenAt
  <2>. QED BY <2>2, <2>3, <2>4, <2>5, <2>6
<1> HIDE DEF one, q, d
<1>5. /\ reserved \in Seq(Byte) /\ t \in Seq(Byte) /\ 2 <= Len(d)
      /\ Len(reserved) = Read(d, 0, 2) /\ g \o t = d
  <2>1. 0 \in Nat /\ 2 \in Nat /\ 0 + 2 = 2
    OBVIOUS
  <2> DEFINE z == Counted(d, 0, 2)
  <2>2. z.ok /\ d \in Seq(Byte) /\ two = z
    BY <1>1, <1>2, <1>4
  <2>3. z.value \in Seq(Byte)
    BY <2>1, <2>2, TakenAt
  <2>4. z.rest \in Seq(Byte)
    BY <2>1, <2>2, TakenAt
  <2>5. 2 <= Len(d)
    BY <2>1, <2>2, TakenAt
  <2>6. Len(z.value) = Read(d, 0, 2)
    BY <2>1, <2>2, TakenAt
  <2>7. (At(d, 0, 2) \o z.value) \o z.rest = d
    BY <2>1, <2>2, TakenAt
  <2> HIDE DEF z, two
  <2>. QED BY <2>2, <2>3, <2>4, <2>5, <2>6, <2>7, Zenon
<1> HIDE DEF two, reserved, t
<1>6. /\ payload \in Seq(Byte) /\ c \in Seq(Byte) /\ 12 <= Len(t)
      /\ Len(payload) = Read(t, 8, 4) /\ e \o c = t
  <2>1. 8 \in Nat /\ 4 \in Nat /\ 12 \in Nat /\ 8 + 4 = 12
    OBVIOUS
  <2> DEFINE z == Counted(t, 8, 4)
  <2>2. z.ok /\ t \in Seq(Byte) /\ three = z
    BY <1>1, <1>2, <1>5
  <2>3. z.value \in Seq(Byte)
    BY <2>1, <2>2, TakenAt
  <2>4. z.rest \in Seq(Byte)
    BY <2>1, <2>2, TakenAt
  <2>5. 12 <= Len(t)
    BY <2>1, <2>2, TakenAt
  <2>6. Len(z.value) = Read(t, 8, 4)
    BY <2>1, <2>2, TakenAt
  <2>7. (At(t, 0, 12) \o z.value) \o z.rest = t
    BY <2>1, <2>2, TakenAt
  <2> HIDE DEF z, three
  <2>. QED BY <2>2, <2>3, <2>4, <2>5, <2>6, <2>7, Zenon
<1> HIDE DEF three, payload, c, f, g, e, x
<1>7. /\ 0 \in Nat /\ 2 \in Nat /\ 4 \in Nat /\ 8 \in Nat /\ 10 \in Nat /\ 12 \in Nat
      /\ 0 + 4 = 4 /\ 4 + 4 = 8 /\ 8 + 2 = 10 /\ 8 + 4 = 12 /\ 0 + 2 = 2
      /\ 4 <= Len(s) /\ 8 <= Len(s) /\ 4 <= Len(t) /\ 8 <= Len(t)
  BY <1>4, <1>6
<1>8. type \in Long /\ Len(q) \in Word /\ U32(type) = At(s, 0, 4)
  <2>1. type \in Long /\ U32(type) = At(s, 0, 4)
    BY <1>4, <1>7, LongBack
  <2>2. Len(q) \in Word
    BY <1>4, <1>7, WordBack
  <2>. QED BY <2>1, <2>2
<1>9. Len(reserved) \in Word /\ U16(Len(reserved)) = h2
  BY <1>4, <1>5, <1>7, WordBack
<1>10. /\ compression \in Long /\ size \in Long /\ Len(payload) \in Long
       /\ ((U32(compression) \o U32(size)) \o U32(Len(payload))) = h3
  <2>1. compression \in Long /\ U32(compression) = At(t, 0, 4)
    BY <1>5, <1>7, LongBack
  <2>2. size \in Long /\ At(t, 0, 4) \o U32(size) = At(t, 0, 8)
    BY <1>5, <1>7, LongBack
  <2>3. Len(payload) \in Long /\ At(t, 0, 8) \o U32(Len(payload)) = At(t, 0, 12)
    <3>1. Read(t, 8, 4) \in Long /\ At(t, 0, 8) \o U32(Read(t, 8, 4)) = At(t, 0, 12)
      <4>1. t \in Seq(Byte) /\ 8 \in Nat /\ 12 \in Nat /\ 8 + 4 = 12 /\ 12 <= Len(t)
        BY <1>5, <1>6, <1>7
      <4>2. Read(t, 8, 4) \in Long
        BY <4>1, LongBack
      <4>3. At(t, 0, 8) \o U32(Read(t, 8, 4)) = At(t, 0, 12)
        BY <4>1, LongBack
      <4>. QED BY <4>2, <4>3, Zenon
    <3>. QED BY <1>6, <3>1, Zenon
  <2>. QED BY <2>1, <2>2, <2>3, Zenon
<1>11. x \in Element("entry") /\ EntryPath(x) = q
  <2>1. ReadPath(q).ok
    BY <1>1
  <2> HIDE DEF type, compression, size
  <2> DEFINE y == [type |-> type, path |-> ReadPath(q).value, reserved |-> reserved,
                   compression_type |-> compression, decompressed_size |-> size,
                   payload |-> payload]
  <2>2. y \in Element("entry")
    BY <1>4, <1>5, <1>6, <1>8, <1>9, <1>10, <2>1, EntryTyped
  <2>3. EntryPath(y) = q
    BY <1>4, <2>1, PathBack
  <2>4. x = y
    BY <1>3
  <2> HIDE DEF y
  <2>. QED BY <2>2, <2>3, <2>4, Zenon
<1> HIDE DEF compression, size, h2, h3
<1>12. /\ x.type = type /\ x.reserved = reserved /\ x.compression_type = compression
       /\ x.decompressed_size = size /\ x.payload = payload
  BY <1>3
<1> HIDE DEF type
<1>13. EntryMiddle(x) = g /\ EntryBack(x) = e
  <2>1. EntryMiddle(x) = h2 \o reserved
    BY <1>9, <1>12, Zenon DEF EntryMiddle
  <2>2. EntryBack(x) = h3 \o payload
    BY <1>10, <1>12, Zenon DEF EntryBack
  <2>. QED BY <2>1, <2>2 DEF g, e
<1>14. EntryFront(x) = ((U32(type) \o U32(0)) \o U16(Len(q))) \o q
  BY <1>11, <1>12, Zenon DEF EntryFront
<1>15. Alike(EntryFront(x), f, S, 0)
  <2>1. /\ 0 + 8 <= Len(s) /\ 0 + 10 <= Len(s) /\ 4 + 4 <= Len(s) /\ 8 + 2 <= Len(s)
        /\ 4 = 0 + 4 /\ 8 = 0 + 8 /\ 10 = 0 + 10 /\ 8 = 4 + 4 /\ 10 = 8 + 2 /\ 0 + 4 <= Len(s)
    BY <1>4
  <2>2. Alike(U32(type), At(s, 0, 4), S, 0)
    BY <1>7, <2>1, LongAlike DEF type
  <2>3. Alike(U32(0), At(s, 4, 4), S, 4)
    BY <1>7, <2>1, LongPassed
  <2>4. Alike(U16(Len(q)), At(s, 8, 2), S, 8)
    BY <1>4, <1>7, <2>1, WordAlike
  <2> HIDE DEF S
  <2>5. Alike(U32(type) \o U32(0), At(s, 0, 8), S, 0)
    BY <1>7, <2>1, <2>2, <2>3, PartAdded
  <2>6. Alike((U32(type) \o U32(0)) \o U16(Len(q)), h, S, 0)
    BY <1>7, <2>1, <2>4, <2>5, PartAdded
  <2>7. Len(h) = 10
    BY <1>4, <1>7, TwoParts
  <2>8. Alike(q, q, S, 10)
    BY <1>4, SameAlike
  <2> HIDE DEF h
  <2>9. Alike(((U32(type) \o U32(0)) \o U16(Len(q))) \o q, h \o q, S, 0)
    BY <1>7, <2>1, <2>6, <2>7, <2>8, JoinedAlike
  <2>. QED BY <1>14, <2>9 DEF f
<1> HIDE DEF h, S
<1>16. f \in Seq(Byte) /\ g \in Seq(Byte) /\ e \in Seq(Byte)
  <2>1. f \in Seq(Byte)
    BY <1>15 DEF Alike
  <2>2. EntryMiddle(x) \in Seq(Byte) /\ EntryBack(x) \in Seq(Byte)
    BY <1>11, MiddleWritten, BackWritten
  <2>. QED BY <1>13, <2>1, <2>2
<1> DEFINE fg == f \o g
           w == fg \o e
<1>17. Alike(WriteOne("entry", x), w, S, 0)
  <2> DEFINE n == Len(f)
             m == Len(fg)
  <2>1. n \in Nat /\ n = 0 + n /\ fg \in Seq(Byte) /\ Len(f) = n
    BY <1>16, Joined
  <2>2. m \in Nat /\ m = 0 + m /\ Len(fg) = m
    <3> HIDE DEF fg
    <3>. QED BY <2>1
  <2> HIDE DEF n, m
  <2>3. Alike(g, g, S, n) /\ Alike(e, e, S, m)
    BY <1>16, SameAlike
  <2>4. Alike(EntryFront(x) \o g, fg, S, 0)
    BY <1>7, <1>15, <2>1, <2>3, JoinedAlike
  <2> HIDE DEF fg
  <2>5. Alike((EntryFront(x) \o g) \o e, w, S, 0)
    BY <1>7, <2>2, <2>3, <2>4, JoinedAlike
  <2>6. WriteOne("entry", x) = (EntryFront(x) \o g) \o e
    BY <1>11, <1>13, EntryInParts, Zenon DEF WriteOne
  <2>. QED BY <2>5, <2>6
<1>18. w \in Seq(Byte) /\ s = w \o c
  <2>1. w \in Seq(Byte)
    BY <1>17 DEF Alike
  <2>2. fg \in Seq(Byte)
    BY <1>16, Joined
  <2> HIDE DEF fg
  <2>3. (fg \o e) \o c = fg \o (e \o c)
    <3>1. \A y \in Seq(Byte) : (fg \o e) \o y = fg \o (e \o y)
      BY <1>16, <2>2, Regroup, Zenon
    <3>. QED BY <1>6, <3>1, Zenon
  <2>4. (f \o g) \o t = f \o (g \o t)
    <3>1. \A y \in Seq(Byte) : (f \o g) \o y = f \o (g \o y)
      BY <1>16, Regroup, Zenon
    <3>. QED BY <1>5, <3>1, Zenon
  <2>5. fg = f \o g
    BY DEF fg
  <2>6. w = fg \o e
    BY DEF w
  <2> HIDE DEF w
  <2>. QED BY <1>4, <1>5, <1>6, <2>1, <2>3, <2>4, <2>5, <2>6, Zenon
<1>19. Span(Gap("entry"), 4) = S
  BY DEF Gap, S
<1> HIDE DEF w
<1>. QED BY <1>1, <1>6, <1>11, <1>17, <1>18, <1>19, Zenon DEF TakenAlike
EntriesIn(s) ==
  Items(Read(s, ArchiveHeaderSize - 6, 2), Counted(s, ArchiveHeaderSize - 2, 2).rest, ReadEntryOf)

LEMMA ArchiveTaken ==
  ASSUME NEW s \in Seq(Byte), Decode("archive", s).ok, ArchiveHeaderSize \in Nat
  PROVE  /\ ArchiveHeaderSize <= Len(s) /\ First(s, 4) = ArchiveTag /\ Read(s, 4, 4) = 1
         /\ Counted(s, ArchiveHeaderSize - 2, 2).ok /\ EntriesIn(s).ok /\ EntriesIn(s).rest = << >>
         /\ Decode("archive", s).value
              = ArchiveOf(s, Counted(s, ArchiveHeaderSize - 2, 2).value, EntriesIn(s).value)
<1> DEFINE one == Counted(s, ArchiveHeaderSize - 2, 2)
           all == EntriesIn(s)
           two == Whole(all)
           v == ArchiveOf(s, one.value, two.value)
           good == Good(v)
           tag == Fail("wrong_format_tag")
           version == Fail("unsupported_version")
<1>1. Decode("archive", s)
        = IF Len(s) < ArchiveHeaderSize THEN Truncated
          ELSE IF First(s, 4) # ArchiveTag THEN tag
          ELSE IF Read(s, 4, 4) # 1 THEN version
          ELSE IF one.ok THEN IF two.ok THEN good ELSE two ELSE one
  BY DEF Decode, DecodeArchive, Then, EntriesIn, ArchiveOf
<1>2. ~ Truncated.ok /\ ~ tag.ok /\ ~ version.ok
  BY DEF Truncated, Fail
<1> HIDE DEF one, two, good, tag, version
<1>3. /\ ~ (Len(s) < ArchiveHeaderSize) /\ First(s, 4) = ArchiveTag /\ Read(s, 4, 4) = 1
      /\ one.ok /\ two.ok
  BY <1>1, <1>2, Zenon
<1>4. Decode("archive", s) = good
  BY <1>1, <1>3, Zenon
<1>5. all.ok /\ all.rest = << >> /\ two.value = all.value
  <2> HIDE DEF all
  <2>. QED BY <1>3, WholeIs, GoodIs DEF two
<1>6. ArchiveHeaderSize <= Len(s)
  <2>1. Len(s) \in Nat
    OBVIOUS
  <2>. QED BY <1>3, <2>1
<1>7. good.value = ArchiveOf(s, one.value, all.value)
  BY <1>5, GoodIs DEF good
<1>. QED BY <1>3, <1>4, <1>5, <1>6, <1>7, Zenon DEF one, all

\* The name of an archive fits its field.
LEMMA NameTaken ==
  ASSUME NEW s \in Seq(Byte), ArchiveHeaderSize <= Len(s), NEW f \in Nat, f = ArchiveNameField
  PROVE  /\ ArchiveName(s) \in Seq(Byte) /\ Len(ArchiveName(s)) < f
         /\ Len(ArchiveName(s)) \in Byte
<1> DEFINE l == s[29]
           k == IF l < f THEN l ELSE f - 1
<1>1. f >= 1 /\ f <= Base /\ Len(s) \in Nat /\ 34 + f <= Len(s) /\ Base \in Nat
  BY ArchiveNameAssumption, Bases DEF ArchiveHeaderSize, NameAt
<1>2. l \in Byte
  BY <1>1, OneByte
<1>3. k \in Nat /\ k < f /\ k < Base /\ 29 + k <= Len(s)
  <2>1. l \in Nat /\ l < Base
    BY <1>1, <1>2, Limits DEF Byte
  <2> HIDE DEF l
  <2>. QED BY <1>1, <2>1
<1>4. ArchiveName(s) = At(s, 29, k)
  BY DEF ArchiveName, NameAt
<1>5. k \in Byte
  <2> HIDE DEF k
  <2>. QED BY <1>1, <1>3, Limits DEF Byte
<1>6. At(s, 29, k) \in Seq(Byte) /\ Len(At(s, 29, k)) = k
  <2> HIDE DEF k
  <2>. QED BY <1>1, <1>3, Part
<1> HIDE DEF k
<1>. QED BY <1>3, <1>4, <1>5, <1>6

LEMMA EntryGapsAreIgnored ==
  ASSUME NEW v, NEW o, o = ArchiveHeaderSize + Len(v.reserved3)
  PROVE  /\ GapsIn("entry", v.entries, o) \subseteq Ignored("archive", v)
         /\ Span(12, 16) \subseteq Ignored("archive", v)
         /\ Span(NameAt, ArchiveNameField) \subseteq Ignored("archive", v)
<1> DEFINE xs == v.entries
           T == UNION {Span(EntryAt(v, i) + 4, 4) : i \in 1..Len(xs)}
<1>1. Ignored("archive", v) = (Span(12, 16) \cup Span(NameAt, ArchiveNameField)) \cup T
  BY DEF Ignored, ArchiveIgnored
<1>2. ASSUME NEW i
      PROVE  GapOf("entry", xs, i, o) = Span(EntryAt(v, i) + 4, 4)
  <2>1. [j \in 1..i - 1 |-> WriteOne("entry", xs[j])] = [j \in 1..i - 1 |-> WriteEntry(xs[j])]
    BY DEF WriteOne
  <2>2. Gap("entry") = 4
    BY DEF Gap
  <2>. QED BY <2>1, <2>2, Zenon DEF GapOf, EntryAt
<1>3. GapsIn("entry", xs, o) = T
  BY <1>2, Zenon DEF GapsIn
<1> HIDE DEF T
<1>. QED BY <1>1, <1>3

\* What an archive writes in place of its name.
NameField(name, f) == (<< Len(name) >> \o name) \o Zeros(f - 1 - Len(name))

LEMMA NameFieldWritten ==
  ASSUME NEW f \in Nat, NEW name \in Seq(Byte), Len(name) < f, Len(name) \in Byte
  PROVE  NameField(name, f) \in Seq(Byte) /\ Len(NameField(name, f)) = f
<1> DEFINE l == Len(name)
           b == << l >>
           m == f - 1 - l
           z == Zeros(m)
           bn == b \o name
<1>1. l \in Nat /\ m \in Nat /\ f = (1 + l) + m
  BY LenProperties
<1>2. b \in Seq(Byte) /\ Len(b) = 1
  OBVIOUS
<1>3. z \in Seq(Byte) /\ Len(z) = m
  <2> HIDE DEF m
  <2>. QED BY <1>1, ZerosTyped
<1> HIDE DEF b, z, m
<1>4. bn \in Seq(Byte) /\ Len(bn) = 1 + l
  BY <1>2, Joined
<1> HIDE DEF bn
<1>5. bn \o z \in Seq(Byte) /\ Len(bn \o z) = Len(bn) + Len(z)
  BY <1>3, <1>4, Joined
<1>6. NameField(name, f) = bn \o z
  BY DEF NameField, bn, b, z, m
<1>. QED BY <1>1, <1>3, <1>4, <1>5, <1>6

LEMMA ArchiveFrontIs ==
  ASSUME NEW v, NEW f \in Nat, f = ArchiveNameField, v.archive_name \in Seq(Byte),
         Len(v.archive_name) < f, Len(v.archive_name) \in Byte, v.archive_size \in Long
  PROVE  ArchiveFront(v)
           = ((((((ArchiveTag \o U32(1)) \o U32(v.archive_size)) \o Zeros(16))
                 \o NameField(v.archive_name, f)) \o U16(Len(v.entries)))
               \o U16(v.file_auto_launch))
<1> DEFINE name == v.archive_name
           b == << Len(name) >>
           m == f - 1 - Len(name)
           z == Zeros(m)
           u1 == ArchiveTag \o U32(1)
           u2 == u1 \o U32(v.archive_size)
           u == u2 \o Zeros(16)
           e == U16(Len(v.entries))
           l == U16(v.file_auto_launch)
<1>1. b \in Seq(Byte)
  OBVIOUS
<1>2. m \in Nat
  BY LenProperties
<1>3. z \in Seq(Byte)
  <2> HIDE DEF m
  <2>. QED BY <1>2, ZerosTyped
<1>4. u \in Seq(Byte)
  <2>1. 1 \in Nat /\ v.archive_size \in Nat /\ 16 \in Nat
    BY NumberIsNat DEF Long
  <2>2. U32(1) \in Seq(Byte) /\ U32(v.archive_size) \in Seq(Byte) /\ Zeros(16) \in Seq(Byte)
    BY <2>1, LongWritten, ZerosTyped
  <2>3. ArchiveTag \in Seq(Byte)
    BY ArchiveTagAssumption
  <2>4. u1 \in Seq(Byte)
    BY <2>2, <2>3, Joined
  <2> HIDE DEF u1
  <2>5. u2 \in Seq(Byte)
    BY <2>2, <2>4, Joined
  <2> HIDE DEF u2
  <2>. QED BY <2>2, <2>5, Joined
<1>5. ArchiveFront(v) = ((((u \o b) \o name) \o z) \o e) \o l
  BY Zenon DEF ArchiveFront
<1>6. NameField(name, f) = (b \o name) \o z
  BY DEF NameField
<1>9. name \in Seq(Byte)
  OBVIOUS
<1> HIDE DEF name, u, b, z, e, l
<1>7. ((u \o b) \o name) \o z = u \o ((b \o name) \o z)
  <2> DEFINE bn == b \o name
  <2>1. bn \in Seq(Byte)
    BY <1>1, <1>9, Joined
  <2>2. (u \o b) \o name = u \o bn
    <3>1. \A y \in Seq(Byte) : (u \o b) \o y = u \o (b \o y)
      BY <1>1, <1>4, Regroup, Zenon
    <3>. QED BY <1>9, <3>1, Zenon
  <2> HIDE DEF bn
  <2>3. (u \o bn) \o z = u \o (bn \o z)
    <3>1. \A y \in Seq(Byte) : (u \o bn) \o y = u \o (bn \o y)
      BY <1>4, <2>1, Regroup, Zenon
    <3>. QED BY <1>3, <3>1, Zenon
  <2>. QED BY <2>2, <2>3, Zenon DEF bn
<1>8. ArchiveFront(v) = ((u \o NameField(name, f)) \o e) \o l
  BY <1>5, <1>6, <1>7, Zenon
<1>. QED BY <1>8 DEF name, u, e, l

\* The header of an archive that was read is written as it was, but for its gaps.
LEMMA ArchiveFrontAlike ==
  ASSUME NEW s \in Seq(Byte), NEW f \in Nat, f = ArchiveNameField, 34 + f <= Len(s),
         First(s, 4) = ArchiveTag, Read(s, 4, 4) = 1,
         NEW v, v.archive_name = ArchiveName(s), v.archive_size = Read(s, 8, 4),
         v.file_auto_launch = Read(s, 30 + f, 2), Len(v.entries) = Read(s, 28 + f, 2),
         NEW S, Span(12, 16) \subseteq S, Span(28, f) \subseteq S
  PROVE  Alike(ArchiveFront(v), At(s, 0, 32 + f), S, 0)
<1> DEFINE g == 28 + f
           h == 30 + f
           l == 32 + f
           size == Read(s, 8, 4)
           field == NameField(ArchiveName(s), f)
           m == Read(s, g, 2)
           launch == Read(s, h, 2)
           t == ArchiveTag
           a == U32(1)
           b == U32(size)
           z == Zeros(16)
           c == U16(m)
           d == U16(launch)
<1>1. /\ 0 \in Nat /\ 2 \in Nat /\ 4 \in Nat /\ 8 \in Nat /\ 12 \in Nat /\ 16 \in Nat /\ 28 \in Nat
      /\ 4 = 0 + 4 /\ 8 = 0 + 8 /\ 12 = 0 + 12 /\ 28 = 0 + 28
      /\ 8 = 4 + 4 /\ 12 = 8 + 4 /\ 28 = 12 + 16
      /\ 4 + 4 <= Len(s) /\ 8 + 4 <= Len(s) /\ 12 + 16 <= Len(s) /\ 28 + f <= Len(s)
      /\ 0 + 4 <= Len(s) /\ 0 + 8 <= Len(s) /\ 0 + 12 <= Len(s) /\ 0 + 28 <= Len(s)
  OBVIOUS
<1>2. /\ g \in Nat /\ h \in Nat /\ l \in Nat /\ g = 28 + f /\ h = g + 2 /\ l = h + 2
      /\ g = 0 + g /\ h = 0 + h /\ l = 0 + l
      /\ 0 + g <= Len(s) /\ 0 + h <= Len(s) /\ 0 + l <= Len(s)
      /\ g + 2 <= Len(s) /\ h + 2 <= Len(s)
  OBVIOUS
<1>3. v.file_auto_launch = launch /\ Len(v.entries) = m /\ v.archive_size = size
  OBVIOUS
<1> HIDE DEF g, h, l
<1>4. ArchiveName(s) \in Seq(Byte) /\ Len(ArchiveName(s)) < f /\ Len(ArchiveName(s)) \in Byte
  <2>1. ArchiveHeaderSize <= Len(s)
    BY DEF ArchiveHeaderSize, NameAt
  <2>. QED BY <2>1, NameTaken
<1>5. size \in Long
  BY <1>1, LongBack
<1>6. ArchiveFront(v) = ((((((t \o a) \o b) \o z) \o field) \o c) \o d)
  BY <1>3, <1>4, <1>5, ArchiveFrontIs
<1>7. Alike(t, At(s, 0, 4), S, 0)
  <2>1. At(s, 0, 4) = t
    BY DEF First, At
  <2>2. t \in Seq(Byte)
    BY ArchiveTagAssumption
  <2>. QED BY <2>1, <2>2, SameAlike
<1>8. Alike(a, At(s, 4, 4), S, 4)
  BY <1>1, LongAlike
<1>9. Alike(b, At(s, 8, 4), S, 8)
  BY <1>1, LongAlike
<1>10. Alike(z, At(s, 12, 16), S, 12)
  <2>1. At(s, 12, 16) \in Seq(Byte) /\ Len(At(s, 12, 16)) = 16
    <3>1. s \in Seq(Byte) /\ 12 \in Nat /\ 16 \in Nat /\ 12 + 16 <= Len(s)
      BY <1>1
    <3>. QED BY ONLY <3>1, Part
  <2>2. z \in Seq(Byte) /\ Len(z) = 16
    BY <1>1, ZerosTyped
  <2> HIDE DEF z
  <2>. QED BY <1>1, <2>1, <2>2, GapAlike
<1>11. Alike(field, At(s, 28, f), S, 28)
  <2>1. At(s, 28, f) \in Seq(Byte) /\ Len(At(s, 28, f)) = f
    <3>1. s \in Seq(Byte) /\ 28 \in Nat /\ f \in Nat /\ 28 + f <= Len(s)
      BY <1>1
    <3>. QED BY ONLY <3>1, Part
  <2>2. field \in Seq(Byte) /\ Len(field) = f
    BY <1>4, NameFieldWritten
  <2> HIDE DEF field
  <2>. QED BY <1>1, <2>1, <2>2, GapAlike
<1>12. Alike(c, At(s, g, 2), S, g)
  BY <1>2, WordAlike
<1>13. Alike(d, At(s, h, 2), S, h)
  BY <1>2, WordAlike
<1> HIDE DEF t, a, b, z, c, d, field
<1>14. Alike(t \o a, At(s, 0, 8), S, 0)
  BY <1>1, <1>7, <1>8, PartAdded
<1>15. Alike((t \o a) \o b, At(s, 0, 12), S, 0)
  BY <1>1, <1>9, <1>14, PartAdded
<1>16. Alike(((t \o a) \o b) \o z, At(s, 0, 28), S, 0)
  BY <1>1, <1>10, <1>15, PartAdded
<1>17. Alike((((t \o a) \o b) \o z) \o field, At(s, 0, g), S, 0)
  BY <1>1, <1>2, <1>11, <1>16, PartAdded
<1>18. Alike(((((t \o a) \o b) \o z) \o field) \o c, At(s, 0, h), S, 0)
  BY <1>1, <1>2, <1>12, <1>17, PartAdded
<1>19. Alike((((((t \o a) \o b) \o z) \o field) \o c) \o d, At(s, 0, l), S, 0)
  BY <1>1, <1>2, <1>13, <1>18, PartAdded
<1>. QED BY <1>6, <1>19 DEF l

LEMMA ArchiveReproduced == Reproduced("archive")
<1>1. ASSUME NEW s \in Seq(Byte), Decode("archive", s).ok
      PROVE  LET v == Decode("archive", s).value
             IN  /\ Encode("archive", v).ok
                 /\ Alike(Encode("archive", v).value, s, Ignored("archive", v), 0)
  <2> DEFINE f == ArchiveNameField
             p == 32 + f
             l == 34 + f
             one == Counted(s, p, 2)
             q == one.value
             r == one.rest
             n == Read(s, 28 + f, 2)
             all == EntriesIn(s)
             xs == all.value
             v == ArchiveOf(s, q, xs)
             S == Ignored("archive", v)
             front == ArchiveFront(v)
             b == U16(Len(q))
             es == AllOf("entry", xs)
             w == ((front \o b) \o q) \o es
  <2>1. /\ f \in Nat /\ p \in Nat /\ l \in Nat /\ ArchiveHeaderSize = l /\ p + 2 = l
        /\ ArchiveHeaderSize - 2 = p /\ ArchiveHeaderSize - 6 = 28 + f
        /\ ArchiveHeaderSize - 4 = 30 + f
    BY ArchiveNameAssumption, Bases DEF ArchiveHeaderSize, NameAt
  <2>2. /\ l <= Len(s) /\ First(s, 4) = ArchiveTag /\ Read(s, 4, 4) = 1 /\ one.ok
        /\ all.ok /\ all.rest = << >> /\ Decode("archive", s).value = v
    BY <1>1, <2>1, ArchiveTaken
  <2>3. /\ v.archive_name = ArchiveName(s) /\ v.archive_size = Read(s, 8, 4)
        /\ v.file_auto_launch = Read(s, 30 + f, 2) /\ v.entries = xs /\ v.reserved3 = q
    BY <2>1 DEF ArchiveOf
  <2>4. all = Items(n, r, ReadEntryOf)
    BY <2>1 DEF EntriesIn
  <2>5. /\ GapsIn("entry", xs, l + Len(q)) \subseteq S /\ Span(12, 16) \subseteq S
        /\ Span(28, f) \subseteq S
    BY <2>1, <2>3, EntryGapsAreIgnored DEF NameAt
  <2>6. Encode("archive", v) = Good(w)
    <3>1. Encode("archive", v) = Good(WriteArchive(v))
      BY DEF Encode
    <3>2. [i \in 1..Len(v.entries) |-> WriteEntry(v.entries[i])]
            = [i \in 1..Len(v.entries) |-> WriteOne("entry", v.entries[i])]
      BY DEF WriteOne
    <3>3. WriteArchive(v) = ((front \o U16(Len(v.reserved3))) \o v.reserved3)
                              \o AllOf("entry", v.entries)
      BY <3>2, Zenon DEF WriteArchive, ArchiveFront, AllOf
    <3>. QED BY <2>3, <3>1, <3>3, Zenon
  <2> HIDE DEF v, S
  <2>7. q \in Seq(Byte) /\ r \in Seq(Byte) /\ Len(q) = Read(s, p, 2)
    <3>1. s \in Seq(Byte) /\ p \in Nat /\ 2 \in Nat /\ l \in Nat /\ p + 2 = l /\ one.ok
      BY <2>1, <2>2
    <3>2. q \in Seq(Byte)
      BY ONLY <3>1, TakenAt
    <3>3. r \in Seq(Byte)
      BY ONLY <3>1, TakenAt
    <3>4. Len(q) = Read(s, p, 2)
      BY ONLY <3>1, TakenAt
    <3> HIDE DEF one, q, r
    <3>. QED BY <3>2, <3>3, <3>4
  <2>8. (At(s, 0, l) \o q) \o r = s
    <3>1. s \in Seq(Byte) /\ p \in Nat /\ 2 \in Nat /\ l \in Nat /\ p + 2 = l /\ one.ok
      BY <2>1, <2>2
    <3>. QED BY ONLY <3>1, TakenAt
  <2> HIDE DEF one, q, r
  <2>9. n \in Nat /\ n <= MaxU16
    <3>1. 28 + f \in Nat /\ 30 + f \in Nat /\ (28 + f) + 2 = 30 + f /\ 30 + f <= Len(s)
      BY <2>1, <2>2
    <3>2. n \in Word
      BY <3>1, WordBack
    <3> HIDE DEF n
    <3>. QED BY <3>2, Limits DEF Word
  <2> DEFINE j == Len(q)
             o == l + j
  <2>10. j \in Nat /\ o \in Nat /\ o = 0 + o
    BY <2>1, <2>7
  <2>11. all = SomeOf("entry", n, r, n)
    BY <2>4, <2>9, EntriesAre
  <2> HIDE DEF n, all, xs, o
  <2>12. AreAlike("entry", r, all, n, o)
    <3>1. Gap("entry") \in Nat
      BY DEF Gap
    <3>. QED BY <2>2, <2>7, <2>9, <2>10, <2>11, <3>1, EntryElement, EntryAlike, ItemsAlike
  <2>13. Len(xs) = n
    BY <2>12 DEF AreAlike, xs
  <2>14. PICK t \in Seq(Byte) : r = t \o << >> /\ Alike(es, t, GapsIn("entry", xs, o), o)
    BY <2>2, <2>12 DEF AreAlike, xs
  <2>15. Alike(es, r, S, o)
    <3>1. r = t
      BY <2>14
    <3>2. GapsIn("entry", xs, o) \subseteq S
      BY <2>5 DEF o
    <3>. QED BY <2>14, <3>1, <3>2, MoreAlike
  <2>16. Alike(front, At(s, 0, p), S, 0)
    BY <2>1, <2>2, <2>3, <2>5, <2>13, ArchiveFrontAlike DEF n
  <2>17. Alike(b, At(s, p, 2), S, p)
    BY <2>1, <2>2, <2>7, WordAlike
  <2> HIDE DEF front, b, es
  <2>18. Alike(front \o b, At(s, 0, l), S, 0)
    <3>1. /\ 0 \in Nat /\ 2 \in Nat /\ p = 0 + p /\ l = p + 2 /\ 0 + l <= Len(s)
      <4>1. f \in Nat /\ l <= Len(s) /\ Len(s) \in Nat
        BY <2>1, <2>2, LenProperties, Zenon
      <4> HIDE DEF f
      <4>. QED BY ONLY <4>1
    <3> HIDE DEF p, l
    <3>. QED BY <2>1, <2>16, <2>17, <3>1, PartAdded
  <2>19. Alike((front \o b) \o q, At(s, 0, l) \o q, S, 0)
    <3>1. Alike(q, q, S, l)
      BY <2>7, SameAlike
    <3>2. Len(At(s, 0, l)) = l /\ 0 \in Nat /\ l = 0 + l
      BY <2>1, <2>2, TwoParts
    <3> HIDE DEF l
    <3>. QED BY <2>1, <2>18, <3>1, <3>2, JoinedAlike
  <2>20. Alike(w, s, S, 0)
    <3> DEFINE x == At(s, 0, l) \o q
    <3>1. x \in Seq(Byte) /\ Len(x) = o
      <4>1. At(s, 0, l) \in Seq(Byte) /\ Len(At(s, 0, l)) = l
        BY <2>1, <2>2, TwoParts
      <4>. QED BY <2>7, <4>1, Joined DEF o
    <3>2. 0 \in Nat
      OBVIOUS
    <3> HIDE DEF x
    <3>3. Alike(w, x \o r, S, 0)
      BY <2>10, <2>15, <2>19, <3>1, <3>2, JoinedAlike DEF x
    <3>. QED BY <2>8, <3>3 DEF x
  <2>. QED BY <2>2, <2>6, <2>20, GoodIs, Zenon DEF S
<1>. QED BY <1>1, AlikeReproduced

-----------------------------------------------------------------------------
(* The fields of a HOPE login are found again.                             *)

LEMMA FieldFound ==
  ASSUME NEW fields, NEW name, NEW i \in Nat,
         {j \in 1..Len(fields) : fields[j].id = FieldIdOf[name]} = {i}
  PROVE  FieldData(fields, name) = fields[i].data
<1> DEFINE those == {j \in 1..Len(fields) : fields[j].id = FieldIdOf[name]}
<1>1. those = {i}
  OBVIOUS
<1>2. Min({i}) = i
  <2>1. i \in Int
    OBVIOUS
  <2>. QED BY <2>1 DEF Min
<1>3. FieldData(fields, name) = IF those = {} THEN << >> ELSE fields[Min(those)].data
  BY DEF FieldData
<1> HIDE DEF those
<1>. QED BY <1>1, <1>2, <1>3

\* No two of the fields have the same number.
LEMMA OtherField ==
  ASSUME NEW a \in FieldNames, NEW b \in FieldNames
  PROVE  FieldIdOf[a] = FieldIdOf[b] <=> a = b
BY FieldIdAssumption

LEMMA ListBack ==
  ASSUME NEW v \in Seq(FieldRecord), EncodeFieldList(v).ok
  PROVE  /\ EncodeFieldList(v).value \in Seq(Byte)
         /\ DecodeFieldList(EncodeFieldList(v).value) = Good(v)
<1>1. Written("fields")
  BY FieldsFaithful DEF Faithful
<1>2. Holds("fields") = Seq(FieldRecord) /\ Encode("fields", v) = EncodeFieldList(v)
  BY DEF Holds, Encode
<1>3. \A s : Decode("fields", s) = DecodeFieldList(s)
  BY DEF Decode
<1>. QED BY <1>1, <1>2, <1>3 DEF Written

\* A list of one name, which is not empty.
LEMMA NameListed ==
  ASSUME NEW name \in Seq(Byte), name # << >>
  PROVE  /\ Len(U16(1) \o name) \in Nat /\ Len(U16(1) \o name) >= 3
         /\ Rest(U16(1) \o name, 2) = name
<1> DEFINE u == U16(1)
<1>1. u \in Seq(Byte) /\ Len(u) = 2
  <2>1. 1 \in Nat
    OBVIOUS
  <2>. QED BY <2>1, WordWritten
<1> HIDE DEF u
<1>2. Len(name) >= 1 /\ Len(name) \in Nat
  BY EmptySeq
<1>3. Len(u \o name) = 2 + Len(name)
  BY <1>1, Joined
<1>4. Rest(u \o name, 2) = name
  BY <1>1, LeftBehind
<1>. QED BY <1>2, <1>3, <1>4 DEF u

LEMMA MacFound ==
  ASSUME NEW mac \in MacAlgorithm
  PROVE  ParseMac(U16(1) \o NameOf(mac)) = Good(mac)
<1> DEFINE s == U16(1) \o NameOf(mac)
<1>1. NameOf(mac) \in Seq(Byte) /\ NameOf(mac) # << >>
  BY NamesAssumption DEF NameOf
<1>2. Len(s) \in Nat /\ Len(s) >= 3 /\ Rest(s, 2) = NameOf(mac)
  BY <1>1, NameListed
<1> HIDE DEF s
<1>3. mac = "hmac_sha1" \/ mac = "hmac_md5"
  BY DEF MacAlgorithm
<1>4. ~ (Len(s) < 3)
  BY <1>2
<1>5. ParseMac(s) = Good(mac)
  BY <1>2, <1>3, <1>4, NamesAssumption DEF ParseMac, NameOf
<1>. QED BY <1>5 DEF s

LEMMA CipherFound == ParseCipher(U16(1) \o BlowfishName) = Good("blowfish")
<1> DEFINE s == U16(1) \o BlowfishName
<1>1. BlowfishName \in Seq(Byte) /\ BlowfishName # << >>
  BY NamesAssumption
<1>2. Len(s) \in Nat /\ Len(s) >= 3 /\ Rest(s, 2) = BlowfishName
  BY <1>1, NameListed
<1> HIDE DEF s
<1>3. ~ (Len(s) < 3)
  BY <1>2
<1>4. ParseCipher(s) = Good("blowfish")
  BY <1>2, <1>3 DEF ParseCipher
<1>. QED BY <1>4 DEF s

LEMMA OfferReturned == Returned("offer")
<1> SUFFICES ASSUME NEW v \in HopeOffer, Encode("offer", v).ok
             PROVE  /\ Encode("offer", v).value \in Seq(Byte)
                    /\ Decode("offer", Encode("offer", v).value) = Good(v)
  <2>1. \A v : Meant("offer", v) = v
    BY DEF Meant
  <2>2. Holds("offer") = HopeOffer
    BY DEF Holds
  <2>. QED BY <2>1, <2>2 DEF Returned
<1> DEFINE a == v.session_key
           mac == v.mac
           b == U16(1) \o NameOf(mac)
           c == U16(1) \o BlowfishName
           list == Stage2Reply(a, mac)
           s == EncodeFieldList(list).value
<1>1. /\ Encode("offer", v) = EncodeFieldList(list) /\ list \in Seq(FieldRecord)
      /\ Decode("offer", s) = DecodeOffer(s)
  BY OfferIsList DEF Encode, EncodeOffer, Decode
<1>2. s \in Seq(Byte) /\ DecodeFieldList(s) = Good(list)
  BY <1>1, ListBack
<1>3. list = << Field("SessionKey", a), Field("MacAlg", b), Field("ServerCipherAlg", c) >>
  BY DEF Stage2Reply
<1>4. ParseMac(b) = Good(mac) /\ ParseCipher(c) = Good("blowfish")
  BY MacFound, CipherFound DEF HopeOffer
<1>5. /\ v = [session_key |-> a, mac |-> mac]
      /\ a \in Seq(Byte) /\ Len(a) >= MinSessionKeySize
  BY DEF HopeOffer, SessionKeys
<1> HIDE DEF a, b, c, mac, list, s
<1>6. /\ Len(list) = 3 /\ DOMAIN list = 1..3
      /\ list[1].id = FieldIdOf["SessionKey"] /\ list[1].data = a
      /\ list[2].id = FieldIdOf["MacAlg"] /\ list[2].data = b
      /\ list[3].id = FieldIdOf["ServerCipherAlg"] /\ list[3].data = c
  BY <1>3 DEF Field
<1>7. /\ FieldData(list, "SessionKey") = a /\ FieldData(list, "MacAlg") = b
      /\ FieldData(list, "ServerCipherAlg") = c
  <2>1. \A j \in 1..3 : j = 1 \/ j = 2 \/ j = 3
    OBVIOUS
  <2>2. FieldData(list, "SessionKey") = list[1].data
    <3>1. {j \in 1..Len(list) : list[j].id = FieldIdOf["SessionKey"]} = {1}
      BY <1>6, <2>1, OtherField DEF FieldNames
    <3>2. 1 \in Nat
      OBVIOUS
    <3>. QED BY <3>1, <3>2, FieldFound, Zenon
  <2>3. FieldData(list, "MacAlg") = list[2].data
    <3>1. {j \in 1..Len(list) : list[j].id = FieldIdOf["MacAlg"]} = {2}
      BY <1>6, <2>1, OtherField DEF FieldNames
    <3>2. 2 \in Nat
      OBVIOUS
    <3>. QED BY <3>1, <3>2, FieldFound, Zenon
  <2>4. FieldData(list, "ServerCipherAlg") = list[3].data
    <3>1. {j \in 1..Len(list) : list[j].id = FieldIdOf["ServerCipherAlg"]} = {3}
      BY <1>6, <2>1, OtherField DEF FieldNames
    <3>2. 3 \in Nat
      OBVIOUS
    <3>. QED BY <3>1, <3>2, FieldFound, Zenon
  <2>. QED BY <1>6, <2>2, <2>3, <2>4
<1>8. DecodeOffer(s) = Good(v)
  <2>1. /\ DecodeFieldList(s).ok /\ DecodeFieldList(s).value = list
        /\ ParseMac(b).ok /\ ParseMac(b).value = mac /\ ParseCipher(c).ok
    BY <1>2, <1>4, GoodIs
  <2>2. SessionKeyOf(list) = Good(a)
    <3>1. ~ (Len(a) < MinSessionKeySize)
      BY <1>5, MinSessionKeySizeAssumption
    <3>. QED BY <1>7, <3>1 DEF SessionKeyOf
  <2>3. SessionKeyOf(list).ok /\ SessionKeyOf(list).value = a
    BY <2>2, GoodIs
  <2>. QED BY <1>5, <1>7, <2>1, <2>3, Zenon DEF DecodeOffer, Then
<1>. QED BY <1>1, <1>2, <1>8 DEF s

LEMMA VersionBack == DecodeInteger(IntegerData(HopeVersion)) = Good(HopeVersion)
<1> DEFINE v == HopeVersion
           q == Base * Base
<1>1. v \in Nat /\ v <= q - 1
  BY HopeVersionAssumption, Limits DEF Word
<1>2. q \in Nat /\ q >= 2 /\ MaxU32 = q * q - 1 /\ Base^4 = q * q
  BY Limits, Bases
<1> HIDE DEF q
<1>3. v \in Long /\ 2 * v < Base^4
  <2>1. 2 * q <= q * q
    BY <1>2
  <2>2. q * q \in Nat
    BY <1>2
  <2>3. v <= q * q - 1 /\ 2 * v < q * q
    BY <1>1, <1>2, <2>1, <2>2
  <2>. QED BY <1>1, <1>2, <2>3 DEF Long
<1>4. Signed(v, 4) = v
  BY <1>1, <1>2, <1>3 DEF Signed
<1>5. v \in SignedLong
  BY <1>3, <1>4 DEF SignedLong
<1>6. /\ Holds("integer") = SignedLong /\ Meant("integer", v) = v
      /\ Encode("integer", v) = Good(IntegerData(v))
  BY DEF Holds, Meant, Encode
<1>7. \A s : Decode("integer", s) = DecodeInteger(s)
  BY DEF Decode
<1>8. Encode("integer", v).ok /\ Encode("integer", v).value = IntegerData(v)
  BY <1>6, GoodIs
<1>. QED BY <1>5, <1>6, <1>7, <1>8, IntegerReturned DEF Returned

LEMMA ProofReturned == Returned("proof")
<1> SUFFICES ASSUME NEW v \in HopeProof, Encode("proof", v).ok
             PROVE  /\ Encode("proof", v).value \in Seq(Byte)
                    /\ Decode("proof", Encode("proof", v).value) = Good(v)
  <2>1. \A v : Meant("proof", v) = v
    BY DEF Meant
  <2>2. Holds("proof") = HopeProof
    BY DEF Holds
  <2>. QED BY <2>1, <2>2 DEF Returned
<1> DEFINE a == v.login
           b == v.password
           c == U16(1) \o BlowfishName
           d == IntegerData(HopeVersion)
           list == Stage2Login(a, b, c)
           s == EncodeFieldList(list).value
<1>1. /\ Encode("proof", v) = EncodeFieldList(list) /\ list \in Seq(FieldRecord)
      /\ Decode("proof", s) = DecodeProof(s)
  BY ProofIsList DEF Encode, EncodeProof, Decode
<1>2. s \in Seq(Byte) /\ DecodeFieldList(s) = Good(list)
  BY <1>1, ListBack
<1>3. list = << Field("UserLogin", a), Field("UserPassword", b), Field("ClientCipherAlg", c),
                Field("Vers", d) >>
  BY DEF Stage2Login
<1>4. ParseCipher(c) = Good("blowfish") /\ DecodeInteger(d) = Good(HopeVersion)
  BY CipherFound, VersionBack
<1>5. v = [login |-> a, password |-> b]
  BY DEF HopeProof
<1> HIDE DEF a, b, c, d, list, s
<1>6. /\ Len(list) = 4 /\ DOMAIN list = 1..4
      /\ list[1].id = FieldIdOf["UserLogin"] /\ list[1].data = a
      /\ list[2].id = FieldIdOf["UserPassword"] /\ list[2].data = b
      /\ list[3].id = FieldIdOf["ClientCipherAlg"] /\ list[3].data = c
      /\ list[4].id = FieldIdOf["Vers"] /\ list[4].data = d
  BY <1>3 DEF Field
<1>7. /\ FieldData(list, "UserLogin") = a /\ FieldData(list, "UserPassword") = b
      /\ FieldData(list, "ClientCipherAlg") = c /\ FieldData(list, "Vers") = d
  <2>1. \A j \in 1..4 : j = 1 \/ j = 2 \/ j = 3 \/ j = 4
    OBVIOUS
  <2>2. FieldData(list, "UserLogin") = list[1].data
    <3>1. {j \in 1..Len(list) : list[j].id = FieldIdOf["UserLogin"]} = {1}
      BY <1>6, <2>1, OtherField DEF FieldNames
    <3>2. 1 \in Nat
      OBVIOUS
    <3>. QED BY <3>1, <3>2, FieldFound, Zenon
  <2>3. FieldData(list, "UserPassword") = list[2].data
    <3>1. {j \in 1..Len(list) : list[j].id = FieldIdOf["UserPassword"]} = {2}
      BY <1>6, <2>1, OtherField DEF FieldNames
    <3>2. 2 \in Nat
      OBVIOUS
    <3>. QED BY <3>1, <3>2, FieldFound, Zenon
  <2>4. FieldData(list, "ClientCipherAlg") = list[3].data
    <3>1. {j \in 1..Len(list) : list[j].id = FieldIdOf["ClientCipherAlg"]} = {3}
      BY <1>6, <2>1, OtherField DEF FieldNames
    <3>2. 3 \in Nat
      OBVIOUS
    <3>. QED BY <3>1, <3>2, FieldFound, Zenon
  <2>5. FieldData(list, "Vers") = list[4].data
    <3>1. {j \in 1..Len(list) : list[j].id = FieldIdOf["Vers"]} = {4}
      BY <1>6, <2>1, OtherField DEF FieldNames
    <3>2. 4 \in Nat
      OBVIOUS
    <3>. QED BY <3>1, <3>2, FieldFound, Zenon
  <2>. QED BY <1>6, <2>2, <2>3, <2>4, <2>5
<1>8. DecodeProof(s) = Good(v)
  <2>1. /\ DecodeFieldList(s).ok /\ DecodeFieldList(s).value = list
        /\ ParseCipher(c).ok /\ DecodeInteger(d).ok /\ DecodeInteger(d).value = HopeVersion
    BY <1>2, <1>4, GoodIs
  <2>. QED BY <1>5, <1>7, <2>1, Zenon DEF DecodeProof, Then
<1>. QED BY <1>1, <1>2, <1>8 DEF s


-----------------------------------------------------------------------------
(* What was digested is in its blocks.                                     *)

LEMMA MaskIsEightBytes == 2^MaskBits = Base^8
<1>1. ByteBits = 1 \/ ByteBits = 2 \/ ByteBits = 3 \/ ByteBits = 4 \/ ByteBits = 5
      \/ ByteBits = 6 \/ ByteBits = 7 \/ ByteBits = 8
  BY ByteBitsAre
<1>2. 2^ByteBits = Base /\ MaskBits = 8 * ByteBits
  BY ByteBitsAre, MaskBitsAre
<1>3. CASE ByteBits = 1
  <2>1. 2^1 = 2 /\ 8 * 1 = 8 /\ 2^8 = 2^8
    OBVIOUS
  <2>. QED BY <1>2, <1>3, <2>1, Zenon
<1>4. CASE ByteBits = 2
  <2>1. 2^2 = 4 /\ 8 * 2 = 16 /\ 4^8 = 2^16
    OBVIOUS
  <2>. QED BY <1>2, <1>4, <2>1, Zenon
<1>5. CASE ByteBits = 3
  <2>1. 2^3 = 8 /\ 8 * 3 = 24 /\ 8^8 = 2^24
    OBVIOUS
  <2>. QED BY <1>2, <1>5, <2>1, Zenon
<1>6. CASE ByteBits = 4
  <2>1. 2^4 = 16 /\ 8 * 4 = 32 /\ 16^8 = 2^32
    OBVIOUS
  <2>. QED BY <1>2, <1>6, <2>1, Zenon
<1>7. CASE ByteBits = 5
  <2>1. 2^5 = 32 /\ 8 * 5 = 40 /\ 32^8 = 2^40
    OBVIOUS
  <2>. QED BY <1>2, <1>7, <2>1, Zenon
<1>8. CASE ByteBits = 6
  <2>1. 2^6 = 64 /\ 8 * 6 = 48 /\ 64^8 = 2^48
    OBVIOUS
  <2>. QED BY <1>2, <1>8, <2>1, Zenon
<1>9. CASE ByteBits = 7
  <2>1. 2^7 = 128 /\ 8 * 7 = 56 /\ 128^8 = 2^56
    OBVIOUS
  <2>. QED BY <1>2, <1>9, <2>1, Zenon
<1>10. CASE ByteBits = 8
  <2>1. 2^8 = 256 /\ 8 * 8 = 64 /\ 256^8 = 2^64
    OBVIOUS
  <2>. QED BY <1>2, <1>10, <2>1, Zenon
<1>. QED BY <1>1, <1>3, <1>4, <1>5, <1>6, <1>7, <1>8, <1>9, <1>10

LEMMA ReversedEight ==
  ASSUME NEW x \in Seq(Byte), Len(x) = 8
  PROVE  Reverse(Reverse(x)) = x
<1>1. \A i \in 1..8 : x[i] \in Byte /\ (8 - i) + 1 \in 1..8
  <2>1. \A i \in 1..Len(x) : x[i] \in Byte
    BY ElementOfSeq
  <2>. QED BY <2>1
<1> DEFINE y == Reverse(x)
<1>2. y = [i \in 1..8 |-> x[(8 - i) + 1]]
  BY DEF Reverse
<1> HIDE DEF y
<1>3. y \in Seq(Byte) /\ Len(y) = 8 /\ \A i \in 1..8 : y[i] = x[(8 - i) + 1]
  BY <1>1, <1>2
<1> DEFINE z == Reverse(y)
<1>4. \A i \in 1..8 : y[i] \in Byte
  BY <1>3, ElementOfSeq
<1>5. z = [i \in 1..8 |-> y[(8 - i) + 1]]
  BY <1>3 DEF Reverse
<1> HIDE DEF z
<1>6. z \in Seq(Byte) /\ Len(z) = 8 /\ \A i \in 1..8 : z[i] = y[(8 - i) + 1]
  BY <1>1, <1>4, <1>5
<1>7. \A i \in 1..8 : z[i] = x[i]
  <2> SUFFICES ASSUME NEW i \in 1..8
               PROVE  z[i] = x[i]
    OBVIOUS
  <2> DEFINE j == (8 - i) + 1
  <2>1. j \in 1..8 /\ (8 - j) + 1 = i
    OBVIOUS
  <2>2. z[i] = y[j]
    BY <1>6
  <2> HIDE DEF j
  <2>3. y[j] = x[(8 - j) + 1]
    BY <1>3, <2>1
  <2>. QED BY <2>1, <2>2, <2>3
<1>8. z = x
  BY <1>6, <1>7, SameRun
<1>. QED BY <1>8 DEF y, z

LEMMA KeptInFront ==
  ASSUME NEW u \in Seq(Byte), NEW c \in Seq(Byte)
  PROVE  First(u \o c, Len(u)) = u
<1> DEFINE w == u \o c
           n == Len(u)
<1>1. w \in Seq(Byte) /\ Continues(w, u)
  BY Appended
<1>2. n \in Nat /\ 0 \in Nat /\ 0 + n <= Len(u) /\ 0 + 1 = 1 /\ 0 + n = n
  OBVIOUS
<1> HIDE DEF w, n
<1>3. At(w, 0, n) = At(u, 0, n)
  BY <1>1, <1>2 DEF Continues
<1>4. At(u, 0, n) = u
  BY AllOfIt DEF n
<1>5. First(w, n) = At(w, 0, n)
  BY <1>2, Zenon DEF First, At
<1>. QED BY <1>3, <1>4, <1>5 DEF w, n

LEMMA MarkBehind ==
  ASSUME NEW message \in Seq(Byte)
  PROVE  \E c \in Seq(Byte) : Marked(message) = message \o c
<1> DEFINE n == Len(message)
           b == BlockSize
           left == n % b
           k == b - 9 - left + IF left + 1 > b - 8 THEN b ELSE 0
           mark == << Base \div 2 >>
           z == Zeros(k)
<1>1. b \in Nat \ {0} /\ b > 8 /\ n \in Nat
  BY BlockAssumption
<1>2. left \in 0..(b - 1)
  BY <1>1, DivisionExact
<1>3. k \in Nat
  <2> HIDE DEF n, b, left
  <2>. QED BY <1>1, <1>2
<1>4. mark \in Seq(Byte)
  <2>1. Base \div 2 \in Byte
    BY Bases, Limits DEF Byte
  <2>. QED BY <2>1
<1>5. Marked(message) = (message \o mark) \o z
  BY DEF Marked, ZerosAfter
<1>6. z \in Seq(Byte)
  <2> HIDE DEF k
  <2>. QED BY <1>3, ZerosTyped
<1> HIDE DEF mark, z
<1>7. (message \o mark) \o z = message \o (mark \o z)
  <2>1. \A y \in Seq(Byte) : (message \o mark) \o y = message \o (mark \o y)
    BY <1>4, Regroup, Zenon
  <2>. QED BY <1>6, <2>1, Zenon
<1>8. mark \o z \in Seq(Byte)
  BY <1>4, <1>6, Joined
<1>. QED BY <1>5, <1>7, <1>8, Zenon

\* A message begins what is made of it.
LEMMA MessageMarked ==
  ASSUME NEW message \in Seq(Byte), NEW tail \in Seq(Byte), Len(tail) = 8
  PROVE  /\ LastEight(Marked(message) \o tail) = tail
         /\ First(Marked(message) \o tail, Len(message)) = message
<1> DEFINE a == Marked(message)
           w == a \o tail
           n == Len(message)
           m == Len(a)
<1>1. a \in Seq(Byte) /\ m \in Nat
  BY MarkedLength, LenProperties
<1>2. LastEight(w) = tail
  <2>1. Len(w) = m + 8
    <3> HIDE DEF a
    <3>1. Len(w) = Len(a) + Len(tail)
      BY <1>1, Joined, Zenon
    <3>. QED BY <3>1
  <2>2. Len(w) - 8 = m
    BY <1>1, <2>1
  <2>3. Rest(w, m) = tail
    <3> HIDE DEF a
    <3>. QED BY <1>1, LeftBehind
  <2> HIDE DEF a, w, m
  <2>. QED BY <2>2, <2>3 DEF LastEight
<1>3. First(w, n) = message
  <2>1. PICK c \in Seq(Byte) : a = message \o c
    BY MarkBehind
  <2>2. (message \o c) \o tail = message \o (c \o tail) /\ c \o tail \in Seq(Byte)
    <3>1. \A y \in Seq(Byte) : (message \o c) \o y = message \o (c \o y)
      BY Regroup, Zenon
    <3>2. c \o tail \in Seq(Byte)
      BY Joined
    <3>. QED BY <3>1, <3>2, Zenon
  <2>3. First(message \o (c \o tail), n) = message
    <3> DEFINE d == c \o tail
    <3>1. d \in Seq(Byte)
      BY <2>2
    <3> HIDE DEF d
    <3>. QED BY <3>1, KeptInFront DEF d
  <2>. QED BY <2>1, <2>2, <2>3, Zenon
<1>. QED BY <1>2, <1>3

LEMMA BlocksReturned ==
  ASSUME NEW v \in Digestible
  PROVE  /\ Md5Blocks(v) \in Seq(Byte) /\ Sha1Blocks(v) \in Seq(Byte)
         /\ Unpadded(Md5Blocks(v), Reverse(LastEight(Md5Blocks(v)))) = Good(v)
         /\ Unpadded(Sha1Blocks(v), LastEight(Sha1Blocks(v))) = Good(v)
<1> DEFINE m == BitLength(v)
           b == U64(m)
           c == Reverse(b)
           n == Len(v)
<1>1. v \in Seq(Byte) /\ n \in Nat
  BY DEF Digestible
<1>2. m \in Nat /\ m = ByteBits * n /\ ByteBits \in Nat \ {0}
  BY <1>1, ByteBitsAre DEF BitLength
<1>3. m \in Masks
  BY <1>2, MaskIsEightBytes DEF Digestible, Masks
<1>4. m \div ByteBits = n
  <2>1. 0 \in Nat /\ 0 < ByteBits /\ ByteBits * n + 0 = m
    BY <1>1, <1>2
  <2>2. (ByteBits * n + 0) \div ByteBits = n
    BY <1>1, <1>2, <2>1, QuotientIs
  <2>. QED BY <2>1, <2>2, Zenon
<1> HIDE DEF m, n
<1>5. b \in Seq(Byte) /\ Len(b) = 8 /\ Number(b) = m
  BY <1>3, EightDigits
<1>6. c \in Seq(Byte) /\ Len(c) = 8
  BY <1>2, EightBytes
<1> HIDE DEF b
<1>7. Reverse(c) = b
  BY <1>5, ReversedEight
<1> HIDE DEF c
<1> DEFINE a == Marked(v)
           x == a \o c
           y == a \o b
<1>8. Md5Blocks(v) = x /\ Sha1Blocks(v) = y
  BY DEF Md5Blocks, Sha1Blocks, b, c, m
<1>9. a \in Seq(Byte)
  BY <1>1, MarkedLength
<1>10. x \in Seq(Byte) /\ y \in Seq(Byte)
  <2> HIDE DEF a
  <2>. QED BY <1>5, <1>6, <1>9, Behind
<1>11. LastEight(x) = c /\ First(x, n) = v
  BY <1>1, <1>6, MessageMarked DEF n
<1>12. LastEight(y) = b /\ First(y, n) = v
  BY <1>1, <1>5, MessageMarked DEF n
<1> HIDE DEF a, x, y
<1>13. Unpadded(x, b) = Good(v) /\ Unpadded(y, b) = Good(v)
  BY <1>4, <1>5, <1>11, <1>12 DEF Unpadded
<1>. QED BY <1>7, <1>8, <1>10, <1>11, <1>12, <1>13, Zenon

LEMMA DigestsReturned == Returned("md5") /\ Returned("sha1")
<1>1. Holds("md5") = Digestible /\ Holds("sha1") = Digestible
  BY DEF Holds
<1>2. \A v : /\ Encode("md5", v).value = Md5Blocks(v) /\ Encode("sha1", v).value = Sha1Blocks(v)
             /\ Meant("md5", v) = v /\ Meant("sha1", v) = v
  BY DEF Encode, Good, Meant
<1>3. \A s : /\ Decode("md5", s) = Unpadded(s, Reverse(LastEight(s)))
             /\ Decode("sha1", s) = Unpadded(s, LastEight(s))
  BY DEF Decode
<1>4. ASSUME NEW v \in Digestible
      PROVE  /\ Md5Blocks(v) \in Seq(Byte) /\ Decode("md5", Md5Blocks(v)) = Good(v)
             /\ Sha1Blocks(v) \in Seq(Byte) /\ Decode("sha1", Sha1Blocks(v)) = Good(v)
  BY <1>3, BlocksReturned, Zenon
<1>. QED BY <1>1, <1>2, <1>4 DEF Returned

-----------------------------------------------------------------------------
(* The items of an array.                                                  *)

LEMMA ItemsTyped ==
  ASSUME NEW items \in IvarItems
  PROVE  /\ Len(items) \in Nat
         /\ \A j \in 1..Len(items) : items[j].id \in Long /\ items[j].data \in Seq(Byte)
<1>1. \A j \in 1..Len(items) : items[j] \in [id : Long, data : Seq(Byte)]
  BY ElementOfSeq DEF IvarItems
<1>2. Len(items) \in Nat
  BY DEF IvarItems
<1>. QED BY <1>1, <1>2

LEMMA HeldNone ==
  ASSUME NEW items
  PROVE  HeldBy(items, 0) = << >>
<1>1. [j \in 1..0 |-> items[j].data] = << >>
  OBVIOUS
<1>. QED BY <1>1, FlattenNone, Zenon DEF HeldBy

LEMMA HeldNext ==
  ASSUME NEW items \in IvarItems, NEW k \in Nat, NEW l \in Nat, l = k + 1, l <= Len(items)
  PROVE  HeldBy(items, l) = HeldBy(items, k) \o items[l].data
<1> DEFINE ss == [j \in 1..k |-> items[j].data]
           tt == [j \in 1..l |-> items[j].data]
           x == items[l].data
<1>1. /\ Len(items) \in Nat
      /\ \A j \in 1..Len(items) : items[j].id \in Long /\ items[j].data \in Seq(Byte)
  BY ItemsTyped
<1>2. ss \in Seq(Seq(Byte)) /\ x \in Seq(Byte)
  BY <1>1
<1>3. tt = Append(ss, x)
  BY <1>1
<1> HIDE DEF ss, tt, x
<1>4. FlattenSeq(tt) = FlattenSeq(ss) \o x
  BY <1>2, <1>3, FlattenMore
<1>. QED BY <1>4 DEF HeldBy, ss, tt, x

\* Two parts, one behind the other, are one.
LEMMA PartsAdjoin ==
  ASSUME NEW s \in Seq(Byte), NEW o \in Nat, NEW m \in Nat, NEW p \in Nat, NEW e \in Nat,
         NEW f \in Nat, p = o + m, f = m + e, o + f <= Len(s)
  PROVE  At(s, o, m) \o At(s, p, e) = At(s, o, f)
<1>1. Len(s) \in Nat
  OBVIOUS
<1>2. o + 1 \in 1..Len(s) + 1 /\ p \in ((o + 1) - 1)..Len(s) /\ p + e \in p..Len(s)
  BY <1>1
<1>3. SubSeq(s, o + 1, p) \o SubSeq(s, p + 1, p + e) = SubSeq(s, o + 1, p + e)
  BY <1>2, ConcatAdjacentSubSeq
<1>4. o + m = p /\ o + f = p + e
  OBVIOUS
<1>. QED BY <1>3, <1>4 DEF At

\* Items, the data of which are the parts of s between the offsets, in order,
\* behind t.
Sliced(s, t, off, items) ==
  LET n == Len(items)
  IN  /\ \A i \in 0..n : off[i] \in Nat /\ t + off[i] <= Len(s)
      /\ \A i \in 1..n : /\ off[i - 1] <= off[i]
                         /\ items[i].data = At(s, t + off[i - 1], off[i] - off[i - 1])

LEMMA SlicesMeet ==
  ASSUME NEW s \in Seq(Byte), NEW t \in Nat, NEW off, NEW items \in IvarItems,
         Sliced(s, t, off, items)
  PROVE  LET n == Len(items)
         IN  /\ off[0] <= off[n]
             /\ HeldBy(items, n) = At(s, t + off[0], off[n] - off[0])
<1> DEFINE n == Len(items)
<1>1. /\ n \in Nat
      /\ \A i \in 0..n : off[i] \in Nat /\ t + off[i] <= Len(s)
      /\ \A i \in 1..n : off[i - 1] <= off[i]
      /\ \A i \in 1..n : items[i].data = At(s, t + off[i - 1], off[i] - off[i - 1])
  BY ItemsTyped DEF Sliced
<1>2. n = Len(items)
  OBVIOUS
<1> HIDE DEF n
<1> DEFINE Met(k) == /\ off[0] <= off[k]
                     /\ HeldBy(items, k) = At(s, t + off[0], off[k] - off[0])
           K == {k \in Nat : k <= n => Met(k)}
<1>3. 0 \in K
  <2>1. 0 \in 0..n /\ off[0] \in Nat /\ off[0] <= off[0] /\ off[0] - off[0] = 0
        /\ t + off[0] \in Nat
    BY <1>1
  <2>2. At(s, t + off[0], 0) = << >>
    <3> DEFINE o == t + off[0]
    <3>1. o \in Nat /\ o + 0 <= Len(s) /\ 0 \in Nat
      BY <1>1, <2>1
    <3> HIDE DEF o
    <3>2. At(s, o, 0) \in Seq(Byte) /\ Len(At(s, o, 0)) = 0
      BY <3>1, Part
    <3>. QED BY <3>2, EmptySeq DEF o
  <2>3. HeldBy(items, 0) = << >>
    BY HeldNone
  <2>4. Met(0)
    BY <2>1, <2>2, <2>3
  <2> HIDE DEF Met
  <2>. QED BY <2>4
<1>4. ASSUME NEW k \in K
      PROVE  k + 1 \in K
  <2> SUFFICES ASSUME k + 1 <= n
               PROVE  Met(k + 1)
    OBVIOUS
  <2> DEFINE l == k + 1
             a == off[0]
             b == off[k]
             c == off[l]
             d == items[l].data
             o == t + a
             p == t + b
             m == b - a
             e == c - b
             f == c - a
  <2>1. /\ k \in Nat /\ l \in Nat /\ l = k + 1 /\ l <= Len(items) /\ l \in 1..n /\ Met(k)
        /\ l - 1 = k /\ 0 \in 0..n /\ k \in 0..n /\ l \in 0..n
    BY <1>1, <1>2
  <2>2. /\ a \in Nat /\ b \in Nat /\ c \in Nat /\ a <= b /\ b <= c /\ t + c <= Len(s)
    BY <1>1, <2>1
  <2>3. HeldBy(items, k) = At(s, o, m) /\ d = At(s, p, e)
    BY <1>1, <2>1
  <2>4. HeldBy(items, l) = HeldBy(items, k) \o d
    <3> HIDE DEF K, Met, l
    <3>. QED BY <2>1, HeldNext
  <2> HIDE DEF K, Met, l, a, b, c, d
  <2>5. /\ o \in Nat /\ m \in Nat /\ p \in Nat /\ p = o + m /\ e \in Nat /\ f \in Nat
        /\ f = m + e /\ o + f <= Len(s) /\ a <= c
    BY <2>2
  <2> HIDE DEF o, p, m, e, f
  <2>6. At(s, o, m) \o At(s, p, e) = At(s, o, f)
    BY <2>5, PartsAdjoin
  <2>7. HeldBy(items, l) = At(s, o, f)
    BY <2>3, <2>4, <2>6, Zenon
  <2>. QED BY <2>5, <2>7 DEF Met, l, o, f, a, c
<1>5. K = Nat
  <2>1. K \in SUBSET Nat
    OBVIOUS
  <2> HIDE DEF K
  <2>. QED BY <1>3, <1>4, <2>1, Induction
<1> HIDE DEF Met
<1>6. Met(n)
  BY <1>1, <1>5
<1>. QED BY <1>6 DEF Met, n

\* What an array whose reading succeeds has, and what is read of it.
LEMMA ArrayTaken ==
  ASSUME NEW s \in Seq(Byte), Decode("ivar", s).ok
  PROVE  LET n == Read(s, 12, 4)
         IN  /\ 24 <= Len(s) /\ n \in Nat /\ TableEnd(n) <= Len(s) /\ OffsetsInOrder(s, n)
             /\ Decode("ivar", s).value
                  = [text_encoding |-> Read(s, 8, 4),
                     items |-> [i \in 1..n |-> IvarItem(s, n, i - 1)]]
<1> DEFINE n == Read(s, 12, 4)
           w == [text_encoding |-> Read(s, 8, 4),
                 items |-> [i \in 1..n |-> IvarItem(s, n, i - 1)]]
           Slices == IF Len(s) < TableEnd(n) THEN Truncated
                     ELSE IF ~OffsetsInOrder(s, n) THEN Fail("offset_out_of_range")
                     ELSE Good(w)
<1>1. Decode("ivar", s)
        = IF Len(s) < 24 THEN Truncated
          ELSE IF First(s, 4) # IvarTag THEN Fail("wrong_format_tag")
          ELSE IF s[13] # 0 THEN Fail("impossible_item_count")
          ELSE Slices
  BY DEF Decode, DecodeIvar, IvarHeaderSize, IvarEntrySize
<1>2. /\ ~ Truncated.ok /\ ~ Fail("wrong_format_tag").ok /\ ~ Fail("impossible_item_count").ok
      /\ ~ Fail("offset_out_of_range").ok
  BY DEF Truncated, Fail
<1>3. ~ (Len(s) < 24) /\ Decode("ivar", s) = Slices
  <2> HIDE DEF Slices
  <2>. QED BY <1>1, <1>2, Zenon
<1>4. Slices.ok => ~ (Len(s) < TableEnd(n)) /\ OffsetsInOrder(s, n) /\ Slices = Good(w)
  <2> HIDE DEF n, w
  <2>. QED BY <1>2, Zenon
<1>5. ~ (Len(s) < TableEnd(n)) /\ OffsetsInOrder(s, n) /\ Decode("ivar", s) = Good(w)
  <2> HIDE DEF n, w, Slices
  <2>. QED BY <1>3, <1>4, Zenon
<1>6. 24 <= Len(s) /\ n \in Nat
  <2>1. Len(s) \in Nat
    OBVIOUS
  <2>2. 24 <= Len(s) /\ 12 \in Nat /\ 4 \in Nat /\ 12 + 4 <= Len(s)
    BY <1>3, <2>1
  <2>. QED BY <2>2, ReadNat
<1>7. TableEnd(n) <= Len(s)
  <2>1. Len(s) \in Nat
    OBVIOUS
  <2> HIDE DEF n
  <2>2. TableEnd(n) \in Nat
    BY <1>6 DEF TableEnd, IvarHeaderSize, IvarEntrySize
  <2>. QED BY <1>5, <2>1, <2>2
<1>8. Decode("ivar", s).value = w
  <2> HIDE DEF w
  <2>. QED BY <1>5, GoodIs
<1>. QED BY <1>5, <1>6, <1>7, <1>8

LEMMA OffsetsAre ==
  ASSUME NEW s \in Seq(Byte), NEW n \in Nat, TableEnd(n) <= Len(s), OffsetsInOrder(s, n)
  PROVE  /\ \A i \in 0..n : /\ ItemId(s, i) \in Long /\ ItemOffset(s, i) \in Nat
                            /\ TableEnd(n) + ItemOffset(s, i) <= Len(s)
         /\ \A i \in 1..n : ItemOffset(s, i - 1) <= ItemOffset(s, i)
<1>1. Len(s) \in Nat
  OBVIOUS
<1>2. TableEnd(n) = 16 + (n + 1) * 8 /\ TableEnd(n) \in Nat
  BY DEF TableEnd, IvarHeaderSize, IvarEntrySize
<1>3. ASSUME NEW i \in 0..n
      PROVE  /\ ItemId(s, i) \in Long /\ ItemOffset(s, i) \in Nat
             /\ TableEnd(n) + ItemOffset(s, i) <= Len(s)
  <2> DEFINE o == 16 + i * 8
             p == o + 4
             l == p + 4
  <2>1. o \in Nat /\ p \in Nat /\ l \in Nat /\ o + 4 = p /\ p + 4 = l /\ p <= Len(s) /\ l <= Len(s)
    BY <1>1, <1>2
  <2>2. ItemId(s, i) = Read(s, o, 4) /\ ItemOffset(s, i) = Read(s, p, 4)
    BY DEF ItemId, ItemOffset, IvarHeaderSize, IvarEntrySize
  <2>3. ItemOffset(s, i) <= Len(s) - TableEnd(n)
    BY DEF OffsetsInOrder
  <2> HIDE DEF o, p, l
  <2>4. Read(s, o, 4) \in Long /\ Read(s, p, 4) \in Long
    BY <2>1, LongBack
  <2>5. Long \subseteq Nat
    BY Limits DEF Long
  <2>6. ItemId(s, i) \in Long /\ ItemOffset(s, i) \in Nat
    BY <2>2, <2>4, <2>5, Zenon
  <2>. QED BY <1>1, <1>2, <2>3, <2>6
<1>4. ASSUME NEW i \in 1..n
      PROVE  ItemOffset(s, i - 1) <= ItemOffset(s, i)
  <2>1. i \in 0..n /\ i > 0
    OBVIOUS
  <2>. QED BY <2>1 DEF OffsetsInOrder
<1>. QED BY <1>3, <1>4

\* The items that are read lie one behind the other, from where the first begins.
LEMMA ItemsMeet ==
  ASSUME NEW s \in Seq(Byte), Decode("ivar", s).ok
  PROVE  LET items == Decode("ivar", s).value.items
             n == Len(items)
             begin == TableEnd(n) + ItemOffset(s, 0)
         IN  /\ items \in IvarItems /\ begin \in Nat /\ TableEnd(n) \in Nat
             /\ TableEnd(n) <= Len(s)
             /\ begin + Len(HeldBy(items, n)) <= Len(s)
             /\ At(s, begin, Len(HeldBy(items, n))) = HeldBy(items, n)
<1> DEFINE items == Decode("ivar", s).value.items
           n == Read(s, 12, 4)
           t == TableEnd(n)
           off == [i \in 0..n |-> ItemOffset(s, i)]
           o == t + off[0]
           l == off[n] - off[0]
<1>1. /\ n \in Nat /\ t <= Len(s) /\ OffsetsInOrder(s, n)
      /\ items = [i \in 1..n |-> IvarItem(s, n, i - 1)]
  <2> DEFINE v == Decode("ivar", s).value
             xs == [i \in 1..n |-> IvarItem(s, n, i - 1)]
  <2>1. /\ n \in Nat /\ t <= Len(s) /\ OffsetsInOrder(s, n)
        /\ v = [text_encoding |-> Read(s, 8, 4), items |-> xs]
    BY ArrayTaken, Zenon
  <2>2. items = v.items
    OBVIOUS
  <2> HIDE DEF v, xs, n, t, items
  <2>3. items = xs
    BY <2>1, <2>2
  <2>. QED BY <2>1, <2>3 DEF xs
<1> HIDE DEF n, items
<1>2. t \in Nat /\ Len(s) \in Nat /\ Len(items) = n
  BY <1>1 DEF TableEnd, IvarHeaderSize, IvarEntrySize
<1>3. /\ \A i \in 0..n : ItemId(s, i) \in Long /\ ItemOffset(s, i) \in Nat
                         /\ t + ItemOffset(s, i) <= Len(s)
      /\ \A i \in 1..n : ItemOffset(s, i - 1) <= ItemOffset(s, i)
  BY <1>1, OffsetsAre
<1> HIDE DEF t
<1>4. \A i \in 0..n : off[i] \in Nat /\ t + off[i] <= Len(s)
  BY <1>3
<1>5. \A i \in 1..n : off[i - 1] <= off[i]
  BY <1>1, <1>3
<1>6. \A i \in 1..n : /\ items[i].id = ItemId(s, i - 1)
                      /\ items[i].data = At(s, t + off[i - 1], off[i] - off[i - 1])
  BY <1>1 DEF IvarItem, t
<1> HIDE DEF off
<1>7. ASSUME NEW i \in 1..n
      PROVE  items[i] \in [id : Long, data : Seq(Byte)]
  <2> DEFINE a == t + off[i - 1]
             b == off[i] - off[i - 1]
  <2>1. i \in 0..n /\ i - 1 \in 0..n
    BY <1>1
  <2>2. a \in Nat /\ b \in Nat /\ a + b <= Len(s)
    BY <1>2, <1>4, <1>5, <2>1
  <2>3. items[i].id \in Long /\ items[i].data = At(s, a, b)
    BY <1>3, <1>6, <2>1
  <2> HIDE DEF a, b
  <2>4. items[i].data \in Seq(Byte)
    BY <2>2, <2>3, Part
  <2>5. items[i] = [id |-> ItemId(s, i - 1), data |-> items[i].data]
    BY <1>1, <1>6 DEF IvarItem
  <2>. QED BY <1>3, <2>1, <2>4, <2>5
<1>8. items \in IvarItems
  <2> DEFINE T == [id : Long, data : Seq(Byte)]
  <2>1. \A i \in 1..n : items[i] \in T
    BY <1>7
  <2>2. items = [i \in 1..n |-> items[i]]
    BY <1>1
  <2> HIDE DEF T
  <2>3. items \in Seq(T)
    BY <1>1, <2>1, <2>2
  <2>. QED BY <2>3 DEF IvarItems, T
<1>9. off[0] <= off[n] /\ HeldBy(items, n) = At(s, o, l)
  <2>1. /\ \A i \in 0..n : off[i] \in Nat /\ t + off[i] <= Len(s)
        /\ \A i \in 1..n : /\ off[i - 1] <= off[i]
                           /\ items[i].data = At(s, t + off[i - 1], off[i] - off[i - 1])
    BY <1>4, <1>5, <1>6
  <2>2. Sliced(s, t, off, items)
    BY <1>2, <2>1, Zenon DEF Sliced
  <2>3. /\ off[0] <= off[Len(items)]
        /\ HeldBy(items, Len(items)) = At(s, t + off[0], off[Len(items)] - off[0])
    BY <1>2, <1>8, <2>2, SlicesMeet, Zenon
  <2>. QED BY <1>2, <2>3, Zenon
<1>10. 0 \in 0..n /\ n \in 0..n
  BY <1>1
<1>11. o \in Nat /\ l \in Nat /\ o + l <= Len(s)
  BY <1>2, <1>4, <1>9, <1>10
<1>12. o = t + ItemOffset(s, 0)
  BY <1>10 DEF off
<1> HIDE DEF o, l
<1>13. Len(At(s, o, l)) = l
  BY <1>11, Part
<1>. QED BY <1>1, <1>2, <1>8, <1>9, <1>11, <1>12, <1>13 DEF t, items

-----------------------------------------------------------------------------
(* What is written of an array and what is read of it.                     *)

LEMMA SmallLong ==
  ASSUME NEW v \in Nat, v < Base^3
  PROVE  v \in Long /\ At(U32(v), 0, 1) = <<0>>
<1> DEFINE q == v \div Base
           r == q \div Base
           t == r \div Base
<1>0. /\ Base = 2 \/ Base = 4 \/ Base = 8 \/ Base = 16 \/ Base = 32 \/ Base = 64 \/ Base = 128
         \/ Base = 256
  BY Bases
<1>1. Base^3 = Base * Base * Base
  <2> DEFINE Cubed(b) == b^3 = b * b * b
  <2>1. Cubed(2) /\ Cubed(4) /\ Cubed(8) /\ Cubed(16)
    OBVIOUS
  <2>2. Cubed(32) /\ Cubed(64) /\ Cubed(128) /\ Cubed(256)
    OBVIOUS
  <2> HIDE DEF Cubed
  <2>3. Cubed(Base)
    BY <1>0, <2>1, <2>2, SMT
  <2>. QED BY <2>3 DEF Cubed
<1>2. v < Base * Base * Base
  BY <1>1
<1>4. t = 0
  BY <1>0, <1>2
<1>5. v \in Long
  BY <1>0, <1>2, Limits DEF Long
<1>6. t % Base = 0
  BY <1>0, <1>4
<1>7. U32(v)[1] = 0
  BY <1>6, LongDigits
<1>8. U32(v) \in Seq(Byte) /\ Len(U32(v)) = 4
  BY LongWritten
<1>9. At(U32(v), 0, 1) = <<U32(v)[0 + 1]>>
  <2>1. 0 \in Nat /\ 0 + 1 <= Len(U32(v))
    BY <1>8
  <2>. QED BY <1>8, <2>1, OneByte
<1>. QED BY <1>5, <1>7, <1>9

\* The data of an item are where the data of those before it end.
LEMMA HeldSlice ==
  ASSUME NEW items \in IvarItems
  PROVE  LET n == Len(items)
         IN  \A i \in 1..n :
               /\ Len(HeldBy(items, i - 1)) + Len(items[i].data) = Len(HeldBy(items, i))
               /\ Len(HeldBy(items, i)) <= Len(HeldBy(items, n))
               /\ At(HeldBy(items, n), Len(HeldBy(items, i - 1)), Len(items[i].data))
                    = items[i].data
<1> DEFINE n == Len(items)
           End(i) == Len(HeldBy(items, i))
           Lies(k) == \A i \in 1..k : /\ End(i) <= End(k)
                                      /\ At(HeldBy(items, k), End(i - 1), Len(items[i].data))
                                           = items[i].data
           K == {k \in Nat : k <= n => Lies(k)}
<1>1. n \in Nat /\ \A i \in 1..n : items[i].data \in Seq(Byte)
  BY ItemsTyped
<1>2. \A k \in 0..n : HeldBy(items, k) \in Seq(Byte) /\ End(k) \in Nat
  BY <1>1, HeldTyped
<1>3. ASSUME NEW i \in 1..n
      PROVE  /\ HeldBy(items, i) = HeldBy(items, i - 1) \o items[i].data
             /\ End(i - 1) + Len(items[i].data) = End(i)
  <2> DEFINE k == i - 1
  <2>1. k \in Nat /\ i \in Nat /\ i = k + 1 /\ i <= Len(items) /\ k \in 0..n
    BY <1>1
  <2> HIDE DEF k
  <2>2. HeldBy(items, i) = HeldBy(items, k) \o items[i].data
    BY <2>1, HeldNext
  <2>3. Len(HeldBy(items, i)) = Len(HeldBy(items, k)) + Len(items[i].data)
    BY <1>1, <1>2, <2>1, <2>2, Joined
  <2>. QED BY <2>2, <2>3 DEF k
<1>4. 0 \in K
  OBVIOUS
<1>5. ASSUME NEW k \in K
      PROVE  k + 1 \in K
  <2> SUFFICES ASSUME k + 1 <= n
               PROVE  Lies(k + 1)
    OBVIOUS
  <2> DEFINE l == k + 1
             f == HeldBy(items, k)
             x == items[l].data
             g == HeldBy(items, l)
  <2>1. k \in Nat /\ Lies(k) /\ l \in 1..n /\ l - 1 = k /\ k \in 0..n /\ l \in 0..n
    BY <1>1
  <2>2. g = f \o x /\ f \in Seq(Byte) /\ x \in Seq(Byte)
    BY <1>1, <1>2, <1>3, <2>1
  <2> HIDE DEF l, f, x, g, K
  <2>3. g \in Seq(Byte) /\ Len(g) = Len(f) + Len(x) /\ At(g, Len(f), Len(x)) = x /\ Continues(g, f)
    BY <2>2, Appended
  <2>4. End(k) = Len(f) /\ End(l) = Len(g) /\ Len(f) \in Nat /\ Len(x) \in Nat
    BY <2>2 DEF f, g
  <2>5. ASSUME NEW i \in 1..l
        PROVE  /\ End(i) <= End(l)
               /\ At(g, End(i - 1), Len(items[i].data)) = items[i].data
    <3>1. CASE i = l
      <4>1. End(i - 1) = Len(f) /\ items[i].data = x /\ End(i) = Len(g)
        BY <2>1, <2>4, <3>1 DEF x
      <4> HIDE DEF End
      <4>. QED BY <2>3, <2>4, <3>1, <4>1
    <3>2. CASE i # l
      <4> DEFINE a == End(i - 1)
                 b == End(i)
                 d == items[i].data
                 m == Len(d)
      <4>1. i \in 1..k /\ i \in 1..n /\ i - 1 \in 0..n
        BY <2>1, <3>2 DEF l
      <4>2. b <= End(k) /\ At(f, a, m) = d
        BY <2>1, <4>1 DEF f
      <4>3. a + m = b /\ a \in Nat /\ m \in Nat
        <5>1. End(i - 1) + Len(items[i].data) = End(i)
          BY <1>3, <4>1
        <5>2. End(i - 1) \in Nat /\ items[i].data \in Seq(Byte)
          BY <1>1, <1>2, <4>1
        <5> HIDE DEF End
        <5>. QED BY <5>1, <5>2
      <4> HIDE DEF a, b, d, m, End, Lies
      <4>4. a + m <= Len(f) /\ b <= End(l)
        BY <2>3, <2>4, <4>2, <4>3
      <4>5. At(g, a, m) = At(f, a, m)
        BY <2>3, <4>3, <4>4 DEF Continues
      <4>. QED BY <4>2, <4>4, <4>5 DEF a, b, d, m
    <3>. QED BY <3>1, <3>2
  <2> HIDE DEF End
  <2>. QED BY <2>5 DEF l, g, Lies
<1>6. K = Nat
  <2>1. K \in SUBSET Nat
    OBVIOUS
  <2> HIDE DEF K
  <2>. QED BY <1>4, <1>5, <2>1, Induction
<1> HIDE DEF Lies
<1>7. Lies(n)
  BY <1>1, <1>6
<1>. QED BY <1>3, <1>7 DEF Lies, End, n

ItemRows(items) ==
  [i \in 1..Len(items) + 1 |->
     U32(IF i > Len(items) THEN 0 ELSE items[i].id) \o U32(Len(HeldBy(items, i - 1)))]

\* What is read of the table of an array, where it is written.
LEMMA ItemTable ==
  ASSUME NEW items \in IvarItems, Len(HeldBy(items, Len(items))) <= MaxU32
  PROVE  LET n == Len(items)
             t == FlattenSeq(ItemRows(items))
         IN  /\ t \in Seq(Byte) /\ Len(t) = (n + 1) * 8
             /\ \A i \in 0..n : /\ i < n => Read(t, i * 8, 4) = items[i + 1].id
                                /\ Read(t, i * 8 + 4, 4) = Len(HeldBy(items, i))
<1> DEFINE n == Len(items)
           ss == ItemRows(items)
           t == FlattenSeq(ss)
           Id(i) == IF i > n THEN 0 ELSE items[i].id
           l == n + 1
<1>1. n \in Nat /\ l \in Nat /\ \A i \in 1..n : items[i].id \in Long
  BY ItemsTyped
<1>2. ASSUME NEW i \in 1..l
      PROVE  Id(i) \in Long /\ Len(HeldBy(items, i - 1)) \in Long
  <2>1. Id(i) \in Long
    <3>1. 0 \in Long
      BY Limits DEF Long
    <3>. QED BY <1>1, <3>1
  <2> DEFINE k == i - 1
             m == Len(HeldBy(items, k))
             e == Len(HeldBy(items, n))
  <2>2. k \in Nat /\ k <= n /\ n <= n
    BY <1>1
  <2>3. m \in Nat /\ e \in Nat
    <3> HIDE DEF k, n
    <3>. QED BY <1>1, <2>2, HeldTyped DEF n
  <2>4. m <= e
    <3>1. CASE k = 0
      <4>1. m = 0
        <5> HIDE DEF k
        <5>. QED BY <3>1, HeldNone
      <4> HIDE DEF m, e
      <4>. QED BY <2>3, <4>1
    <3>2. CASE k # 0
      <4>1. k \in 1..n
        BY <1>1, <2>2, <3>2
      <4> HIDE DEF k
      <4>. QED BY <4>1, HeldSlice
    <3>. QED BY <3>1, <3>2
  <2> HIDE DEF m, e
  <2>5. e <= MaxU32 /\ MaxU32 \in Nat
    BY Limits DEF e, n
  <2>6. m \in Long
    BY <2>3, <2>4, <2>5 DEF Long
  <2>. QED BY <2>1, <2>6 DEF m
<1>3. ASSUME NEW i \in 1..l
      PROVE  /\ ss[i] \in Seq(Byte) /\ Len(ss[i]) = 8
             /\ Read(ss[i], 0, 4) = Id(i) /\ Read(ss[i], 4, 4) = Len(HeldBy(items, i - 1))
  <2> DEFINE x == Id(i)
             y == Len(HeldBy(items, i - 1))
  <2>1. ss[i] = U32(x) \o U32(y)
    BY DEF ItemRows
  <2>2. x \in Long /\ y \in Long
    BY <1>2
  <2> HIDE DEF x, y, ss
  <2>3. ss[i] \in Seq(Byte) /\ Len(ss[i]) = 8 /\ Read(ss[i], 0, 4) = x /\ Read(ss[i], 4, 4) = y
    BY <2>1, <2>2, TwoLongs
  <2>. QED BY <2>3 DEF x, y
<1>4. ss \in Seq(Seq(Byte)) /\ Len(ss) = l
  <2>1. ss = [i \in 1..l |-> ss[i]]
    BY DEF ItemRows
  <2> HIDE DEF ss, l
  <2>. QED BY <1>1, <1>3, <2>1
<1> HIDE DEF ss
<1>5. t \in Seq(Byte) /\ Len(t) = l * 8 /\ \A i \in 1..l : At(t, (i - 1) * 8, 8) = ss[i]
  <2>1. \A i \in 1..l : Len(ss[i]) = 8
    BY <1>3
  <2>2. 8 \in {8, 16}
    OBVIOUS
  <2> HIDE DEF l
  <2>. QED BY <1>1, <1>4, <2>1, <2>2, RowsLaid
<1> HIDE DEF t
<1>6. ASSUME NEW i \in 0..n
      PROVE  /\ i < n => Read(t, i * 8, 4) = items[i + 1].id
             /\ Read(t, i * 8 + 4, 4) = Len(HeldBy(items, i))
  <2> DEFINE j == i + 1
             o == i * 8
             m == 8
             x == ss[j]
  <2>1. j \in 1..l /\ j - 1 = i
    BY <1>1
  <2>2. At(t, o, m) = x
    BY <1>5, <2>1
  <2>3. o \in Nat /\ m \in Nat /\ o + m <= Len(t) /\ 0 \in Nat /\ 4 \in Nat /\ 0 + 4 <= m
        /\ 4 + 4 <= m /\ o + 0 = o
    BY <1>1, <1>5
  <2>4. /\ Read(x, 0, 4) = Id(j) /\ Read(x, 4, 4) = Len(HeldBy(items, i))
    BY <1>3, <2>1
  <2>5. i < n => Id(j) = items[j].id
    BY <1>1
  <2>0. t \in Seq(Byte)
    BY <1>5
  <2> HIDE DEF j, o, m, x, Id, n, l
  <2>6. At(t, o, 4) = At(x, 0, 4)
    BY <2>0, <2>2, <2>3, PartOfPart
  <2>7. At(t, o + 4, 4) = At(x, 4, 4)
    BY <2>0, <2>2, <2>3, PartOfPart
  <2>8. Read(t, o, 4) = Read(x, 0, 4) /\ Read(t, o + 4, 4) = Read(x, 4, 4)
    BY <2>6, <2>7 DEF Read
  <2>. QED BY <2>4, <2>5, <2>8 DEF o, j
<1>. QED BY <1>5, <1>6 DEF t, n, ss, l

ArrayHead(v) == ((IvarTag \o U32(0)) \o U32(v.text_encoding)) \o U32(Len(v.items))

LEMMA ArrayHeadIs ==
  ASSUME NEW v \in IvarArray, Len(v.items) < Base^3
  PROVE  LET h == ArrayHead(v)
         IN  /\ h \in Seq(Byte) /\ Len(h) = 16 /\ At(h, 0, 4) = IvarTag /\ At(h, 12, 1) = <<0>>
             /\ Read(h, 8, 4) = v.text_encoding /\ Read(h, 12, 4) = Len(v.items)
<1> DEFINE n == Len(v.items)
           c == U32(n)
           a == IvarTag \o U32(0)
           b == a \o U32(v.text_encoding)
           h == b \o c
<1>1. v.text_encoding \in Long /\ v.items \in IvarItems /\ 0 \in Long
  BY Limits DEF IvarArray, Long
<1>2. n \in Nat
  BY <1>1 DEF IvarItems
<1>3. n \in Long /\ At(c, 0, 1) = <<0>>
  BY <1>2, SmallLong
<1>4. c \in Seq(Byte) /\ Len(c) = 4 /\ Read(c, 0, 4) = n
  BY <1>3, LongFirst
<1> HIDE DEF n, c
<1>5. a \in Seq(Byte) /\ Len(a) = Len(IvarTag) + 4 /\ Continues(a, IvarTag)
  BY <1>1, IvarTagAssumption, LongAppended, Zenon
<1> HIDE DEF a
<1>6. /\ b \in Seq(Byte) /\ Len(b) = Len(a) + 4
      /\ Read(b, Len(a), 4) = v.text_encoding /\ Continues(b, a)
  BY <1>1, <1>5, LongAppended, Zenon
<1> HIDE DEF b
<1>7. h \in Seq(Byte) /\ Len(h) = Len(b) + Len(c) /\ At(h, Len(b), Len(c)) = c /\ Continues(h, b)
  BY <1>4, <1>6, Appended
<1> HIDE DEF h
<1>8. Len(IvarTag) = 4 /\ Len(a) = 8 /\ Len(b) = 12 /\ Len(h) = 16
  BY <1>4, <1>5, <1>6, <1>7, IvarTagAssumption
<1>9. At(h, 0, 4) = IvarTag
  <2>1. At(h, 0, 4) = At(b, 0, 4) /\ At(b, 0, 4) = At(a, 0, 4) /\ At(a, 0, 4) = At(IvarTag, 0, 4)
    BY <1>5, <1>6, <1>7, <1>8 DEF Continues
  <2>2. At(IvarTag, 0, 4) = IvarTag
    BY <1>8, AllOfIt, IvarTagAssumption
  <2>. QED BY <2>1, <2>2
<1>10. Read(h, 8, 4) = v.text_encoding
  <2>1. At(h, 8, 4) = At(b, 8, 4)
    BY <1>7, <1>8 DEF Continues
  <2>. QED BY <1>6, <1>8, <2>1 DEF Read
<1>11. At(h, 12, 4) = c
  BY <1>4, <1>7, <1>8
<1>12. At(h, 12, 1) = <<0>>
  <2> DEFINE o == 12
             m == 4
  <2>1. o \in Nat /\ m \in Nat /\ o + m <= Len(h) /\ 0 \in Nat /\ 1 \in Nat /\ 0 + 1 <= m
        /\ o + 0 = o
    BY <1>8
  <2>2. At(h, o, m) = c
    BY <1>11
  <2> HIDE DEF o, m
  <2>3. At(At(h, o, m), 0, 1) = At(h, o + 0, 1)
    BY <1>7, <2>1, PartOfPart
  <2>. QED BY <1>3, <2>1, <2>2, <2>3 DEF o
<1>13. Read(h, 12, 4) = n
  <2>1. At(c, 0, 4) = c
    BY <1>4, AllOfIt
  <2>. QED BY <1>4, <1>11, <2>1 DEF Read
<1>. QED BY <1>7, <1>8, <1>9, <1>10, <1>12, <1>13 DEF ArrayHead, h, b, a, c, n

ArrayBytes(v) ==
  (ArrayHead(v) \o FlattenSeq(ItemRows(v.items))) \o HeldBy(v.items, Len(v.items))

LEMMA ArrayLies ==
  ASSUME NEW v \in IvarArray, IvarFitting(v)
  PROVE  LET s == ArrayBytes(v)
             n == Len(v.items)
             d == HeldBy(v.items, n)
         IN  /\ s \in Seq(Byte) /\ Len(s) = TableEnd(n) + Len(d)
             /\ At(s, 0, 4) = IvarTag /\ At(s, 12, 1) = <<0>>
             /\ Read(s, 8, 4) = v.text_encoding /\ Read(s, 12, 4) = n
             /\ \A i \in 0..n : /\ i < n => ItemId(s, i) = v.items[i + 1].id
                                /\ ItemOffset(s, i) = Len(HeldBy(v.items, i))
             /\ \A o \in Nat, m \in Nat :
                  o + m <= Len(d) => At(s, TableEnd(n) + o, m) = At(d, o, m)
<1> DEFINE items == v.items
           n == Len(items)
           d == HeldBy(items, n)
           h == ArrayHead(v)
           t == FlattenSeq(ItemRows(items))
           g == h \o t
           s == g \o d
<1>1. items \in IvarItems
  BY DEF IvarArray
<1>2. n \in Nat /\ n < Base^3 /\ Len(d) <= MaxU32
  BY <1>1 DEF IvarFitting, IvarItems, HeldBy
<1>3. d \in Seq(Byte)
  <2>1. n <= Len(items)
    BY <1>2
  <2> HIDE DEF items, n
  <2>. QED BY <1>1, <1>2, <2>1, HeldTyped
<1>4. /\ h \in Seq(Byte) /\ Len(h) = 16 /\ At(h, 0, 4) = IvarTag /\ At(h, 12, 1) = <<0>>
      /\ Read(h, 8, 4) = v.text_encoding /\ Read(h, 12, 4) = n
  BY <1>2, ArrayHeadIs
<1>5. /\ t \in Seq(Byte) /\ Len(t) = (n + 1) * 8
      /\ \A i \in 0..n : /\ i < n => Read(t, i * 8, 4) = items[i + 1].id
                         /\ Read(t, i * 8 + 4, 4) = Len(HeldBy(items, i))
  <2> HIDE DEF items
  <2>. QED BY <1>1, <1>2, ItemTable
<1> HIDE DEF items, n, d, h, t
<1>6. g \in Seq(Byte) /\ Len(g) = Len(h) + Len(t) /\ At(g, Len(h), Len(t)) = t /\ Continues(g, h)
  BY <1>4, <1>5, Appended
<1> HIDE DEF g
<1>7. s \in Seq(Byte) /\ Len(s) = Len(g) + Len(d) /\ At(s, Len(g), Len(d)) = d /\ Continues(s, g)
  BY <1>3, <1>6, Appended
<1> HIDE DEF s
<1>8. /\ TableEnd(n) = 16 + (n + 1) * 8 /\ Len(g) = TableEnd(n) /\ Len(g) \in Nat /\ Len(d) \in Nat
      /\ 24 <= Len(g) /\ Len(t) \in Nat
  BY <1>2, <1>3, <1>4, <1>5, <1>6 DEF TableEnd, IvarHeaderSize, IvarEntrySize
<1>sizes. /\ Len(h) = 16 /\ Len(t) \in Nat /\ Len(g) = 16 + Len(t) /\ 24 <= Len(g)
      /\ Len(s) = Len(g) + Len(d) /\ Len(d) \in Nat /\ Len(g) \in Nat
  BY <1>4, <1>6, <1>7, <1>8
<1>9. ASSUME NEW o \in Nat, NEW m \in Nat, o + m <= 16
      PROVE  At(s, o, m) = At(h, o, m)
  <2>1. o + m <= Len(g) /\ o + m <= Len(h)
    BY <1>sizes, <1>9
  <2>. QED BY <1>6, <1>7, <2>1 DEF Continues
<1>10. /\ At(s, 0, 4) = IvarTag /\ At(s, 12, 1) = <<0>>
       /\ Read(s, 8, 4) = v.text_encoding /\ Read(s, 12, 4) = n
  <2>1. /\ At(s, 0, 4) = At(h, 0, 4) /\ At(s, 12, 1) = At(h, 12, 1)
        /\ At(s, 8, 4) = At(h, 8, 4) /\ At(s, 12, 4) = At(h, 12, 4)
    BY <1>9
  <2>. QED BY <1>4, <2>1 DEF Read
<1>11. ASSUME NEW o \in Nat, o + 4 <= Len(t)
       PROVE  Read(s, 16 + o, 4) = Read(t, o, 4)
  <2> DEFINE b == 16
             l == Len(t)
             p == b + o
  <2>1. b \in Nat /\ l \in Nat /\ b + l <= Len(g) /\ o + 4 <= l /\ 4 \in Nat
        /\ p \in Nat /\ p + 4 <= Len(g)
    BY <1>sizes, <1>11
  <2>2. At(g, b, l) = t
    BY <1>4, <1>6
  <2>3. At(s, p, 4) = At(g, p, 4)
    BY <1>7, <2>1 DEF Continues
  <2> HIDE DEF b, l
  <2>4. At(At(g, b, l), o, 4) = At(g, b + o, 4)
    BY <1>6, <2>1, PartOfPart
  <2>5. At(g, p, 4) = At(t, o, 4)
    BY <2>2, <2>4
  <2>. QED BY <2>3, <2>5 DEF Read, p, b
<1>12. ASSUME NEW i \in 0..n
       PROVE  /\ i < n => ItemId(s, i) = items[i + 1].id
              /\ ItemOffset(s, i) = Len(HeldBy(items, i))
  <2> DEFINE o == i * 8
             p == o + 4
  <2>1. o \in Nat /\ p \in Nat /\ o + 4 <= Len(t) /\ p + 4 <= Len(t) /\ 16 + o + 4 = 16 + p
    BY <1>2, <1>5
  <2>2. ItemId(s, i) = Read(s, 16 + o, 4) /\ ItemOffset(s, i) = Read(s, 16 + o + 4, 4)
    BY DEF ItemId, ItemOffset, IvarHeaderSize, IvarEntrySize
  <2>3. /\ i < n => Read(t, o, 4) = items[i + 1].id
        /\ Read(t, p, 4) = Len(HeldBy(items, i))
    BY <1>5
  <2> HIDE DEF o, p
  <2>4. Read(s, 16 + o, 4) = Read(t, o, 4) /\ Read(s, 16 + p, 4) = Read(t, p, 4)
    BY <1>11, <2>1
  <2>. QED BY <2>1, <2>2, <2>3, <2>4
<1>13. ASSUME NEW o \in Nat, NEW m \in Nat, o + m <= Len(d)
       PROVE  At(s, TableEnd(n) + o, m) = At(d, o, m)
  <2> DEFINE a == Len(g)
             l == Len(d)
  <2>1. a \in Nat /\ l \in Nat /\ a + l <= Len(s) /\ o + m <= l
    BY <1>sizes, <1>13
  <2>2. s \in Seq(Byte) /\ At(s, a, l) = d
    BY <1>7
  <2> HIDE DEF a, l
  <2>3. At(At(s, a, l), o, m) = At(s, a + o, m)
    BY <2>1, <2>2, PartOfPart
  <2>4. At(s, a + o, m) = At(d, o, m)
    BY <2>2, <2>3
  <2>. QED BY <1>8, <2>4 DEF a
<1>. QED BY <1>7, <1>8, <1>10, <1>12, <1>13 DEF ArrayBytes, s, g, h, t, d, n, items

LEMMA IvarReturned == Returned("ivar")
<1> SUFFICES ASSUME NEW v \in Holds("ivar")
             PROVE  Encode("ivar", v).value \in Seq(Byte)
                    /\ Decode("ivar", Encode("ivar", v).value) = Good(Meant("ivar", v))
  BY DEF Returned
<1> DEFINE items == v.items
           n == Len(items)
           d == HeldBy(items, n)
           s == ArrayBytes(v)
           xs == [i \in 1..n |-> IvarItem(s, n, i - 1)]
           End(i) == Len(HeldBy(items, i))
<1>1. v \in IvarArray /\ IvarFitting(v) /\ Meant("ivar", v) = v
  BY DEF Holds, Meant
<1>2. Encode("ivar", v).value = s
  BY DEF Encode, WriteIvar, Good, HeldBy, ArrayBytes, ArrayHead, ItemRows
<1>3. /\ items \in IvarItems /\ v.text_encoding \in Long
      /\ v = [text_encoding |-> v.text_encoding, items |-> items]
  BY <1>1 DEF IvarArray
<1>4. n \in Nat /\ \A i \in 1..n : items[i] \in [id : Long, data : Seq(Byte)]
  <2>1. items \in Seq([id : Long, data : Seq(Byte)])
    BY <1>3 DEF IvarItems
  <2> HIDE DEF items
  <2>2. n \in Nat
    BY <2>1
  <2>. QED BY <2>1, <2>2, ElementOfSeq
<1>5. /\ s \in Seq(Byte) /\ Len(s) = TableEnd(n) + Len(d)
      /\ At(s, 0, 4) = IvarTag /\ At(s, 12, 1) = <<0>>
      /\ Read(s, 8, 4) = v.text_encoding /\ Read(s, 12, 4) = n
  BY <1>1, ArrayLies
<1>6. /\ \A i \in 0..n : /\ i < n => ItemId(s, i) = items[i + 1].id
                         /\ ItemOffset(s, i) = End(i)
  BY <1>1, ArrayLies
<1>7. \A o \in Nat, m \in Nat : o + m <= Len(d) => At(s, TableEnd(n) + o, m) = At(d, o, m)
  BY <1>1, ArrayLies
<1>8. \A i \in 1..n : /\ End(i - 1) + Len(items[i].data) = End(i)
                      /\ End(i) <= Len(d)
                      /\ At(d, End(i - 1), Len(items[i].data)) = items[i].data
  <2> HIDE DEF items
  <2>. QED BY <1>3, HeldSlice
<1> HIDE DEF s
<1>9. d \in Seq(Byte) /\ \A i \in 0..n : End(i) \in Nat
  <2> HIDE DEF items
  <2>1. \A i \in 0..n : HeldBy(items, i) \in Seq(Byte) /\ Len(HeldBy(items, i)) \in Nat
    BY <1>3, <1>4, HeldTyped
  <2>. QED BY <1>4, <2>1
<1>10. TableEnd(n) \in Nat /\ 24 <= TableEnd(n) /\ Len(d) \in Nat
  BY <1>4, <1>9 DEF TableEnd, IvarHeaderSize, IvarEntrySize
<1> HIDE DEF items, n, d, End
<1>11. ASSUME NEW i \in 0..n
       PROVE  End(i) <= Len(d)
  <2>1. CASE i = 0
    <3>1. HeldBy(items, 0) = << >>
      BY HeldNone
    <3>2. End(0) = 0
      BY <3>1 DEF End
    <3>. QED BY <1>10, <2>1, <3>2
  <2>2. CASE i # 0
    BY <1>4, <1>8, <2>2
  <2>. QED BY <2>1, <2>2
<1>12. OffsetsInOrder(s, n)
  <2> SUFFICES ASSUME NEW i \in 0..n
               PROVE  /\ i > 0 => ItemOffset(s, i - 1) <= ItemOffset(s, i)
                      /\ ItemOffset(s, i) <= Len(s) - TableEnd(n)
    BY DEF OffsetsInOrder
  <2>1. ItemOffset(s, i) = End(i) /\ End(i) <= Len(d)
    BY <1>6, <1>11
  <2>2. Len(s) - TableEnd(n) = Len(d)
    BY <1>5, <1>10
  <2>3. ASSUME i > 0
        PROVE  ItemOffset(s, i - 1) <= ItemOffset(s, i)
    <3>1. i \in 1..n /\ i - 1 \in 0..n
      BY <1>4, <2>3
    <3>2. ItemOffset(s, i - 1) = End(i - 1) /\ End(i - 1) \in Nat /\ End(i) \in Nat
      BY <1>6, <1>9, <3>1
    <3>3. End(i - 1) + Len(items[i].data) = End(i) /\ Len(items[i].data) \in Nat
      BY <1>4, <1>8, <3>1
    <3>. QED BY <2>1, <3>2, <3>3
  <2>. QED BY <2>1, <2>2, <2>3
<1>13. ASSUME NEW i \in 1..n
       PROVE  IvarItem(s, n, i - 1) = items[i]
  <2> DEFINE k == i - 1
             a == End(k)
             x == items[i].data
             m == Len(x)
             e == End(i)
  <2>1. k \in 0..n /\ k < n /\ k + 1 = i /\ i \in 0..n
    BY <1>4
  <2>2. items[i] = [id |-> items[i].id, data |-> x] /\ x \in Seq(Byte)
    BY <1>4
  <2>3. ItemId(s, k) = items[i].id /\ ItemOffset(s, k) = a /\ ItemOffset(s, k + 1) = e
    BY <1>6, <2>1
  <2>4. a + m = e /\ e <= Len(d) /\ At(d, a, m) = x
    BY <1>8
  <2>5. a \in Nat /\ m \in Nat /\ e \in Nat
    BY <1>9, <2>1, <2>2
  <2>6. IvarItem(s, n, k) = [id |-> ItemId(s, k),
                             data |-> At(s, TableEnd(n) + ItemOffset(s, k),
                                         ItemOffset(s, k + 1) - ItemOffset(s, k))]
    BY DEF IvarItem
  <2> HIDE DEF k, a, x, m, e
  <2>7. e - a = m /\ a + m <= Len(d)
    BY <2>4, <2>5
  <2>8. At(s, TableEnd(n) + a, m) = x
    BY <1>7, <2>4, <2>5, <2>7
  <2>9. At(s, TableEnd(n) + ItemOffset(s, k), ItemOffset(s, k + 1) - ItemOffset(s, k)) = x
    BY <2>3, <2>7, <2>8
  <2>10. IvarItem(s, n, k) = items[i]
    BY <2>2, <2>3, <2>6, <2>9, Zenon
  <2>. QED BY <2>10 DEF k
<1>14. xs = items
  <2>1. items \in Seq([id : Long, data : Seq(Byte)])
    BY <1>3 DEF IvarItems
  <2>2. items = [i \in 1..n |-> items[i]]
    BY <2>1 DEF n
  <2>3. xs = [i \in 1..n |-> items[i]]
    BY <1>13
  <2>. QED BY <2>2, <2>3, Zenon
<1> HIDE DEF xs
<1>15. ~ (Len(s) < 24) /\ ~ (Len(s) < TableEnd(n))
  BY <1>5, <1>10
<1>16. First(s, 4) = IvarTag
  <2>1. First(s, 4) = At(s, 0, 4)
    BY DEF First, At
  <2>. QED BY <1>5, <2>1
<1>17. s[13] = 0
  <2> DEFINE o == 12
  <2>1. o \in Nat /\ o + 1 <= Len(s)
    BY <1>5, <1>10
  <2>2. o + 1 = 13 /\ At(s, o, 1) = <<0>>
    BY <1>5
  <2> HIDE DEF o
  <2>3. At(s, o, 1) = <<s[o + 1]>>
    BY <1>5, <2>1, OneByte
  <2>. QED BY <2>2, <2>3
<1>18. Decode("ivar", s)
         = IF Len(s) < 24 THEN Truncated
           ELSE IF First(s, 4) # IvarTag THEN Fail("wrong_format_tag")
           ELSE IF s[13] # 0 THEN Fail("impossible_item_count")
           ELSE IF Len(s) < TableEnd(n) THEN Truncated
           ELSE IF ~OffsetsInOrder(s, n) THEN Fail("offset_out_of_range")
           ELSE Good([text_encoding |-> v.text_encoding, items |-> xs])
  <2> DEFINE k == Read(s, 12, 4)
             te == Read(s, 8, 4)
  <2>1. Decode("ivar", s)
          = IF Len(s) < 24 THEN Truncated
            ELSE IF First(s, 4) # IvarTag THEN Fail("wrong_format_tag")
            ELSE IF s[13] # 0 THEN Fail("impossible_item_count")
            ELSE IF Len(s) < TableEnd(k) THEN Truncated
            ELSE IF ~OffsetsInOrder(s, k) THEN Fail("offset_out_of_range")
            ELSE Good([text_encoding |-> te,
                       items |-> [i \in 1..k |-> IvarItem(s, k, i - 1)]])
    BY DEF Decode, DecodeIvar, IvarHeaderSize, IvarEntrySize
  <2>2. k = n /\ te = v.text_encoding
    BY <1>5
  <2> HIDE DEF k, te
  <2>. QED BY <2>1, <2>2, Zenon DEF xs
<1>19. Decode("ivar", s) = Good(v)
  BY <1>3, <1>12, <1>14, <1>15, <1>16, <1>17, <1>18, Zenon
<1>. QED BY <1>1, <1>2, <1>5, <1>19

-----------------------------------------------------------------------------
(* The records on their way.                                               *)

LEMMA PlainFaithful == \A k \in Plain : Faithful(k)
BY CommandFaithful, ReplyFaithful, HelloFaithful, GreetingFaithful, HeaderFaithful,
   TransactionFaithful, StampFaithful, GuidFaithful, UserFaithful, Zenon DEF Plain

LEMMA ListsFaithful == \A k \in Lists : Faithful(k)
BY FieldsFaithful, ServersFaithful, RegistrationFaithful, LookupFaithful, Zenon DEF Lists

LEMMA WrittenReturned ==
  ASSUME NEW k, Written(k), \A v : Meant(k, v) = v
  PROVE  Returned(k)
BY DEF Returned, Written

LEMMA UnderstoodReproduced ==
  ASSUME NEW k, Understood(k)
  PROVE  Reproduced(k)
<1> SUFFICES ASSUME NEW s \in Seq(Byte), Decode(k, s).ok
             PROVE  LET again == Encode(k, Decode(k, s).value)
                    IN  /\ again.ok
                        /\ Len(again.value) = Len(s)
                        /\ {i \in 1..Len(s) : again.value[i] # s[i]}
                             \subseteq Ignored(k, Decode(k, s).value)
  BY Zenon DEF Reproduced
<1>1. Encode(k, Decode(k, s).value) = Good(s)
  BY DEF Understood
<1>2. Encode(k, Decode(k, s).value).ok /\ Encode(k, Decode(k, s).value).value = s
  BY <1>1, GoodIs
<1>. QED BY <1>2, Zenon

LEMMA FaithfulReturned ==
  ASSUME NEW k \in Plain \cup Lists
  PROVE  Returned(k) /\ Reproduced(k) /\ Ended(k)
<1>1. Written(k) /\ Understood(k) /\ Ended(k)
  BY PlainFaithful, ListsFaithful DEF Faithful
<1>2. \A v : Meant(k, v) = v
  BY DEF Meant, Plain, Lists
<1>. QED BY <1>1, <1>2, WrittenReturned, UnderstoodReproduced

(* The kinds of which nothing but what the length around them says is lost. *)
Record == Plain \cup Padded \cup Lists

LEMMA RecordReturned ==
  ASSUME NEW k \in Record
  PROVE  Returned(k) /\ Reproduced(k) /\ Ended(k)
<1>1. CASE k \in Plain \cup Lists
  BY <1>1, FaithfulReturned
<1>2. CASE k = "file"
  BY <1>2, FileFaithful
<1>3. CASE k = "handshake"
  BY <1>3, HandshakeReturned, HandshakeReproduced, HandshakeEnds
<1>4. CASE k = "item"
  BY <1>4, ItemReturned, ItemReproduced, ItemEnds
<1>. QED BY <1>1, <1>2, <1>3, <1>4 DEF Record, Padded

\* But for a flat file with a fork that is too large, what is sent of any kind
\* of message comes back.
LEMMA KindsReturned ==
  ASSUME NEW k \in Kinds \ {"flat"}
  PROVE  Returned(k)
<1>1. CASE k \in Record
  BY <1>1, RecordReturned
<1>2. CASE k \in OfKnownLength
  BY <1>2, IntegerReturned, ScrambledReturned, DigestsReturned DEF OfKnownLength, Bare, Digested
<1>3. CASE k \in Searched
  BY <1>3, OfferReturned, ProofReturned, IvarReturned DEF Searched
<1>4. CASE k \in {"info", "archive"}
  <2>1. \A v : Meant("info", v) = v /\ Meant("archive", v) = v
    BY DEF Meant
  <2>2. Returned("info") /\ Returned("archive")
    BY <2>1, InfoWritten, ArchiveWritten, WrittenReturned
  <2>. QED BY <1>4, <2>2
<1>5. CASE k \in {"resume", "folder_resume", "access"}
  BY <1>5, ResumeReturned, FolderResumeReturned, AccessReturned
<1>6. k \in Record \cup OfKnownLength \cup Searched
          \cup {"info", "archive", "resume", "folder_resume", "access"}
  BY DEF Kinds, Record, Plain, Padded, Lists, OfKnownLength, Bare, Digested, Searched
<1>. QED BY <1>1, <1>2, <1>3, <1>4, <1>5, <1>6

(* The kinds of which every byte is understood. *)
Understandable == Kinds \ (OfKnownLength \cup Searched \cup {"access"})

LEMMA KindsReproduced == \A k \in Understandable : Reproduced(k)
<1>1. Understandable = Record \cup {"flat", "info", "resume", "folder_resume", "archive"}
  BY DEF Understandable, Kinds, Record, Plain, Padded, Lists, OfKnownLength, Bare, Digested,
         Searched
<1>2. Reproduced("info")
  BY InfoUnderstood, UnderstoodReproduced
<1>. QED BY <1>1, <1>2, RecordReturned, FlatReproduced, ResumeReproduced, FolderResumeReproduced,
            ArchiveReproduced

\* Every encoder makes bytes.
LEMMA EncodersMakeBytes == \A k \in Kinds : EncodesBytes(k)
<1>1. \A k \in Record \cup Bare \cup {"access"} : EncodesBytes(k)
  <2>1. \A k \in Record \cup Bare \cup {"access"} : Returned(k)
    BY RecordReturned, IntegerReturned, ScrambledReturned, AccessReturned DEF Bare
  <2>. QED BY <2>1 DEF Returned, EncodesBytes
<1>2. EncodesBytes("archive")
  BY ArchiveWritten DEF Written, EncodesBytes
<1>3. Kinds = Record \cup Bare \cup Digested
                \cup {"access", "archive", "flat", "info", "resume", "folder_resume",
                      "offer", "proof", "ivar"}
  BY DEF Kinds, Record, Plain, Padded, Lists, Bare, Digested
<1>. QED BY <1>1, <1>2, <1>3, FlatTyped, InfoTyped, ResumeTyped, HopeTyped, DigestsTyped,
            IvarTyped DEF Digested

(* The kinds of which a part is noticed to be one. *)
Ending == Kinds \ (OfKnownLength \cup {"ivar"})

LEMMA KindsEnd == \A k \in Ending : Ended(k)
<1>1. \A k \in Record : Ended(k)
  BY RecordReturned
<1>2. Ending = Record \cup {"flat", "info", "resume", "folder_resume", "archive", "offer",
                            "proof", "access"}
  BY DEF Ending, Kinds, Record, Plain, Padded, Lists, OfKnownLength, Bare, Digested
<1>. QED BY <1>1, <1>2, FlatEnds, InfoEnds, ResumeEnds, FolderResumeEnds, ArchiveEnds,
            OfferEnds, AccessEnds

(* Whatever is on its way are bytes, and of a message that was accepted and *)
(* then cut nothing can be accepted.                                        *)
RecordInv ==
  /\ bytes \in Seq(Byte)
  /\ damage \in {"unsent", "refused", "none", "cut", "changed", "grown"}
  /\ damage = "cut" /\ kind \in Ending => ~ Decode(kind, bytes).ok

LEMMA KindIs ==
  ASSUME OneMessage
  PROVE  kind \in Kinds /\ value \in Holds(kind)
BY SamplesAssumption, HoldsAssumption DEF OneMessage, kind, value

LEMMA ByteChanged ==
  ASSUME NEW s \in Seq(Byte), NEW i \in 1..Len(s), NEW byte \in Mistaken(s[i])
  PROVE  [s EXCEPT ![i] = byte] \in Seq(Byte)
<1>1. s[i] \in Byte
  BY ElementOfSeq
<1>2. s[i] + 1 \in Nat /\ s[i] + MaxU8 \in Nat /\ 0 \in Nat /\ Byte = 0..(Base - 1)
  BY <1>1, Limits, Bases DEF Byte
<1>3. (s[i] + 1) % Base \in Byte /\ (s[i] + MaxU8) % Base \in Byte /\ 0 \in Byte
  <2>1. 0 \in Byte
    BY Bases, <1>2
  <2>. QED BY <1>2, <2>1, Divided
<1>4. byte \in Byte
  BY <1>3 DEF Mistaken
<1>. QED BY <1>4, ExceptSeq

LEMMA InitRecord == Init => RecordInv
<1>1. << >> \in Seq(Byte)
  OBVIOUS
<1>. QED BY <1>1, Zenon DEF Init, RecordInv

LEMMA StepRecord == OneMessage /\ RecordInv /\ [Next]_vars => RecordInv'
<1> SUFFICES ASSUME OneMessage, RecordInv, [Next]_vars
             PROVE  RecordInv'
  OBVIOUS
<1>1. sample' = sample
  BY DEF Next, Send, Receive, Change, Grow, Cut, vars
<1>2. kind' = kind
  BY <1>1 DEF kind
<1>3. bytes \in Seq(Byte)
      /\ damage \in {"unsent", "refused", "none", "cut", "changed", "grown"}
      /\ (damage = "cut" /\ kind \in Ending => ~ Decode(kind, bytes).ok)
  BY DEF RecordInv
<1>4. value \in Holds(kind) /\ EncodesBytes(kind)
  BY KindIs, EncodersMakeBytes
<1> SUFFICES /\ bytes' \in Seq(Byte)
             /\ damage' \in {"unsent", "refused", "none", "cut", "changed", "grown"}
             /\ damage' = "cut" /\ kind \in Ending => ~ Decode(kind, bytes').ok
  BY <1>2 DEF RecordInv
<1>5. CASE Send
  <2> DEFINE e == Encode(kind, value)
  <2>1. /\ damage' = IF e.ok THEN "none" ELSE "refused"
        /\ bytes' = IF e.ok THEN e.value ELSE << >>
    BY <1>5 DEF Send
  <2>2. e.ok => e.value \in Seq(Byte)
    BY <1>4 DEF EncodesBytes
  <2>3. << >> \in Seq(Byte)
    OBVIOUS
  <2> HIDE DEF e
  <2>. QED BY <2>1, <2>2, <2>3
<1>6. CASE Receive
  BY <1>3, <1>6 DEF Receive
<1>7. CASE Change
  <2>1. bytes' \in Seq(Byte)
    BY <1>3, <1>7, ByteChanged DEF Change
  <2>. QED BY <1>7, <2>1 DEF Change
<1>8. CASE Grow
  <2>1. PICK tail \in Tails : bytes' = bytes \o tail
    BY <1>8 DEF Grow
  <2>2. bytes' \in Seq(Byte)
    BY <1>3, <2>1, TailsAssumption, Joined
  <2>. QED BY <1>8, <2>2 DEF Grow
<1>9. CASE Cut
  <2>1. PICK n \in 0..Len(bytes) - 1 : bytes' = First(bytes, n)
    BY <1>9 DEF Cut
  <2>2. n \in Nat /\ n < Len(bytes)
    BY <1>3, <2>1
  <2>3. Decode(kind, bytes).ok
    BY <1>9, NotYetIs DEF Cut, OneMessage
  <2>4. kind \in Ending => ~ Decode(kind, First(bytes, n)).ok
    BY <1>3, <2>2, <2>3, KindsEnd DEF Ended
  <2>5. First(bytes, n) \in Seq(Byte)
    BY <1>3, <2>2, Shorter
  <2>6. damage' = "cut"
    BY <1>9 DEF Cut
  <2>. QED BY <2>1, <2>4, <2>5, <2>6
<1>10. CASE UNCHANGED vars
  BY <1>3, <1>10 DEF vars
<1>. QED BY <1>5, <1>6, <1>7, <1>8, <1>9, <1>10 DEF Next

LEMMA RecordsOnTheirWay == Spec => []RecordInv
BY MessageOnItsWay, InitRecord, StepRecord, PTL DEF Spec

\* Whatever an encoder makes of what the program can hold, for every kind of
\* message, is bytes, and every decoder answers whatever bytes it is given,
\* however they were damaged.
THEOREM MessagesAreTyped == Spec => []TypeOK
<1>1. OneMessage /\ RecordInv => TypeOK
  <2> SUFFICES ASSUME OneMessage, RecordInv
               PROVE  TypeOK
    OBVIOUS
  <2>1. kind \in Kinds /\ bytes \in Seq(Byte)
    BY KindIs DEF RecordInv
  <2>2. Decode(kind, bytes).ok \in BOOLEAN
    BY <2>1, DecoderAnswers
  <2>3. got.ok \in BOOLEAN
    <3>1. CASE got = NotYet
      BY <3>1 DEF NotYet, Fail
    <3>2. CASE got = Decode(kind, bytes)
      BY <2>2, <3>2, Zenon
    <3>. QED BY <3>1, <3>2 DEF OneMessage
  <2>. QED BY <2>3 DEF TypeOK, OneMessage, RecordInv
<1>. QED BY <1>1, MessageOnItsWay, RecordsOnTheirWay, PTL

\* Every kind of message there is an encoder for, and the archives and arrays
\* of which there are only readers: whatever it holds, however long its lists
\* and texts are and whatever the width of a byte, what encode_...() made of it
\* and the way did not damage, decode_...() reads as the same.  The one
\* exception is a fork of 2^32 bytes or more, which encode_flat_file() does not
\* refuse.
THEOREM RecordsComeBack == Spec => [](LargeForksAreRefused => RoundTrip)
<1>1. OneMessage => (LargeForksAreRefused => RoundTrip)
  <2> SUFFICES ASSUME OneMessage, LargeForksAreRefused, damage = "none", got # NotYet
               PROVE  got = Good(Meant(kind, value))
    BY DEF RoundTrip
  <2>1. kind \in Kinds /\ value \in Holds(kind)
    BY KindIs, HoldsAssumption DEF OneMessage, kind, value
  <2>2. Encode(kind, value).ok /\ got = Decode(kind, Encode(kind, value).value)
    BY CameBack
  <2>3. CASE kind # "flat"
    BY <2>1, <2>2, <2>3, KindsReturned DEF Returned
  <2>4. CASE kind = "flat"
    <3>1. \A i \in 1..Len(value.forks) : Len(value.forks[i].data) <= MaxU32
      BY <2>4 DEF LargeForksAreRefused
    <3> DEFINE v == value
    <3>2. v \in Holds("flat") /\ Encode("flat", v).ok
      BY <2>1, <2>2, <2>4
    <3> HIDE DEF v
    <3>3. Decode("flat", Encode("flat", v).value) = Good(v)
      BY <3>1, <3>2, FlatReturned DEF v
    <3>4. Meant("flat", v) = v
      BY DEF Meant
    <3>. QED BY <2>2, <2>4, <3>3, <3>4 DEF v
  <2>. QED BY <2>3, <2>4
<1>. QED BY <1>1, MessageOnItsWay, PTL

\* Whatever bytes a decoder accepts, damaged or not, it has understood all of
\* them but the reserved ones, however long the message is, however many
\* fields, servers, forks or entries it has and whatever the width of a byte:
\* the encoder makes the same bytes of what it read.
THEOREM RecordsUnderstood == Spec => []NothingSkipped
<1>1. OneMessage /\ RecordInv => NothingSkipped
  <2> SUFFICES ASSUME OneMessage, RecordInv, got.ok,
                      kind \notin OfKnownLength \cup Searched \cup {"access"}
               PROVE  \A again \in {Encode(kind, got.value)} :
                        /\ again.ok
                        /\ Len(again.value) = Len(bytes)
                        /\ {i \in 1..Len(bytes) : again.value[i] # bytes[i]}
                             \subseteq Ignored(kind, got.value)
    BY DEF NothingSkipped
  <2>1. Reproduced(kind)
    BY KindIs, KindsReproduced DEF Understandable
  <2>2. bytes \in Seq(Byte) /\ got = Decode(kind, bytes)
    BY NotYetIs DEF OneMessage, RecordInv
  <2>. QED BY <2>1, <2>2 DEF Reproduced
<1>. QED BY <1>1, MessageOnItsWay, RecordsOnTheirWay, PTL

\* Of a message that a decoder took from the stream no shorter part is also
\* one, for every kind but those whose length something around them says and
\* the arrays: the end of a message is where its size, its counts or its
\* lengths say.
THEOREM RecordsEnd == Spec => []EndsWhereItSays
<1>1. OneMessage /\ RecordInv => EndsWhereItSays
  <2> SUFFICES ASSUME OneMessage, RecordInv, damage = "cut",
                      kind \notin OfKnownLength \cup {"ivar"}
               PROVE  ~ got.ok
    BY DEF EndsWhereItSays
  <2>1. kind \in Ending
    BY KindIs DEF Ending
  <2>. QED BY <2>1, NotYetIs DEF RecordInv, OneMessage
<1>. QED BY <1>1, MessageOnItsWay, RecordsOnTheirWay, PTL

\* Privilege p of the mask that is read is bit 7 - p % 8 of byte p / 8, as
\* aw::bits counts them, for bytes of any width: encode_access_mask() keeps the
\* layout of the legacy struct (payload.h).
THEOREM MasksHaveTheirBits == Spec => []MaskHasItsBits
<1>1. OneMessage /\ RecordInv => MaskHasItsBits
  <2> SUFFICES ASSUME OneMessage, RecordInv, kind = "access", got.ok,
                      NEW p \in 0..MaskBits - 1
               PROVE  GetBit(bytes, p) <=> p \in got.value
    BY DEF MaskHasItsBits
  <2>1. bytes \in Seq(Byte) /\ got = Decode("access", bytes)
    BY NotYetIs DEF OneMessage, RecordInv
  <2>2. Len(bytes) = 8
    BY <2>1, AccessIs
  <2>3. got.value = {q \in 0..MaskBits - 1 : Has(Number(bytes), q)}
    BY <2>1, <2>2, AccessIs, GoodIs
  <2>4. GetBit(bytes, p) <=> Has(Number(bytes), p)
    BY <2>1, <2>2, BitsOfBytes
  <2>. QED BY <2>3, <2>4
<1>. QED BY <1>1, MessageOnItsWay, RecordsOnTheirWay, PTL

\* The items that decode_ivar_array() reads lie one behind the other in the data
\* of the array, whatever bytes it is given: offsets that are not in order are
\* refused, so no byte is in two items and none reaches behind the end.
THEOREM ArraysAreInOrder == Spec => []ItemsInOrder
<1>1. OneMessage /\ RecordInv => ItemsInOrder
  <2> SUFFICES ASSUME OneMessage, RecordInv, kind = "ivar", got.ok
               PROVE  ItemsInOrder
    BY DEF ItemsInOrder
  <2> DEFINE items == got.value.items
             n == Len(items)
             held == HeldBy(items, n)
             begin == TableEnd(n) + ItemOffset(bytes, 0)
             start == TableEnd(n) + IF items = << >> THEN 0 ELSE ItemOffset(bytes, 0)
  <2>1. bytes \in Seq(Byte) /\ got = Decode("ivar", bytes)
    BY NotYetIs DEF OneMessage, RecordInv
  <2>2. /\ items \in IvarItems /\ begin \in Nat /\ TableEnd(n) \in Nat
        /\ TableEnd(n) <= Len(bytes)
        /\ begin + Len(held) <= Len(bytes) /\ At(bytes, begin, Len(held)) = held
    BY <2>1, ItemsMeet
  <2>3. start + Len(held) <= Len(bytes) /\ At(bytes, start, Len(held)) = held
    <3>1. CASE items # << >>
      <4>1. start = begin
        BY <3>1
      <4> HIDE DEF start, begin, held
      <4>. QED BY <2>2, <4>1
    <3>2. CASE items = << >>
      <4>1. n = 0 /\ start = TableEnd(n) + 0
        BY <3>2
      <4>2. held = << >>
        <5> HIDE DEF n, items
        <5>. QED BY <4>1, HeldNone
      <4> HIDE DEF n, held, start, items
      <4>3. start \in Nat /\ start <= Len(bytes) /\ start + 0 <= Len(bytes) /\ 0 \in Nat
        BY <2>1, <2>2, <4>1
      <4>4. At(bytes, start, 0) \in Seq(Byte) /\ Len(At(bytes, start, 0)) = 0
        BY <2>1, <4>3, Part
      <4>5. At(bytes, start, 0) = << >> /\ Len(held) = 0
        BY <4>2, <4>4, EmptySeq
      <4>. QED BY <4>2, <4>3, <4>5
    <3>. QED BY <3>1, <3>2
  <2>. QED BY <2>3 DEF ItemsInOrder, HeldBy
<1>. QED BY <1>1, MessageOnItsWay, RecordsOnTheirWay, PTL
=============================================================================
