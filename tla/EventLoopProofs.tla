--------------------------- MODULE EventLoopProofs ---------------------------
(* Who owns a descriptor, for any number of peers and descriptors, any       *)
(* order of events and any choice of the application.                        *)
(*                                                                           *)
(* OneOwner is not inductive alone: accept() gives a descriptor to a waiting *)
(* peer, which must not have one already.  Nothing is needed of the events:  *)
(* whatever a batch names, right or stale, ownership is kept.  From it, and  *)
(* not from the events being right, follows that a connection which is       *)
(* served a stale event reads from its own peer and survives.                *)
EXTENDS EventLoop, WellFoundedInduction, FiniteSetTheorems, TLAPS

\* The parts of TypeOK that ownership depends on.
Shape ==
  /\ table \in [Descriptors -> Owners \cup {Free}]
  /\ backlog \subseteq Peers
  /\ holds \in [Owners -> Descriptors \cup {Invalid}]
  /\ state \in [Peers -> {"new", "connecting", "refused", "live", "dead"}]

\* A peer that was not accepted has no descriptor, and whoever waits has
\* none, whatever else became of it.
WaitingHasNone ==
  /\ \A p \in Peers : state[p] \in {"new", "connecting", "refused"} => holds[p] = Invalid
  /\ \A p \in backlog : holds[p] = Invalid

IInv == Shape /\ WaitingHasNone /\ OneOwner

\* -1 is no descriptor, and "free" and the listener are no peers.
LEMMA Names3 ==
  /\ Invalid \notin Descriptors
  /\ Free \notin Owners
  /\ Listener \notin Peers
BY EventLoopAssumption DEF Invalid, Free, Listener, Owners

\* A set of naturals that is not empty has a least member.
LEMMA LeastExists ==
  ASSUME NEW S \in SUBSET Nat, S # {}
  PROVE  \E d \in S : \A e \in S : d <= e
<1> DEFINE Less == {ss \in Nat \X Nat : ss[1] < ss[2]}
<1>1. IsWellFoundedOn(Less, Nat)
  BY NatLessThanWellFounded DEF OpToRel
<1>2. \E d \in S : \A e \in S : ~ (<<e, d>> \in Less)
  <2> HIDE DEF Less
  <2>. QED BY <1>1, WFMin
<1>3. PICK d \in S : \A e \in S : ~ (<<e, d>> \in Less)
  BY <1>2
<1>4. ASSUME NEW e \in S
      PROVE  d <= e
  <2>1. d \in Nat /\ e \in Nat
    OBVIOUS
  <2>2. ~ (e < d)
    BY <1>3, <2>1, Zenon
  <2>. QED BY <2>1, <2>2
<1>. QED BY <1>4

\* While there is a free descriptor, the kernel hands out the lowest.
LEMMA LowestFree ==
  ASSUME Available # {}
  PROVE  Lowest \in Descriptors /\ table[Lowest] = Free
<1>1. Available \in SUBSET Nat
  BY EventLoopAssumption DEF Available
<1>2. \E d \in Available : \A e \in Available : d <= e
  BY <1>1, LeastExists
<1>3. Lowest \in Available
  BY <1>2 DEF Lowest
<1>. QED BY <1>3 DEF Available

LEMMA InitGood == Init => IInv
BY Names3 DEF Init, IInv, Shape, WaitingHasNone, OneOwner, Owners

\* close() of an owner gives up its descriptor on both sides at once, and
\* nobody else's.
LEMMA CloseKeeps ==
  ASSUME IInv, NEW o \in Peers,
         table' = Closed(o).table, holds' = Closed(o).holds,
         backlog' = backlog,
         state' \in [Peers -> {"new", "connecting", "refused", "live", "dead"}],
         \A q \in Peers : state'[q] # state[q] => state'[q] = "dead"
  PROVE  IInv'
<1> USE DEF IInv, Shape
<1>1. /\ table' = [table EXCEPT ![holds[o]] = Free]
      /\ holds' = [holds EXCEPT ![o] = Invalid]
  BY DEF Closed, CloseSocket
<1>2. Shape'
  BY <1>1 DEF Owners
<1>3. WaitingHasNone'
  BY <1>1 DEF WaitingHasNone, Owners
<1>4. OneOwner'
  <2> SUFFICES ASSUME NEW d \in Descriptors, NEW r \in Owners
               PROVE  table'[d] = r <=> holds'[r] = d
    BY DEF OneOwner
  <2>1. o \in Owners
    BY DEF Owners
  <2>2. table[d] = r <=> holds[r] = d
    BY DEF OneOwner
  <2>3. table[d] = o <=> holds[o] = d
    BY <2>1 DEF OneOwner
  <2>4. CASE r = o
    BY <1>1, <2>1, <2>3, <2>4, Names3
  <2>5. CASE r # o
    BY <1>1, <2>1, <2>2, <2>3, <2>5, Names3
  <2>. QED BY <2>4, <2>5
<1>. QED BY <1>2, <1>3, <1>4

\* accept() gives a peer that has no descriptor one that nobody has.
LEMMA AcceptKeeps == IInv /\ Accept => IInv'
<1> SUFFICES ASSUME IInv, Accept
             PROVE  IInv'
  OBVIOUS
<1> USE DEF IInv, Shape
<1>1. PICK p \in backlog :
        /\ table' = [table EXCEPT ![Lowest] = p]
        /\ holds' = [holds EXCEPT ![p] = Lowest]
        /\ state' = [state EXCEPT ![p] = "live"]
        /\ backlog' = backlog \ {p}
  BY DEF Accept
<1>2. Lowest \in Descriptors /\ table[Lowest] = Free
  BY LowestFree DEF Accept
<1>3. p \in Peers /\ p \in Owners /\ holds[p] = Invalid
  BY <1>1 DEF WaitingHasNone, Owners
<1>4. Shape'
  BY <1>1, <1>2, <1>3
<1>5. WaitingHasNone'
  BY <1>1, <1>3 DEF WaitingHasNone, Owners
<1>6. OneOwner'
  <2> SUFFICES ASSUME NEW d \in Descriptors, NEW r \in Owners
               PROVE  table'[d] = r <=> holds'[r] = d
    BY DEF OneOwner
  <2>1. table[d] = r <=> holds[r] = d
    BY DEF OneOwner
  <2>2. table[d] # p
    BY <1>3, Names3 DEF OneOwner
  <2>3. holds[r] # Lowest
    BY <1>2, Names3 DEF OneOwner
  <2>4. CASE r = p
    BY <1>1, <1>2, <1>3, <2>2, <2>4
  <2>5. CASE r # p
    BY <1>1, <1>2, <1>3, <2>1, <2>3, <2>5
  <2>. QED BY <2>4, <2>5
<1>. QED BY <1>4, <1>5, <1>6

\* An event that names a connection closes nobody, that connection, or the
\* one that a callback chose.
LEMMA ServiceKeeps ==
  ASSUME IInv, NEW p \in Peers, Service(p)
  PROVE  IInv'
<1>1. CASE Dies(p)
  BY <1>1, CloseKeeps DEF Dies, Service, IInv, Shape
<1>2. CASE Reads(p)
  <2>1. CASE UNCHANGED <<table, holds, interests>>
    BY <1>2, <2>1 DEF Reads, Service, IInv, Shape, WaitingHasNone, OneOwner
  <2>2. CASE \E q \in Peers :
               /\ holds[q] # Invalid
               /\ table' = Closed(q).table
               /\ holds' = Closed(q).holds
    BY <1>2, <2>2, CloseKeeps DEF Reads, Service, IInv, Shape
  <2>. QED BY <1>2, <2>1, <2>2 DEF Reads
<1>3. CASE UNCHANGED <<table, holds, state, interests, unread>>
  BY <1>3 DEF Service, IInv, Shape, WaitingHasNone, OneOwner
<1>. QED BY <1>1, <1>2, <1>3 DEF Service

LEMMA StepGood == IInv /\ [Next]_vars => IInv'
<1> SUFFICES ASSUME IInv, [Next]_vars
             PROVE  IInv'
  OBVIOUS
<1> USE DEF IInv, Shape, WaitingHasNone
<1>1. ASSUME NEW p \in Peers, PeerConnects(p)
      PROVE  IInv'
  BY <1>1, Names3 DEF PeerConnects, OneOwner, Owners
<1>2. ASSUME NEW p \in Peers, PeerSends(p) \/ PeerCloses(p) \/ Register(p)
      PROVE  IInv'
  BY <1>2 DEF PeerSends, PeerCloses, Register, OneOwner
<1>3. CASE Wait
  BY <1>3 DEF Wait, OneOwner
<1>4. CASE Accept
  BY <1>4, AcceptKeeps
<1>5. CASE AcceptRefused
  BY <1>5 DEF AcceptRefused, OneOwner
<1>6. CASE AcceptNone
  BY <1>6 DEF AcceptNone, OneOwner
<1>7. ASSUME NEW p \in Peers, Service(p)
      PROVE  IInv'
  BY <1>7, ServiceKeeps
<1>8. CASE Ignore
  BY <1>8 DEF Ignore, OneOwner
<1>9. CASE UNCHANGED vars
  BY <1>9 DEF vars, OneOwner
<1>. QED BY <1>1, <1>2, <1>3, <1>4, <1>5, <1>6, <1>7, <1>8, <1>9 DEF Next, Loop, Serve

-----------------------------------------------------------------------------
(* The batch of events.  A wait is only good for a list of events when the   *)
(* descriptors it goes through can be put in order, which takes that they    *)
(* are finitely many: the process registers one at a time.                   *)

\* f goes through S from its least member up.
Lists(f, S) ==
  /\ f \in [1..Cardinality(S) -> S]
  /\ \A i, j \in 1..Cardinality(S) : i < j => f[i] < f[j]

\* The least member goes before an ascending list of the others.
LEMMA ListsLeast ==
  ASSUME NEW S \in SUBSET Nat, IsFiniteSet(S), NEW m \in S, \A e \in S : m <= e,
         NEW g, Lists(g, S \ {m})
  PROVE  \E f : Lists(f, S)
<1> DEFINE n == Cardinality(S)
           f == [i \in 1..n |-> IF i = 1 THEN m ELSE g[i - 1]]
<1>1. n \in Nat /\ Cardinality(S \ {m}) = n - 1
  BY FS_CardinalityType, FS_RemoveElement
<1> HIDE DEF n
<1>2. /\ g \in [1..(n - 1) -> S \ {m}]
      /\ \A i, j \in 1..(n - 1) : i < j => g[i] < g[j]
  BY <1>1 DEF Lists
<1>3. ASSUME NEW i \in 1..n, i # 1
      PROVE  i - 1 \in 1..(n - 1) /\ f[i] = g[i - 1] /\ f[i] \in S /\ m < f[i]
  <2>1. i - 1 \in 1..(n - 1) /\ f[i] = g[i - 1]
    BY <1>1, <1>3
  <2>2. f[i] \in S \ {m}
    BY <1>2, <2>1
  <2> HIDE DEF f
  <2>3. f[i] \in Nat /\ m \in Nat /\ m <= f[i] /\ f[i] # m
    BY <2>2
  <2>. QED BY <2>1, <2>2, <2>3
<1>4. ASSUME NEW i \in 1..n, i = 1
      PROVE  f[i] = m
  BY <1>4
<1>5. f \in [1..n -> S]
  BY <1>3, <1>4
<1> HIDE DEF f
<1>6. ASSUME NEW i \in 1..n, NEW j \in 1..n, i < j
      PROVE  f[i] < f[j]
  <2>1. j # 1
    BY <1>6
  <2>2. CASE i = 1
    BY <1>3, <1>4, <2>1, <2>2
  <2>3. CASE i # 1
    <3>1. i - 1 < j - 1
      BY <1>6
    <3>. QED BY <1>2, <1>3, <2>1, <2>3, <3>1
  <2>. QED BY <2>2, <2>3
<1>. QED BY <1>5, <1>6 DEF Lists, n

\* A finite set of naturals has an ascending list: of the sets that had
\* none, one with the fewest members would still have none without its least.
LEMMA ListExists ==
  ASSUME NEW S \in SUBSET Nat, IsFiniteSet(S)
  PROVE  \E f : Lists(f, S)
<1> DEFINE Unlisted(T) == IsFiniteSet(T) /\ \A f : ~ Lists(f, T)
           Sizes == {n \in Nat : \E T \in SUBSET Nat : Unlisted(T) /\ Cardinality(T) = n}
<1> SUFFICES ASSUME \A f : ~ Lists(f, S)
             PROVE  FALSE
  OBVIOUS
<1>1. Sizes \in SUBSET Nat /\ Sizes # {}
  <2>1. Cardinality(S) \in Sizes
    BY FS_CardinalityType
  <2>. QED BY <2>1
<1>2. PICK n \in Sizes : \A k \in Sizes : n <= k
  BY <1>1, LeastExists
<1>3. PICK T \in SUBSET Nat : Unlisted(T) /\ Cardinality(T) = n
  BY <1>2
<1>4. T # {}
  <2>1. Lists([i \in {} |-> 0], {})
    <3>1. 1..Cardinality({}) = {}
      BY FS_EmptySet
    <3>. QED BY <3>1 DEF Lists
  <2>. QED BY <1>3, <2>1
<1>5. PICK m \in T : \A e \in T : m <= e
  BY <1>4, LeastExists
<1> DEFINE U == T \ {m}
<1>6. IsFiniteSet(U) /\ Cardinality(U) = n - 1 /\ U \in SUBSET Nat /\ n - 1 \in Nat
  <2>1. IsFiniteSet(U) /\ Cardinality(U) = n - 1
    BY <1>3, FS_RemoveElement
  <2>2. Cardinality(U) \in Nat
    BY <2>1, FS_CardinalityType
  <2>. QED BY <2>1, <2>2
<1>7. \E g : Lists(g, U)
  <2>1. n - 1 \notin Sizes
    <3>1. n \in Nat /\ ~ (n <= n - 1)
      OBVIOUS
    <3> HIDE DEF Sizes
    <3>. QED BY <1>2, <3>1
  <2>2. ~ Unlisted(U)
    <3> HIDE DEF Unlisted, U
    <3>. QED BY <1>6, <2>1
  <2>. QED BY <1>6, <2>2
<1>. QED BY <1>3, <1>5, <1>7, ListsLeast

LEMMA AscendingLists ==
  ASSUME NEW S \in SUBSET Nat, IsFiniteSet(S)
  PROVE  Lists(Ascending(S), S)
BY ListExists DEF Lists, Ascending

LEMMA PolledTyped ==
  ASSUME interests \subseteq Descriptors, IsFiniteSet(interests)
  PROVE  Polled \in Seq(PollEvents)
<1> DEFINE ready == {d \in interests : Readable(d) \/ table[d] # Listener}
           order == Ascending(ready)
<1>1. ready \in SUBSET Nat /\ ready \subseteq Descriptors /\ IsFiniteSet(ready)
  BY FS_Subset, EventLoopAssumption
<1>2. order \in [1..Cardinality(ready) -> ready] /\ Cardinality(ready) \in Nat
  BY <1>1, AscendingLists, FS_CardinalityType DEF Lists
<1> HIDE DEF order, ready
<1>3. Len(order) = Cardinality(ready) /\ Len(order) \in Nat
  BY <1>2
<1>4. \A d \in Descriptors : Event(d) \in PollEvents
  BY DEF Event, PollEvents, Readable
<1>5. Polled = [i \in 1..Len(order) |-> Event(order[i])]
  BY DEF Polled, order, ready
<1>6. ASSUME NEW i \in 1..Len(order)
      PROVE  Event(order[i]) \in PollEvents
  BY <1>1, <1>2, <1>3, <1>4
<1>. QED BY <1>3, <1>5, <1>6

\* The types, and what the order of a batch depends on.
TypedInv == TypeOK /\ IsFiniteSet(interests)

LEMMA InitTyped == Init => TypedInv
<1> SUFFICES ASSUME Init
             PROVE  TypedInv
  OBVIOUS
<1>1. IsFiniteSet(interests)
  BY FS_Singleton DEF Init
<1>2. 0 \in 0..MaxUnread /\ <<>> \in Seq(PollEvents)
  BY EventLoopAssumption
<1>. QED BY <1>1, <1>2 DEF Init, TypedInv, TypeOK, Owners

\* add() and remove() keep the registered descriptors finitely many.
LEMMA InterestsTyped ==
  ASSUME TypedInv, NEW d
  PROVE  /\ d \in Descriptors \cup {Invalid} =>
              Added(d) \subseteq Descriptors /\ IsFiniteSet(Added(d))
         /\ interests \ {d} \subseteq Descriptors /\ IsFiniteSet(interests \ {d})
<1>1. interests \subseteq Descriptors /\ IsFiniteSet(interests)
  BY DEF TypedInv, TypeOK
<1>2. IsFiniteSet(interests \cup {d}) /\ IsFiniteSet(interests \ {d})
  BY <1>1, FS_AddElement, FS_RemoveElement
<1>. QED BY <1>1, <1>2 DEF Added, Invalid

\* close() of a connection frees a descriptor of the table.
LEMMA CloseTyped ==
  ASSUME TypedInv, NEW p \in Peers, MayForget(holds[p])
  PROVE  /\ Closed(p).table \in [Descriptors -> Owners \cup {Free}]
         /\ Closed(p).holds \in [Owners -> Descriptors \cup {Invalid}]
         /\ interests' \subseteq Descriptors /\ IsFiniteSet(interests')
<1>1. /\ table \in [Descriptors -> Owners \cup {Free}]
      /\ holds \in [Owners -> Descriptors \cup {Invalid}]
      /\ interests \subseteq Descriptors /\ IsFiniteSet(interests)
  BY DEF TypedInv, TypeOK
<1>2. /\ Closed(p).table = [table EXCEPT ![holds[p]] = Free]
      /\ Closed(p).holds = [holds EXCEPT ![p] = Invalid]
  BY DEF Closed, CloseSocket
<1>3. interests' \subseteq Descriptors /\ IsFiniteSet(interests')
  BY <1>1, InterestsTyped DEF MayForget
<1>. QED BY <1>1, <1>2, <1>3

LEMMA ServiceTyped ==
  ASSUME TypedInv, NEW p \in Peers, Service(p)
  PROVE  TypedInv'
<1>1. /\ table' \in [Descriptors -> Owners \cup {Free}]
      /\ holds' \in [Owners -> Descriptors \cup {Invalid}]
      /\ interests' \subseteq Descriptors /\ IsFiniteSet(interests')
      /\ state' \in [Peers -> {"new", "connecting", "refused", "live", "dead"}]
      /\ unread' \in [Peers -> 0..MaxUnread]
  <2>1. CASE Dies(p) /\ unread' \in [Peers -> 0..MaxUnread]
    <3>1. /\ table' = Closed(p).table /\ holds' = Closed(p).holds /\ MayForget(holds[p])
          /\ state' = [state EXCEPT ![p] = "dead"]
      BY <2>1 DEF Dies
    <3>2. state' \in [Peers -> {"new", "connecting", "refused", "live", "dead"}]
      BY <3>1 DEF TypedInv, TypeOK
    <3>. QED BY <2>1, <3>1, <3>2, CloseTyped
  <2>2. CASE Reads(p) /\ unread' \in [Peers -> 0..MaxUnread]
    <3>1. /\ unread' \in [Peers -> 0..MaxUnread]
          /\ state' \in [Peers -> {"new", "connecting", "refused", "live", "dead"}]
      BY <2>2 DEF Reads, TypedInv, TypeOK
    <3>2. CASE UNCHANGED <<table, holds, interests>>
      BY <3>1, <3>2 DEF TypedInv, TypeOK
    <3>3. ASSUME NEW q \in Peers, table' = Closed(q).table, holds' = Closed(q).holds,
                 MayForget(holds[q])
          PROVE  /\ table' \in [Descriptors -> Owners \cup {Free}]
                 /\ holds' \in [Owners -> Descriptors \cup {Invalid}]
                 /\ interests' \subseteq Descriptors /\ IsFiniteSet(interests')
      BY <3>3, CloseTyped
    <3>. QED BY <2>2, <3>1, <3>2, <3>3 DEF Reads
  <2>3. CASE UNCHANGED <<table, holds, state, interests, unread>>
    BY <2>3 DEF TypedInv, TypeOK
  <2>4. [q \in Peers |-> IF q = ReadsFrom(p) THEN 0 ELSE unread[q]]
          \in [Peers -> 0..MaxUnread]
    BY EventLoopAssumption DEF TypedInv, TypeOK
  <2>. QED BY <2>1, <2>2, <2>3, <2>4 DEF Service
<1>2. events' \in Seq(PollEvents)
  BY DEF Service, Names, TypedInv, TypeOK
<1>. QED BY <1>1, <1>2 DEF Service, TypedInv, TypeOK

LEMMA AcceptTyped == TypedInv /\ Accept => TypedInv'
<1> SUFFICES ASSUME TypedInv, Accept
             PROVE  TypedInv'
  OBVIOUS
<1>1. PICK p \in backlog :
        /\ table' = [table EXCEPT ![Lowest] = p]
        /\ holds' = [holds EXCEPT ![p] = Lowest]
        /\ state' = [state EXCEPT ![p] = "live"]
        /\ interests' = Added(Lowest)
        /\ backlog' = backlog \ {p}
  BY DEF Accept
<1>2. Lowest \in Descriptors
  BY LowestFree DEF Accept
<1>3. interests' \subseteq Descriptors /\ IsFiniteSet(interests')
  BY <1>1, <1>2, InterestsTyped
<1>4. events' \in Seq(PollEvents)
  BY DEF Accept, Names, TypedInv, TypeOK
<1>. QED BY <1>1, <1>2, <1>3, <1>4 DEF Accept, TypedInv, TypeOK, Owners

LEMMA StepTyped == TypedInv /\ [Next]_vars => TypedInv'
<1> SUFFICES ASSUME TypedInv, [Next]_vars
             PROVE  TypedInv'
  OBVIOUS
<1>1. ASSUME NEW p \in Peers, PeerConnects(p) \/ PeerCloses(p)
      PROVE  TypedInv'
  BY <1>1 DEF PeerConnects, PeerCloses, TypedInv, TypeOK
<1>2. ASSUME NEW p \in Peers, PeerSends(p)
      PROVE  TypedInv'
  <2>1. unread[p] + 1 \in 0..MaxUnread
    BY <1>2, EventLoopAssumption DEF PeerSends, TypedInv, TypeOK
  <2>. QED BY <1>2, <2>1 DEF PeerSends, TypedInv, TypeOK
<1>3. ASSUME NEW p \in Peers, Register(p)
      PROVE  TypedInv'
  <2>1. holds[p] \in Descriptors \cup {Invalid}
    BY DEF TypedInv, TypeOK, Owners
  <2>2. interests' \subseteq Descriptors /\ IsFiniteSet(interests')
    BY <1>3, <2>1, InterestsTyped DEF Register
  <2>. QED BY <1>3, <2>2 DEF Register, TypedInv, TypeOK
<1>4. CASE Wait
  <2>1. events' \in Seq(PollEvents)
    BY <1>4, PolledTyped DEF Wait, TypedInv, TypeOK
  <2>. QED BY <1>4, <2>1 DEF Wait, TypedInv, TypeOK
<1>5. CASE Accept
  BY <1>5, AcceptTyped
<1>6. CASE AcceptRefused \/ AcceptNone \/ Ignore
  <2>1. events' \in Seq(PollEvents)
    <3>1. events # <<>> /\ events' = Tail(events)
      BY <1>6 DEF AcceptRefused, AcceptNone, Ignore, Names
    <3>2. events \in Seq(PollEvents)
      BY DEF TypedInv, TypeOK
    <3>. QED BY <3>1, <3>2
  <2>2. /\ state' \in [Peers -> {"new", "connecting", "refused", "live", "dead"}]
        /\ backlog' \subseteq Peers
        /\ UNCHANGED <<table, unread, gone, holds, interests>>
    BY <1>6 DEF AcceptRefused, AcceptNone, Ignore, TypedInv, TypeOK
  <2>. QED BY <2>1, <2>2 DEF TypedInv, TypeOK
<1>7. ASSUME NEW p \in Peers, Service(p)
      PROVE  TypedInv'
  BY <1>7, ServiceTyped
<1>8. CASE UNCHANGED vars
  BY <1>8 DEF vars, TypedInv, TypeOK
<1>. QED BY <1>1, <1>2, <1>3, <1>4, <1>5, <1>6, <1>7, <1>8 DEF Next, Loop, Serve

-----------------------------------------------------------------------------
(* The theorems.                                                             *)

\* Whatever the peers, the kernel and the callbacks do, every descriptor has
\* the one owner that claims it (socket.cpp, listener and connections): no
\* leak, and no close() of a descriptor that means another connection by now.
THEOREM DescriptorsHaveOneOwner == Spec => []OneOwner
<1>1. IInv => OneOwner
  BY DEF IInv
<1>. QED BY InitGood, StepGood, <1>1, PTL DEF Spec

\* A connection that an event names reads from its own peer: the event is
\* about a descriptor of the process, which the connection holds, and whoever
\* holds a descriptor owns it.
LEMMA ReadsItsOwn ==
  ASSUME IInv, TypedInv, NEW p \in Peers, Names(p)
  PROVE  ReadsFrom(p) = p
<1>1. First.descriptor \in Descriptors
  <2>1. events \in Seq(PollEvents) /\ events # <<>>
    BY DEF Names, TypedInv, TypeOK
  <2>2. First \in PollEvents
    BY <2>1 DEF First
  <2>. QED BY <2>2 DEF PollEvents
<1>2. holds[p] \in Descriptors /\ p \in Owners
  BY <1>1 DEF Names, Owners
<1>3. table[holds[p]] = p
  BY <1>2 DEF IInv, OneOwner
<1>. QED BY <1>2, <1>3 DEF ReadsFrom

\* A connection is ended only when its own peer is gone or has sent something,
\* also by an event that was polled when the descriptor meant another one:
\* what receive() returns then depends on who owns the descriptor by now.
THEOREM NobodyDiesOfAStaleEvent == Spec => StaleEventHarmless
<1> DEFINE Harmless == \A p \in Peers :
             state[p] = "live" /\ state'[p] = "dead" => p \in gone \/ unread[p] > 0
<1>1. ASSUME IInv, TypedInv, [Next]_vars,
             NEW p \in Peers, state[p] = "live", state'[p] = "dead"
      PROVE  p \in gone \/ unread[p] > 0
  <2>1. PICK q \in Peers : Service(q)
    BY <1>1 DEF IInv, Shape, Next, Loop, Serve, PeerConnects, PeerSends, PeerCloses, Register,
                Wait, Accept, AcceptRefused, AcceptNone, Ignore, vars
  <2>2. Dies(q) /\ p = q
    BY <1>1, <2>1 DEF IInv, Shape, Service, Dies, Reads
  <2>3. ReadsFrom(p) = p
    BY <1>1, <2>1, <2>2, ReadsItsOwn DEF Service
  <2>. QED BY <2>2, <2>3 DEF Dies, WouldBlock, HasRead
<1>2. IInv /\ TypedInv /\ [Next]_vars => Harmless
  BY <1>1
<1>. QED BY InitGood, StepGood, InitTyped, StepTyped, <1>2, PTL DEF Spec, StaleEventHarmless

\* Whatever descriptors are opened, closed and handed out again, the table,
\* the registrations and every batch of events name only descriptors the
\* process may have (Poller, Socket and Listener).
THEOREM TypeCorrect == Spec => []TypeOK
<1>1. TypedInv => TypeOK
  BY DEF TypedInv
<1>. QED BY InitTyped, StepTyped, <1>1, PTL DEF Spec
=============================================================================
