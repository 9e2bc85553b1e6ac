-------------------------- MODULE EventStreamProofs --------------------------
(***************************************************************************)
(* Proofs about EventStream, for any clients, events and joins and with    *)
(* failing commands: the type invariant, the order of what a client gets,  *)
(* the content of the replay buffer, and that a connection skips only what *)
(* its client has.                                                         *)
(***************************************************************************)
EXTENDS EventStream, FiniteSetTheorems, SequenceTheorems, WellFoundedInduction, TLAPS

(***************************************************************************)
(* What is filtered and cut when a connection loads.                       *)

\* Every set of natural numbers has a least one.
LEMMA Smallest ==
  ASSUME NEW S \in SUBSET Nat, S # {}
  PROVE  \E m \in S : \A n \in S : m <= n
<1>1. PICK m \in S : \A n \in S : ~ (<<n, m>> \in OpToRel(<, Nat))
  BY WFMin, NatLessThanWellFounded
<1>2. \A n \in S : ~ (n < m)
  BY <1>1 DEF OpToRel
<1> QED
  BY <1>2

\* Min finds it.
LEMMA MinIsLeast ==
  ASSUME NEW S \in SUBSET Nat, S # {}
  PROVE  Min(S) \in S /\ \A n \in S : Min(S) <= n
  BY Smallest DEF Min

\* The rank of a number in a set: how many come before it.
Rank(S, n) == Cardinality({j \in S : j < n})

\* Ranks grow, and every rank below the cardinality is that of one element.
LEMMA Ranks ==
  ASSUME NEW m \in Nat, NEW S, \A i \in S : i \in Nat /\ 1 <= i /\ i <= m
  PROVE  /\ Cardinality(S) \in Nat
         /\ \A n \in Nat : Rank(S, n) \in Nat
         /\ \A i, j \in S : i < j => Rank(S, i) < Rank(S, j)
         /\ \A i \in S : Rank(S, i) < Cardinality(S)
         /\ \A k \in 1..Cardinality(S) : \E i \in S : Rank(S, i) = k - 1
<1> DEFINE Before(n) == {j \in S : j < n}
<1>1. IsFiniteSet(S) /\ Cardinality(S) \in Nat
  BY FS_BoundedSetOfNaturals, FS_CardinalityType
<1>2. \A n \in Nat : IsFiniteSet(Before(n)) /\ Rank(S, n) \in Nat
  <2> TAKE n \in Nat
  <2>1. Before(n) \in SUBSET S
    OBVIOUS
  <2>2. IsFiniteSet(Before(n))
    BY <1>1, <2>1, FS_Subset
  <2> QED
    BY <2>2, FS_CardinalityType DEF Rank
<1>3. ASSUME NEW i \in S, NEW T \in SUBSET S, Before(i) \cup {i} \subseteq T
      PROVE  Rank(S, i) < Cardinality(T)
  <2>1. IsFiniteSet(T) /\ Cardinality(T) \in Nat
    BY <1>1, FS_Subset, FS_CardinalityType
  <2>2. i \notin Before(i) /\ i \in Nat
    OBVIOUS
  <2>3. Cardinality(Before(i) \cup {i}) = Rank(S, i) + 1
    BY <1>2, <2>2, FS_AddElement DEF Rank
  <2>4. Cardinality(Before(i) \cup {i}) <= Cardinality(T)
    BY <1>3, <2>1, FS_Subset
  <2>5. Rank(S, i) + 1 <= Cardinality(T)
    BY <2>3, <2>4
  <2>6. Rank(S, i) \in Nat
    BY <1>2, <2>2
  <2> HIDE DEF Before
  <2> QED
    BY <2>1, <2>5, <2>6
<1>4. \A i, j \in S : i < j => Rank(S, i) < Rank(S, j)
  <2> SUFFICES ASSUME NEW i \in S, NEW j \in S, i < j
               PROVE  Rank(S, i) < Rank(S, j)
    OBVIOUS
  <2>1. Before(i) \cup {i} \subseteq Before(j)
    OBVIOUS
  <2> QED
    BY <1>3, <2>1 DEF Rank
<1>5. \A i \in S : Rank(S, i) < Cardinality(S)
  BY <1>3
<1>6. ASSUME NEW k \in 1..Cardinality(S)
      PROVE  \E i \in S : Rank(S, i) = k - 1
  <2> DEFINE T == {n \in 1..m + 1 : Rank(S, n) >= k}
  <2>1. m + 1 \in T
    <3>1. Before(m + 1) = S
      OBVIOUS
    <3>2. Rank(S, m + 1) = Cardinality(S)
      BY <3>1 DEF Rank
    <3> QED
      BY <1>1, <3>2
  <2>2. PICK n \in T : \A l \in T : n <= l
    <3>1. T \in SUBSET Nat
      OBVIOUS
    <3> QED
      BY <2>1, <3>1, Smallest
  <2>3. n # 1
    <3>1. Before(1) = {}
      OBVIOUS
    <3>2. Rank(S, 1) = 0
      BY <3>1, FS_EmptySet DEF Rank
    <3> QED
      BY <3>2
  <2>4. n - 1 \in 1..m + 1 /\ n - 1 \notin T
    BY <2>2, <2>3
  <2>5. Rank(S, n - 1) < k /\ Rank(S, n - 1) \in Nat
    <3>1. n - 1 \in Nat
      BY <2>4
    <3>2. Rank(S, n - 1) \in Nat
      BY <1>2, <3>1
    <3>3. k \in Nat
      BY <1>1
    <3>4. ~ (Rank(S, n - 1) >= k)
      BY <2>4
    <3> QED
      BY <3>2, <3>3, <3>4
  <2>6. n - 1 \in S
    <3> SUFFICES ASSUME n - 1 \notin S
                 PROVE  FALSE
      OBVIOUS
    <3>1. Before(n) = Before(n - 1)
      BY <2>4
    <3>2. Rank(S, n) = Rank(S, n - 1)
      BY <3>1 DEF Rank
    <3>3. Rank(S, n) >= k /\ k \in Nat
      BY <2>2, <1>1
    <3> QED
      BY <3>2, <3>3, <2>5
  <2>7. Rank(S, n) = Rank(S, n - 1) + 1
    <3>1. Before(n) = Before(n - 1) \cup {n - 1}
      BY <2>4, <2>6
    <3>2. n - 1 \notin Before(n - 1)
      OBVIOUS
    <3> QED
      BY <3>1, <3>2, <1>2, <2>4, FS_AddElement DEF Rank
  <2> QED
    <3>1. Rank(S, n) >= k /\ k \in Nat
      BY <2>2, <1>1
    <3>2. Rank(S, n - 1) = k - 1
      BY <3>1, <2>5, <2>7
    <3> QED
      BY <3>2, <2>6
<1> QED
  BY <1>1, <1>2, <1>4, <1>5, <1>6

\* The filter keeps what it should, in the order it was.
LEMMA FilterKeeps ==
  ASSUME NEW s \in Seq(Events), NEW f \in Nat
  PROVE  /\ FilterEventsFrom(s, f) \in Seq(Events)
         /\ \E place \in [1..Len(FilterEventsFrom(s, f)) -> 1..Len(s)] :
              /\ \A k \in 1..Len(FilterEventsFrom(s, f)) :
                   /\ FilterEventsFrom(s, f)[k] = s[place[k]]
                   /\ s[place[k]].id >= f
              /\ \A k, l \in 1..Len(FilterEventsFrom(s, f)) : k < l => place[k] < place[l]
         /\ \A i \in 1..Len(s) : s[i].id >= f =>
              \E k \in 1..Len(FilterEventsFrom(s, f)) : FilterEventsFrom(s, f)[k] = s[i]
<1> DEFINE kept == {i \in DOMAIN s : s[i].id >= f}
           n == Cardinality(kept)
           Place(k) == CHOOSE i \in kept : Rank(kept, i) = k - 1
           t == [k \in 1..n |-> s[Place(k)]]
<1>1. FilterEventsFrom(s, f) = t
  BY DEF FilterEventsFrom, Rank
<1>2. Len(s) \in Nat /\ DOMAIN s = 1..Len(s) /\ \A i \in 1..Len(s) : s[i] \in Events
  BY LenProperties
<1>3. \A i \in kept : i \in 1..Len(s) /\ i \in Nat /\ 1 <= i /\ i <= Len(s)
  BY <1>2
<1> HIDE DEF kept
<1>4. n \in Nat /\ \A i \in kept : Rank(kept, i) \in Nat /\ Rank(kept, i) < n
  BY <1>2, <1>3, Ranks
<1>5. \A k \in 1..n : Place(k) \in kept /\ Rank(kept, Place(k)) = k - 1
  BY <1>2, <1>3, Ranks
<1>6. \A i, j \in kept : i < j => Rank(kept, i) < Rank(kept, j)
  BY <1>2, <1>3, Ranks
<1> HIDE DEF n, Place
<1>7. \A k \in 1..n : t[k] = s[Place(k)] /\ t[k] \in Events
  BY <1>2, <1>3, <1>5
<1>8. t \in [1..n -> Events]
  BY <1>7
<1>9. t \in Seq(Events) /\ Len(t) = n
  BY <1>4, <1>8, SeqDef
<1>10. \A k, l \in 1..n : k < l => Place(k) < Place(l)
  <2> SUFFICES ASSUME NEW k \in 1..n, NEW l \in 1..n, k < l, ~ (Place(k) < Place(l))
               PROVE  FALSE
    OBVIOUS
  <2>1. Place(k) \in Nat /\ Place(l) \in Nat
    BY <1>2, <1>3, <1>5
  <2>2. Rank(kept, Place(k)) < Rank(kept, Place(l))
    BY <1>5, <1>4
  <2>3. Place(k) = Place(l) \/ Rank(kept, Place(l)) < Rank(kept, Place(k))
    BY <2>1, <1>5, <1>6
  <2>4. Rank(kept, Place(k)) \in Nat /\ Rank(kept, Place(l)) \in Nat
    BY <1>4, <1>5
  <2>5. Place(k) # Place(l)
    <3>1. Rank(kept, Place(k)) # Rank(kept, Place(l))
      BY <2>2, <2>4
    <3> QED
      BY <3>1
  <2> QED
    BY <2>2, <2>3, <2>4, <2>5
<1>11. ASSUME NEW i \in 1..Len(s), s[i].id >= f
       PROVE  \E k \in 1..n : t[k] = s[i]
  <2>1. i \in kept
    BY <1>2, <1>11 DEF kept
  <2> DEFINE k == Rank(kept, i) + 1
  <2>2. k \in 1..n
    BY <2>1, <1>4
  <2>3. Place(k) \in kept /\ Rank(kept, Place(k)) = Rank(kept, i)
    BY <2>1, <2>2, <1>4, <1>5
  <2>4. ~ (i < Place(k)) /\ ~ (Place(k) < i)
    <3>1. Rank(kept, i) \in Nat
      BY <2>1, <1>4
    <3>2. ~ (Rank(kept, i) < Rank(kept, i))
      BY <3>1
    <3> QED
      BY <2>1, <2>3, <3>2, <1>6
  <2>5. Place(k) = i
    <3>1. i \in Nat /\ Place(k) \in Nat
      BY <2>1, <2>3, <1>3
    <3> HIDE DEF k
    <3> QED
      BY <2>4, <3>1
  <2> QED
    BY <2>2, <2>5, <1>7
<1>12. \E place \in [1..n -> 1..Len(s)] :
         /\ \A k \in 1..n : t[k] = s[place[k]] /\ s[place[k]].id >= f
         /\ \A k, l \in 1..n : k < l => place[k] < place[l]
  <2> DEFINE place == [k \in 1..n |-> Place(k)]
  <2>1. place \in [1..n -> 1..Len(s)]
    BY <1>3, <1>5
  <2>2. \A k \in 1..n : t[k] = s[place[k]] /\ s[place[k]].id >= f
    BY <1>5, <1>7 DEF kept
  <2>3. \A k, l \in 1..n : k < l => place[k] < place[l]
    BY <1>10
  <2> HIDE DEF place
  <2> QED
    BY <2>1, <2>2, <2>3
<1> HIDE DEF t
<1>13. \E place \in [1..Len(t) -> 1..Len(s)] :
         /\ \A k \in 1..Len(t) : t[k] = s[place[k]] /\ s[place[k]].id >= f
         /\ \A k, l \in 1..Len(t) : k < l => place[k] < place[l]
  BY <1>9, <1>12
<1>14. \A i \in 1..Len(s) : s[i].id >= f => \E k \in 1..Len(t) : t[k] = s[i]
  BY <1>9, <1>11
<1> QED
  BY <1>1, <1>9, <1>13, <1>14

\* What is cut off begins after a terminal event.
LEMMA CutAtTerminal ==
  ASSUME NEW s \in Seq(Events)
  PROVE  /\ UpToTerminal(s) \in Seq(Events)
         /\ Len(UpToTerminal(s)) <= Len(s)
         /\ \A i \in 1..Len(UpToTerminal(s)) : UpToTerminal(s)[i] = s[i]
         /\ ~ EndsStream(UpToTerminal(s)) => UpToTerminal(s) = s
<1> DEFINE ends == {i \in DOMAIN s : IsTerminalStreamEvent(s[i])}
           m == Min(ends \cup {Len(s)})
<1>1. Len(s) \in Nat /\ DOMAIN s = 1..Len(s) /\ \A i \in 1..Len(s) : s[i] \in Events
  BY LenProperties
<1>2. UpToTerminal(s) = SubSeq(s, 1, m)
  BY DEF UpToTerminal
<1>3. \A i \in ends : i \in 1..Len(s) /\ IsTerminalStreamEvent(s[i])
  BY <1>1
<1> HIDE DEF ends
<1>4. ends \cup {Len(s)} \in SUBSET Nat /\ ends \cup {Len(s)} # {}
  BY <1>1, <1>3
<1>5. m \in ends \cup {Len(s)}
  BY <1>4, MinIsLeast
<1> HIDE DEF m
<1>6. m \in 0..Len(s)
  BY <1>1, <1>3, <1>5
<1>7. \A i \in 1..m : s[i] \in Events
  BY <1>1, <1>6
<1>8. /\ SubSeq(s, 1, m) \in Seq(Events)
      /\ Len(SubSeq(s, 1, m)) = IF 1 <= m THEN m - 1 + 1 ELSE 0
      /\ \A i \in 1..m - 1 + 1 : SubSeq(s, 1, m)[i] = s[1 + i - 1]
  BY <1>6, <1>7, SubSeqProperties
<1>9. Len(SubSeq(s, 1, m)) = m /\ \A i \in 1..m : SubSeq(s, 1, m)[i] = s[i]
  BY <1>1, <1>6, <1>8
<1> DEFINE u == SubSeq(s, 1, m)
<1>10. /\ u \in Seq(Events)
       /\ Len(u) = m
       /\ DOMAIN u = 1..m
       /\ \A i \in 1..m : u[i] = s[i]
  BY <1>8, <1>9, LenProperties
<1>11. m \in ends => EndsStream(u)
  <2>1. m \in ends => m \in 1..m /\ IsTerminalStreamEvent(s[m])
    BY <1>1, <1>3
  <2> HIDE DEF u
  <2> QED
    BY <2>1, <1>10 DEF EndsStream
<1>12. m = Len(s) => u = s
  BY <1>1, SubSeqFull
<1> HIDE DEF u
<1>13. m <= Len(s)
  BY <1>1, <1>6
<1> QED
  BY <1>2, <1>5, <1>10, <1>11, <1>12, <1>13 DEF u

-----------------------------------------------------------------------------
(* Lists of events in the order of their emission.                         *)

\* The events of s come in the order of their emission.
Ordered(s) == \A i, j \in DOMAIN s : i < j => s[i].n < s[j].n

\* What a connection writes when it has loaded s.
Initial(s, f) == UpToTerminal(FilterEventsFrom(s, f))

\* What is in a list is at one of its places.
LEMMA InRange ==
  ASSUME NEW s \in Seq(Events)
  PROVE  /\ Range(s) \subseteq Events
         /\ \A e : e \in Range(s) <=> \E i \in 1..Len(s) : e = s[i]
  BY LenProperties DEF Range

\* An event newer than all of a list goes at its end.
LEMMA AppendOne ==
  ASSUME NEW s \in Seq(Events), NEW e \in Events
  PROVE  /\ Append(s, e) \in Seq(Events)
         /\ Range(Append(s, e)) = Range(s) \cup {e}
         /\ Ordered(s) /\ (\A f \in Range(s) : f.n < e.n) => Ordered(Append(s, e))
<1>1. /\ Append(s, e) \in Seq(Events)
      /\ Len(Append(s, e)) = Len(s) + 1
      /\ \A i \in 1..Len(s) : Append(s, e)[i] = s[i]
      /\ Append(s, e)[Len(s) + 1] = e
  BY AppendProperties
<1>2. Len(s) \in Nat /\ DOMAIN s = 1..Len(s) /\ DOMAIN Append(s, e) = 1..Len(s) + 1
  BY <1>1, LenProperties
<1>3. \A i \in 1..Len(s) + 1 : i \in 1..Len(s) \/ i = Len(s) + 1
  BY <1>2
<1>4. Range(Append(s, e)) = Range(s) \cup {e}
  <2>1. \A f \in Range(Append(s, e)) : f \in Range(s) \cup {e}
    BY <1>1, <1>2, <1>3 DEF Range
  <2>2. e \in Range(Append(s, e))
    BY <1>1, <1>2 DEF Range
  <2>3. \A f \in Range(s) : f \in Range(Append(s, e))
    BY <1>1, <1>2 DEF Range
  <2> QED
    BY <2>1, <2>2, <2>3
<1>5. ASSUME Ordered(s), \A f \in Range(s) : f.n < e.n
      PROVE  Ordered(Append(s, e))
  <2> SUFFICES ASSUME NEW i \in 1..Len(s) + 1, NEW j \in 1..Len(s) + 1, i < j
               PROVE  Append(s, e)[i].n < Append(s, e)[j].n
    BY <1>2 DEF Ordered
  <2>1. i \in 1..Len(s)
    BY <1>2
  <2>2. Append(s, e)[i] = s[i] /\ s[i] \in Range(s)
    BY <1>1, <1>2, <2>1 DEF Range
  <2> QED
    BY <1>1, <1>2, <1>3, <1>5, <2>1, <2>2 DEF Ordered
<1> QED
  BY <1>1, <1>4, <1>5

\* The first event of an ordered list is older than the rest.
LEMMA TailOne ==
  ASSUME NEW s \in Seq(Events), s # <<>>
  PROVE  /\ Head(s) \in Events /\ Tail(s) \in Seq(Events)
         /\ Range(s) = {Head(s)} \cup Range(Tail(s))
         /\ Ordered(s) => Ordered(Tail(s)) /\ \A e \in Range(Tail(s)) : Head(s).n < e.n
<1>1. /\ Head(s) \in Events /\ Tail(s) \in Seq(Events)
      /\ Len(Tail(s)) = Len(s) - 1
      /\ \A i \in 1..Len(Tail(s)) : Tail(s)[i] = s[i + 1]
  BY HeadTailProperties
<1>2. Len(s) \in Nat \ {0} /\ DOMAIN s = 1..Len(s) /\ DOMAIN Tail(s) = 1..Len(s) - 1
  BY <1>1, LenProperties, EmptySeq
<1>3. Head(s) = s[1]
  OBVIOUS
<1>4. \A i \in 1..Len(s) - 1 : i + 1 \in 1..Len(s) /\ 1 < i + 1 /\ Tail(s)[i] = s[i + 1]
  BY <1>1, <1>2
<1>5. \A i \in 1..Len(s) : i = 1 \/ (i - 1 \in 1..Len(s) - 1 /\ Tail(s)[i - 1] = s[i])
  <2> TAKE i \in 1..Len(s)
  <2>1. i = 1 \/ (i - 1 \in 1..Len(s) - 1 /\ i - 1 + 1 = i)
    BY <1>2
  <2> QED
    BY <1>4, <2>1
<1>6. Range(s) = {Head(s)} \cup Range(Tail(s))
  <2>1. ASSUME NEW e \in Range(s)
        PROVE  e \in {Head(s)} \cup Range(Tail(s))
    <3>1. PICK i \in 1..Len(s) : e = s[i]
      BY <1>2 DEF Range
    <3>2. ASSUME i # 1
          PROVE  e \in Range(Tail(s))
      <4>1. i - 1 \in DOMAIN Tail(s) /\ Tail(s)[i - 1] = e
        BY <1>2, <1>5, <3>1, <3>2
      <4> QED
        BY <4>1 DEF Range
    <3> QED
      BY <1>3, <3>1, <3>2
  <2>2. Head(s) \in Range(s)
    BY <1>2, <1>3 DEF Range
  <2>3. \A e \in Range(Tail(s)) : e \in Range(s)
    BY <1>2, <1>4 DEF Range
  <2> QED
    BY <2>1, <2>2, <2>3
<1>7. ASSUME Ordered(s)
      PROVE  Ordered(Tail(s)) /\ \A e \in Range(Tail(s)) : Head(s).n < e.n
  <2>1. \A i, j \in 1..Len(s) - 1 : i < j => Tail(s)[i].n < Tail(s)[j].n
    <3> TAKE i, j \in 1..Len(s) - 1
    <3>1. i < j => i + 1 < j + 1
      BY <1>2
    <3> QED
      BY <1>2, <1>4, <1>7, <3>1 DEF Ordered
  <2>2. \A i \in 1..Len(s) - 1 : s[1].n < Tail(s)[i].n
    BY <1>2, <1>4, <1>7 DEF Ordered
  <2> QED
    BY <1>2, <1>3, <2>1, <2>2 DEF Ordered, Range
<1> QED
  BY <1>1, <1>6, <1>7

\* Of two ordered lists, the older first, comes an ordered one.
LEMMA ConcatTwo ==
  ASSUME NEW s \in Seq(Events), NEW t \in Seq(Events)
  PROVE  /\ s \o t \in Seq(Events)
         /\ Range(s \o t) = Range(s) \cup Range(t)
         /\ Ordered(s) /\ Ordered(t) /\ (\A e \in Range(s), f \in Range(t) : e.n < f.n)
              => Ordered(s \o t)
<1>1. /\ s \o t \in Seq(Events)
      /\ Len(s \o t) = Len(s) + Len(t)
      /\ \A i \in 1..Len(s) + Len(t) :
           (s \o t)[i] = IF i <= Len(s) THEN s[i] ELSE t[i - Len(s)]
  BY ConcatProperties
<1>2. /\ Len(s) \in Nat /\ DOMAIN s = 1..Len(s)
      /\ Len(t) \in Nat /\ DOMAIN t = 1..Len(t)
      /\ DOMAIN (s \o t) = 1..Len(s) + Len(t)
  BY <1>1, LenProperties
<1>3. ASSUME Ordered(s), Ordered(t), \A e \in Range(s), f \in Range(t) : e.n < f.n
      PROVE  Ordered(s \o t)
  <2> SUFFICES ASSUME NEW i \in 1..Len(s) + Len(t), NEW j \in 1..Len(s) + Len(t), i < j
               PROVE  (s \o t)[i].n < (s \o t)[j].n
    BY <1>2 DEF Ordered
  <2>1. CASE j <= Len(s)
    <3>1. i \in 1..Len(s) /\ j \in 1..Len(s) /\ i <= Len(s)
      BY <1>2, <2>1
    <3> QED
      BY <1>1, <1>2, <1>3, <2>1, <3>1 DEF Ordered
  <2>2. CASE i <= Len(s) /\ ~ (j <= Len(s))
    <3>1. i \in 1..Len(s) /\ j - Len(s) \in 1..Len(t)
      BY <1>2, <2>2
    <3>2. s[i] \in Range(s) /\ t[j - Len(s)] \in Range(t)
      BY <1>2, <3>1 DEF Range
    <3> QED
      BY <1>1, <1>3, <2>2, <3>2
  <2>3. CASE ~ (i <= Len(s)) /\ ~ (j <= Len(s))
    <3>1. i - Len(s) \in 1..Len(t) /\ j - Len(s) \in 1..Len(t) /\ i - Len(s) < j - Len(s)
      BY <1>2, <2>3
    <3> QED
      BY <1>1, <1>2, <1>3, <2>3, <3>1 DEF Ordered
  <2>4. i <= Len(s) \/ ~ (j <= Len(s))
    BY <1>2
  <2> QED
    BY <2>1, <2>2, <2>3, <2>4
<1> QED
  BY <1>1, <1>3, RangeConcatenation

\* What a connection writes when it has loaded s: events of s with the ids it
\* asked for, in the order of s, all of them unless a terminal one ends the stream.
LEMMA InitialEvents ==
  ASSUME NEW s \in Seq(Events), NEW f \in Nat
  PROVE  /\ Initial(s, f) \in Seq(Events)
         /\ \A e \in Range(Initial(s, f)) : e \in Range(s) /\ e.id >= f
         /\ Ordered(s) => Ordered(Initial(s, f))
         /\ ~ EndsStream(Initial(s, f)) =>
              \A e \in Range(s) : e.id >= f => e \in Range(Initial(s, f))
<1> DEFINE t == FilterEventsFrom(s, f)
           u == UpToTerminal(t)
<1>1. t \in Seq(Events)
  BY FilterKeeps
<1>2. PICK place \in [1..Len(t) -> 1..Len(s)] :
        /\ \A k \in 1..Len(t) : t[k] = s[place[k]] /\ s[place[k]].id >= f
        /\ \A k, l \in 1..Len(t) : k < l => place[k] < place[l]
  BY FilterKeeps
<1>3. \A i \in 1..Len(s) : s[i].id >= f => \E k \in 1..Len(t) : t[k] = s[i]
  BY FilterKeeps
<1> HIDE DEF t
<1>4. /\ u \in Seq(Events)
      /\ Len(u) <= Len(t)
      /\ \A i \in 1..Len(u) : u[i] = t[i]
      /\ ~ EndsStream(u) => u = t
  BY <1>1, CutAtTerminal
<1>5. Initial(s, f) = u
  BY DEF Initial, t
<1> HIDE DEF u
<1>6. /\ Len(s) \in Nat /\ DOMAIN s = 1..Len(s)
      /\ Len(t) \in Nat /\ DOMAIN t = 1..Len(t)
      /\ Len(u) \in Nat /\ DOMAIN u = 1..Len(u)
  BY <1>1, <1>4, LenProperties
<1>7. \A i \in 1..Len(u) : i \in 1..Len(t) /\ u[i] = s[place[i]] /\ s[place[i]].id >= f
  BY <1>2, <1>4, <1>6
<1>8. \A e \in Range(u) : e \in Range(s) /\ e.id >= f
  BY <1>2, <1>6, <1>7 DEF Range
<1>9. ASSUME Ordered(s)
      PROVE  Ordered(u)
  <2> SUFFICES ASSUME NEW i \in 1..Len(u), NEW j \in 1..Len(u), i < j
               PROVE  u[i].n < u[j].n
    BY <1>6 DEF Ordered
  <2>1. place[i] \in 1..Len(s) /\ place[j] \in 1..Len(s) /\ place[i] < place[j]
    BY <1>2, <1>7
  <2> QED
    BY <2>1, <1>6, <1>7, <1>9 DEF Ordered
<1>10. ASSUME ~ EndsStream(u), NEW e \in Range(s), e.id >= f
       PROVE  e \in Range(u)
  <2>1. PICK i \in 1..Len(s) : e = s[i]
    BY <1>6 DEF Range
  <2>2. PICK k \in 1..Len(t) : t[k] = e
    BY <2>1, <1>3, <1>10
  <2> QED
    BY <2>2, <1>4, <1>6, <1>10 DEF Range
<1> QED
  BY <1>4, <1>5, <1>8, <1>9, <1>10

-----------------------------------------------------------------------------
(* Types.                                                                  *)

\* The worker stops in time.
Bounded == emitted < MaxEvents \/ (wend /\ wpc # "idle")

\* run_queued is an event.
LEMMA QueuedType == Queued \in Events /\ Queued.n = 0 /\ Queued.id = 1
  BY EventStreamAssumption DEF Queued, Events, Names

\* A PUBLISH only touches the lists of what is under way.
LEMMA PublishType ==
  ASSUME TypeOK, NEW e \in Events, Publish(e)
  PROVE  /\ inbox' \in [Clients -> Seq(Events)]
         /\ failed' \subseteq {"lost", "clock", "expired", "lapsed"}
<1>1. CASE Reaches(e) /\ UNCHANGED failed
  <2>1. \A c \in Clients : Append(inbox[c], e) \in Seq(Events) /\ inbox[c] \in Seq(Events)
    BY AppendProperties DEF TypeOK
  <2> QED
    BY <1>1, <2>1 DEF TypeOK, Reaches
<1>2. CASE "lost" \in Faults /\ failed' = failed \cup {"lost"} /\ UNCHANGED inbox
  BY <1>2 DEF TypeOK
<1> QED
  BY <1>1, <1>2 DEF Publish

\* An RPUSH only touches the buffer.
LEMMA PushType ==
  ASSUME TypeOK, NEW e \in Events, Push(e)
  PROVE  buffer' \in Seq(Events) /\ failed' \subseteq {"lost", "clock", "expired", "lapsed"}
<1>1. Append(buffer, e) \in Seq(Events)
  BY AppendProperties DEF TypeOK
<1> QED
  BY <1>1 DEF TypeOK, Push

\* The worker's steps keep the types, and the number of events bounded.
LEMMA WorkerTypes ==
  ASSUME TypeOK, Bounded, WorkerStep \/ WorkerCrash
  PROVE  TypeOK' /\ Bounded'
<1>1. MaxEvents \in Nat \ {0} /\ ClockId \in Nat
  BY EventStreamAssumption
<1>2. AfterEvent \in {"idle", "purge", "done"} /\ (AfterEvent = "idle" => ~wend)
  BY DEF AfterEvent
<1>3. ASSUME EmitEvent
      PROVE  TypeOK' /\ Bounded'
  <2>1. PICK id \in NextEventIds, name \in {"progress"} \cup Ends, end \in BOOLEAN :
          /\ emitted + 1 = MaxEvents => end
          /\ wev' = [id |-> id, n |-> emitted + 1, name |-> name]
          /\ wend' = end
          /\ row' = (row /\ ~(end /\ name = "run_rolled_back"))
          /\ failed' = failed \cup (IF id = ClockId THEN {"clock"} ELSE {})
    BY <1>3 DEF EmitEvent
  <2>2. emitted \in 0..MaxEvents /\ emitted < MaxEvents /\ emitted \in Nat
    BY <1>1, <1>3 DEF EmitEvent, TypeOK, Bounded
  <2>3. emitted + 1 \in 0..MaxEvents
    BY <1>1, <2>2
  <2>4. id \in Nat
    <3>1. Len(buffer) \in Nat
      BY LenProperties DEF TypeOK
    <3> QED
      BY <1>1, <3>1 DEF NextEventIds
  <2>5. name \in Names
    BY DEF Names
  <2>6. wev' \in Events
    BY <2>1, <2>3, <2>4, <2>5 DEF Events
  <2>7. wend' \in BOOLEAN /\ row' \in BOOLEAN /\ failed' \subseteq {"lost", "clock", "expired", "lapsed"}
    BY <2>1 DEF TypeOK
  <2>8. /\ emitted' = emitted + 1 /\ wpc' = "publish"
        /\ UNCHANGED <<run, buffer, memory, cancel, torn, conns>>
    BY <1>3 DEF EmitEvent
  <2>9. TypeOK'
    BY <2>3, <2>6, <2>7, <2>8 DEF TypeOK, run, conns
  <2>10. Bounded'
    BY <1>1, <2>1, <2>2, <2>8 DEF Bounded
  <2> QED
    BY <2>9, <2>10
<1>4. ASSUME PublishEvent
      PROVE  TypeOK' /\ Bounded'
  <2>1. inbox' \in [Clients -> Seq(Events)] /\ failed' \subseteq {"lost", "clock", "expired", "lapsed"}
    BY <1>4, PublishType DEF PublishEvent, TypeOK
  <2>2. wpc' \in {"push", "idle", "purge", "done"} /\ (wpc' = "idle" => ~wend)
    BY <1>2, <1>4 DEF PublishEvent
  <2>3. UNCHANGED <<run, row, buffer, memory, wev, wend, emitted, cancel, torn,
                    pc, sub, from, last, log, joins>>
    BY <1>4 DEF PublishEvent
  <2> QED
    BY <2>1, <2>2, <2>3 DEF TypeOK, run, Bounded
<1>5. ASSUME PushEvent
      PROVE  TypeOK' /\ Bounded'
  <2>1. buffer' \in Seq(Events) /\ failed' \subseteq {"lost", "clock", "expired", "lapsed"}
    BY <1>5, PushType DEF PushEvent, TypeOK
  <2>2. wpc' \in {"idle", "purge", "done"} /\ (wpc' = "idle" => ~wend)
    BY <1>2, <1>5 DEF PushEvent
  <2>3. UNCHANGED <<run, row, memory, wev, wend, emitted, cancel, torn, conns>>
    BY <1>5 DEF PushEvent
  <2> QED
    BY <2>1, <2>2, <2>3 DEF TypeOK, run, conns, Bounded
<1>6. ASSUME PurgeBuffer
      PROVE  TypeOK' /\ Bounded'
  BY <1>6 DEF PurgeBuffer, TypeOK, Bounded, run, conns
<1>7. ASSUME WorkerCrash
      PROVE  TypeOK' /\ Bounded'
  BY <1>7 DEF WorkerCrash, TypeOK, Bounded, run, conns
<1> QED
  BY <1>3, <1>4, <1>5, <1>6, <1>7 DEF WorkerStep

\* So do those of the connections.
LEMMA ConnectionTypes ==
  ASSUME TypeOK, NEW c \in Clients,
         \/ CreateSubscribe(c) \/ PublishQueued(c) \/ StoreQueued(c)
         \/ JoinRunStream(c) \/ SubscriptionTakesEffect(c)
         \/ ConnectionStep(c) \/ HangUp(c)
  PROVE  TypeOK'
<1>1. \A s \in {"away", "create", "queue", "store", "load", "live"} :
        GoTo(c, s) => pc' \in [Clients -> {"away", "create", "queue", "store", "load", "live"}]
  BY DEF GoTo, TypeOK
<1>2. StartSubscription(c) => sub' \in [Clients -> BOOLEAN]
  BY DEF StartSubscription, TypeOK
<1>3. ASSUME Close(c)
      PROVE  /\ pc' \in [Clients -> {"away", "create", "queue", "store", "load", "live"}]
             /\ sub' \in [Clients -> BOOLEAN]
             /\ inbox' \in [Clients -> Seq(Events)]
  <2>1. <<>> \in Seq(Events)
    OBVIOUS
  <2> QED
    BY <1>1, <1>3, <2>1 DEF Close, TypeOK
<1>4. ASSUME GoLiveWithQueued(c)
      PROVE  /\ pc' \in [Clients -> {"away", "create", "queue", "store", "load", "live"}]
             /\ log' \in [Clients -> Seq(Events)]
             /\ last' \in [Clients -> Nat]
             /\ memory' \in Seq(Events)
  <2>1. <<Queued>> \in Seq(Events) /\ Queued.id \in Nat
    BY QueuedType
  <2>2. Append(memory, Queued) \in Seq(Events)
    BY QueuedType, AppendProperties DEF TypeOK
  <2>3. log' \in [Clients -> Seq(Events)] /\ last' \in [Clients -> Nat]
    BY <1>4, <2>1 DEF GoLiveWithQueued, TypeOK
  <2> QED
    BY <1>1, <1>4, <2>2, <2>3 DEF GoLiveWithQueued
<1>5. ASSUME CreateSubscribe(c)
      PROVE  TypeOK'
  BY <1>1, <1>2, <1>5 DEF CreateSubscribe, TypeOK, run, worker
<1>6. ASSUME PublishQueued(c)
      PROVE  TypeOK'
  <2>1. inbox' \in [Clients -> Seq(Events)] /\ failed' \subseteq {"lost", "clock", "expired", "lapsed"}
    BY <1>6, QueuedType, PublishType DEF PublishQueued
  <2>2. /\ pc' \in [Clients -> {"away", "create", "queue", "store", "load", "live"}]
        /\ log' \in [Clients -> Seq(Events)]
        /\ last' \in [Clients -> Nat]
        /\ memory' \in Seq(Events)
    <3>1. CASE GoTo(c, "store") /\ UNCHANGED <<log, last, memory>>
      BY <1>1, <3>1 DEF TypeOK
    <3> QED
      BY <1>4, <1>6, <3>1 DEF PublishQueued
  <2>3. UNCHANGED <<run, row, buffer, worker, cancel, torn, sub, from, joins>>
    BY <1>6 DEF PublishQueued
  <2> QED
    BY <2>1, <2>2, <2>3 DEF TypeOK, run, worker
<1>7. ASSUME StoreQueued(c)
      PROVE  TypeOK'
  <2>1. buffer' \in Seq(Events) /\ failed' \subseteq {"lost", "clock", "expired", "lapsed"}
    BY <1>7, QueuedType, PushType DEF StoreQueued
  <2>2. UNCHANGED <<run, row, worker, cancel, torn, sub, inbox, from, joins>>
    BY <1>7 DEF StoreQueued
  <2> QED
    BY <1>4, <1>7, <2>1, <2>2 DEF StoreQueued, TypeOK, run, worker
<1>8. ASSUME JoinRunStream(c)
      PROVE  TypeOK'
  <2>1. PICK f \in ParseStartFrom(c) :
          /\ from' = [from EXCEPT ![c] = f]
          /\ log' = [log EXCEPT ![c] = IF f = 0 THEN <<>> ELSE @]
    BY <1>8 DEF JoinRunStream
  <2>2. f \in Nat
    <3>1. \A i \in {Len(log[c])} \ {0} : log[c][i] \in Events
      BY LenProperties DEF TypeOK
    <3>2. \A e \in Events : e.id + 1 \in Nat
      BY DEF Events
    <3> QED
      BY <3>1, <3>2 DEF ParseStartFrom
  <2>3. from' \in [Clients -> Nat]
    BY <2>1, <2>2 DEF TypeOK
  <2>4. log' \in [Clients -> Seq(Events)]
    <3>1. <<>> \in Seq(Events) /\ log[c] \in Seq(Events)
      BY DEF TypeOK
    <3> QED
      BY <2>1, <3>1 DEF TypeOK
  <2>5. last' \in [Clients -> Nat]
    BY <1>8 DEF JoinRunStream, TypeOK
  <2>6. joins' \in [Clients -> 0..MaxJoins]
    <3>1. joins[c] \in 0..MaxJoins /\ joins[c] < MaxJoins /\ MaxJoins \in Nat
      BY <1>8, EventStreamAssumption DEF JoinRunStream, TypeOK
    <3>2. joins[c] + 1 \in 0..MaxJoins
      BY <3>1
    <3> QED
      BY <1>8, <3>2 DEF JoinRunStream, TypeOK
  <2>7. /\ StartSubscription(c) /\ GoTo(c, "load")
        /\ UNCHANGED <<run, failed, row, buffer, memory, worker, cancel, torn, inbox>>
    BY <1>8 DEF JoinRunStream
  <2> QED
    BY <1>1, <1>2, <2>3, <2>4, <2>5, <2>6, <2>7 DEF TypeOK, run, worker
<1>9. ASSUME SubscriptionTakesEffect(c)
      PROVE  TypeOK'
  BY <1>9 DEF SubscriptionTakesEffect, TypeOK, run, worker
<1>10. ASSUME Load(c)
       PROVE  TypeOK'
  <2>1. PICK events \in LoadEvents :
          /\ log' = [log EXCEPT ![c] = @ \o Initial(events, from[c])]
          /\ last' = [last EXCEPT ![c] =
               IF Initial(events, from[c]) = <<>> THEN 0
               ELSE Initial(events, from[c])[Len(Initial(events, from[c]))].id]
          /\ IF EndsStream(Initial(events, from[c])) THEN Close(c)
             ELSE GoTo(c, "live") /\ UNCHANGED <<sub, inbox>>
    BY <1>10 DEF Load, Initial
  <2>2. events \in Seq(Events) /\ from[c] \in Nat
    <3>1. events \in {buffer, memory, <<>>}
      BY DEF LoadEvents
    <3>2. <<>> \in Seq(Events)
      OBVIOUS
    <3> QED
      BY <3>1, <3>2 DEF TypeOK
  <2> DEFINE u == Initial(events, from[c])
  <2>3. u \in Seq(Events)
    BY <2>2, InitialEvents
  <2> HIDE DEF u
  <2>4. log' \in [Clients -> Seq(Events)]
    <3>1. log[c] \o u \in Seq(Events)
      BY <2>3, ConcatProperties DEF TypeOK
    <3> QED
      BY <2>1, <3>1 DEF TypeOK, u
  <2>5. last' \in [Clients -> Nat]
    <3>1. u # <<>> => u[Len(u)] \in Events
      BY <2>3, LenProperties, EmptySeq
    <3>2. (IF u = <<>> THEN 0 ELSE u[Len(u)].id) \in Nat
      BY <3>1 DEF Events
    <3>3. last' = [last EXCEPT ![c] = IF u = <<>> THEN 0 ELSE u[Len(u)].id]
      BY <2>1 DEF u
    <3> QED
      BY <3>2, <3>3 DEF TypeOK
  <2>6. /\ pc' \in [Clients -> {"away", "create", "queue", "store", "load", "live"}]
        /\ sub' \in [Clients -> BOOLEAN]
        /\ inbox' \in [Clients -> Seq(Events)]
    <3>1. Close(c) \/ (GoTo(c, "live") /\ UNCHANGED <<sub, inbox>>)
      BY <2>1
    <3> QED
      BY <1>1, <1>3, <3>1 DEF TypeOK
  <2>7. UNCHANGED <<run, failed, row, buffer, memory, worker, cancel, torn, from, joins>>
    BY <1>10 DEF Load
  <2> QED
    BY <2>4, <2>5, <2>6, <2>7 DEF TypeOK, run, worker
<1>11. ASSUME Forward(c)
       PROVE  TypeOK'
  <2>1. inbox[c] \in Seq(Events) /\ inbox[c] # <<>>
    BY <1>11 DEF Forward, TypeOK
  <2>2. Head(inbox[c]) \in Events /\ Tail(inbox[c]) \in Seq(Events)
    BY <2>1, HeadTailProperties
  <2>3. Append(log[c], Head(inbox[c])) \in Seq(Events)
    BY <2>2, AppendProperties DEF TypeOK
  <2>4. Head(inbox[c]).id \in Nat
    BY <2>2 DEF Events
  <2>5. inbox' = [inbox EXCEPT ![c] = Tail(@)] => inbox' \in [Clients -> Seq(Events)]
    BY <2>2 DEF TypeOK
  <2>6. log' \in [Clients -> Seq(Events)] /\ last' \in [Clients -> Nat]
    <3>1. \/ UNCHANGED <<log, last>>
          \/ /\ log' = [log EXCEPT ![c] = Append(@, Head(inbox[c]))]
             /\ last' = [last EXCEPT ![c] = Head(inbox[c]).id]
      BY <1>11 DEF Forward
    <3>2. log \in [Clients -> Seq(Events)] /\ last \in [Clients -> Nat]
      BY DEF TypeOK
    <3> QED
      BY <2>3, <2>4, <3>1, <3>2
  <2>7. /\ pc' \in [Clients -> {"away", "create", "queue", "store", "load", "live"}]
        /\ sub' \in [Clients -> BOOLEAN]
        /\ inbox' \in [Clients -> Seq(Events)]
    <3>1. \/ Close(c)
          \/ inbox' = [inbox EXCEPT ![c] = Tail(@)] /\ UNCHANGED <<pc, sub>>
      BY <1>11 DEF Forward
    <3> QED
      BY <1>3, <2>5, <3>1 DEF TypeOK
  <2>8. UNCHANGED <<run, failed, row, buffer, memory, worker, cancel, torn, from, joins>>
    BY <1>11 DEF Forward
  <2> QED
    BY <2>6, <2>7, <2>8 DEF TypeOK, run, worker
<1>12. ASSUME HangUp(c)
       PROVE  TypeOK'
  <2>1. UNCHANGED <<run, failed, row, buffer, memory, worker, cancel, torn, from, last, log, joins>>
    BY <1>12 DEF HangUp
  <2> QED
    BY <1>3, <1>12, <2>1 DEF HangUp, TypeOK, run, worker
<1> QED
  BY <1>5, <1>6, <1>7, <1>8, <1>9, <1>10, <1>11, <1>12 DEF ConnectionStep

\* A connection leaves the worker alone.
LEMMA ConnectionFrame ==
  ASSUME NEW c \in Clients,
         \/ CreateSubscribe(c) \/ PublishQueued(c) \/ StoreQueued(c)
         \/ JoinRunStream(c) \/ SubscriptionTakesEffect(c)
         \/ ConnectionStep(c) \/ HangUp(c)
  PROVE  UNCHANGED <<run, row, worker, cancel, torn>>
  BY DEF CreateSubscribe, PublishQueued, StoreQueued, JoinRunStream, SubscriptionTakesEffect,
         ConnectionStep, Load, Forward, HangUp

\* Every step keeps the types.
LEMMA TypeStep ==
  ASSUME TypeOK, Bounded, [Next]_vars
  PROVE  TypeOK' /\ Bounded'
<1>1. ASSUME NEW c \in Clients,
             \/ CreateSubscribe(c) \/ PublishQueued(c) \/ StoreQueued(c)
             \/ JoinRunStream(c) \/ SubscriptionTakesEffect(c)
             \/ ConnectionStep(c) \/ HangUp(c)
      PROVE  TypeOK' /\ Bounded'
  BY <1>1, ConnectionTypes, ConnectionFrame DEF Bounded, worker
<1>2. ASSUME CancelRollback \/ CancelPurge
      PROVE  TypeOK' /\ Bounded'
  <2>1. <<>> \in Seq(Events) /\ {d \in Clients : pc[d] = "load"} \subseteq Clients
    OBVIOUS
  <2>2. row' \in BOOLEAN /\ buffer' \in Seq(Events) /\ torn' \subseteq Clients
    BY <1>2, <2>1 DEF CancelRollback, CancelPurge, TypeOK
  <2>3. cancel' \in {"none", "purge", "done"}
    BY <1>2 DEF CancelRollback, CancelPurge
  <2>4. UNCHANGED <<run, failed, memory, worker, conns>>
    BY <1>2 DEF CancelRollback, CancelPurge
  <2> QED
    BY <2>2, <2>3, <2>4 DEF TypeOK, Bounded, run, worker, conns
<1>3. ASSUME UNCHANGED vars
      PROVE  TypeOK' /\ Bounded'
  <2>1. TypeOK'
    BY <1>3 DEF vars, TypeOK, run, worker, conns
  <2>2. Bounded'
    BY <1>3 DEF vars, Bounded, run, worker, conns
  <2> QED
    BY <2>1, <2>2
<1>4. ASSUME ExpireBuffer
      PROVE  TypeOK' /\ Bounded'
  <2>1. buffer' \in Seq(Events) /\ failed' \subseteq {"lost", "clock", "expired", "lapsed"}
    BY <1>4 DEF ExpireBuffer, TypeOK
  <2>2. UNCHANGED <<run, row, memory, worker, cancel, torn, conns>>
    BY <1>4 DEF ExpireBuffer
  <2> QED
    BY <2>1, <2>2 DEF TypeOK, Bounded, run, worker, conns
<1> QED
  BY <1>1, <1>2, <1>3, <1>4, WorkerTypes DEF Next

\* The first state is well typed.
LEMMA TypeInit ==
  ASSUME Init
  PROVE  TypeOK /\ Bounded
<1>1. MaxEvents \in Nat \ {0} /\ MaxJoins \in Nat /\ 0 \in 0..MaxEvents /\ 0 \in 0..MaxJoins
  BY EventStreamAssumption
<1>2. resumable \in BOOLEAN /\ opener \in Clients \cup {NoClient}
  BY EventStreamAssumption DEF Init
<1>3. pc \in [Clients -> {"away", "create", "queue", "store", "load", "live"}]
  BY DEF Init
<1>4. /\ sub \in [Clients -> BOOLEAN]
      /\ inbox \in [Clients -> Seq(Events)]
      /\ log \in [Clients -> Seq(Events)]
      /\ from \in [Clients -> Nat]
      /\ last \in [Clients -> Nat]
      /\ joins \in [Clients -> 0..MaxJoins]
  BY <1>1 DEF Init
<1>5. buffer \in Seq(Events) /\ memory \in Seq(Events) /\ wev \in Events
  BY QueuedType DEF Init
<1>6. /\ row \in BOOLEAN /\ wend \in BOOLEAN /\ failed \subseteq {"lost", "clock", "expired", "lapsed"}
      /\ wpc = "idle" /\ cancel = "none" /\ torn = {}
  BY DEF Init
<1>7. emitted = 0
  BY DEF Init
<1> QED
  BY <1>1, <1>2, <1>3, <1>4, <1>5, <1>6, <1>7 DEF TypeOK, Bounded

\* Every variable keeps its type: an event has an id and a name, and the worker
\* emits no more than it may.
THEOREM TypeCorrect == Spec => []TypeOK
<1>1. TypeOK /\ Bounded /\ [Next]_vars => (TypeOK /\ Bounded)'
  BY TypeStep
<1> QED
  BY <1>1, TypeInit, PTL DEF Spec

-----------------------------------------------------------------------------
(* The invariants.                                                         *)

\* Every event somebody holds.
Had == Range(buffer) \cup UNION {Range(inbox[c]) \cup Range(log[c]) : c \in Clients}

\* A rollback takes the row first; whoever is away holds no subscription.
RowInv ==
  /\ cancel # "none" => ~row
  /\ cancel # "done" => torn = {}
  /\ wend /\ wev.name = "run_rolled_back" /\ wpc \in {"publish", "push", "purge"} => ~row
  /\ wpc = "purge" => ~row
  /\ \A c \in Clients : pc[c] = "away" => inbox[c] = <<>> /\ ~sub[c]

\* Without a creator's stream only the worker numbers events, and what it has in
\* hand is newer than all it has let go.
EmissionInv ==
  OneNumbering =>
    /\ memory = <<>>
    /\ \A c \in Clients : pc[c] \in {"away", "load", "live"}
    /\ \A e \in Had : 1 <= e.n /\ e.n <= emitted
    /\ wpc \in {"publish", "push"} =>
         1 <= emitted /\ wev.n = emitted /\ \A e \in Range(buffer) : e.n < emitted
    /\ wpc = "publish" => \A e \in Had : e.n < emitted
    /\ Ordered(buffer)
    /\ \A c \in Clients : Ordered(inbox[c])

\* Until a rollback request deletes the buffer, ids grow with the emission,
\* though an event that was not stored shares its id with the next one.
NumberInv ==
  OneNumbering /\ cancel # "done" =>
    /\ \A e, f \in Had \cup {wev} : e.n <= f.n => e.id <= f.id
    /\ wpc \in {"idle", "publish", "push"} => \A e \in Had \cup {wev} : e.id <= Len(buffer) + 1

\* A connection that has yet to load asks for what follows its last event; one
\* that is live forwards only what is newer than all it has.
ClientInv ==
  OneNumbering => \A c \in Clients \ torn :
    /\ Ordered(log[c])
    /\ pc[c] = "load" =>
         /\ cancel # "done"
         /\ \A e \in Range(log[c]) : e.id < from[c]
    /\ pc[c] = "live" =>
         \A e \in Range(inbox[c]) : ~Skipped(c, e) => \A f \in Range(log[c]) : f.n < e.n

\* Undisturbed, the buffer is the emission but for the event in hand, until it
\* expires after the end.
BufferInv ==
  Undisturbed /\ resumable =>
    /\ \A i \in DOMAIN buffer : buffer[i].id = i /\ buffer[i].n = i
    /\ wpc = "idle" => Len(buffer) = emitted
    /\ wpc \in {"publish", "push"} => Len(buffer) = emitted - 1 /\ wev.id = emitted
    /\ wpc \in {"done", "dead"} /\ row =>
         \/ Len(buffer) \in {emitted, emitted - 1}
         \/ "lapsed" \in failed /\ buffer = <<>>

\* Undisturbed, what a connection has of the channel is what the buffer has or
\* will have, and it skips nothing it has not loaded.
ChannelInv ==
  Undisturbed /\ resumable =>
    /\ \A e \in Had : e.id = e.n /\ (e.n <= Len(buffer) => e = buffer[e.n])
    /\ wpc = "push" => \A e \in Had : e.n = emitted => e = wev
    /\ \A c \in Clients :
         /\ from[c] <= emitted + 1 /\ last[c] <= emitted
         /\ wpc = "publish" => from[c] <= emitted /\ last[c] < emitted
         /\ pc[c] = "load" => \A e \in Range(inbox[c]) : e.id >= from[c]
         /\ pc[c] = "live" => \A e \in Range(inbox[c]) : Skipped(c, e) => e \in Range(log[c])

-----------------------------------------------------------------------------
(* Rows and subscriptions.                                                 *)

\* Every step keeps RowInv.
LEMMA RowStep ==
  ASSUME TypeOK, RowInv, [Next]_vars
  PROVE  RowInv'
<1>1. ASSUME EmitEvent
      PROVE  RowInv'
  <2>1. PICK id \in NextEventIds, name \in {"progress"} \cup Ends, end \in BOOLEAN :
          /\ wev' = [id |-> id, n |-> emitted + 1, name |-> name]
          /\ wend' = end
          /\ row' = (row /\ ~(end /\ name = "run_rolled_back"))
    BY <1>1 DEF EmitEvent
  <2>2. wpc' = "publish" /\ UNCHANGED <<cancel, torn, pc, inbox, sub>>
    BY <1>1 DEF EmitEvent, conns
  <2>3. wev'.name = name
    BY <2>1
  <2> QED
    BY <2>1, <2>2, <2>3, Zenon DEF RowInv
<1>2. ASSUME PublishEvent
      PROVE  RowInv'
  <2>1. /\ wpc = "publish" /\ UNCHANGED <<cancel, torn, row, wev, wend, pc, sub>>
        /\ wpc' = "push" \/ wpc' = AfterEvent
    BY <1>2 DEF PublishEvent
  <2>2. \A c \in Clients : pc[c] = "away" => inbox'[c] = inbox[c]
    BY <1>2 DEF PublishEvent, Publish, Reaches, RowInv, TypeOK
  <2>3. AfterEvent = "purge" => wend /\ wev.name = "run_rolled_back"
    BY DEF AfterEvent
  <2> QED
    BY <2>1, <2>2, <2>3 DEF RowInv
<1>3. ASSUME PushEvent
      PROVE  RowInv'
  <2>1. AfterEvent = "purge" => wend /\ wev.name = "run_rolled_back"
    BY DEF AfterEvent
  <2>2. /\ wpc = "push" /\ wpc' = AfterEvent
        /\ UNCHANGED <<cancel, torn, row, wev, wend, pc, sub, inbox>>
    BY <1>3 DEF PushEvent, conns
  <2>3. AfterEvent \in {"idle", "purge", "done"}
    BY DEF AfterEvent
  <2> QED
    BY <2>1, <2>2, <2>3 DEF RowInv
<1>4. ASSUME PurgeBuffer \/ WorkerCrash \/ ExpireBuffer
      PROVE  RowInv'
  BY <1>4 DEF PurgeBuffer, WorkerCrash, ExpireBuffer, RowInv, worker, conns
<1>5. ASSUME CancelRollback
      PROVE  RowInv'
  BY <1>5 DEF CancelRollback, RowInv, worker, conns
<1>6. ASSUME CancelPurge
      PROVE  RowInv'
  BY <1>6 DEF CancelPurge, RowInv, worker, conns
<1>7. ASSUME NEW c \in Clients, CreateSubscribe(c) \/ PublishQueued(c) \/ StoreQueued(c)
      PROVE  RowInv'
  <2>1. UNCHANGED <<row, cancel, torn, wpc, wev, wend>>
    BY <1>7, ConnectionFrame DEF worker
  <2>2. pc[c] # "away" /\ \E s \in {"queue", "store", "live"} : pc' = [pc EXCEPT ![c] = s]
    BY <1>7 DEF CreateSubscribe, PublishQueued, StoreQueued, GoLiveWithQueued, GoTo
  <2>3. \A d \in Clients : pc'[d] = "away" => pc[d] = "away" /\ d # c
    BY <2>2 DEF TypeOK
  <2>4. \A d \in Clients \ {c} : sub'[d] = sub[d]
    BY <1>7 DEF CreateSubscribe, PublishQueued, StoreQueued, StartSubscription, TypeOK
  <2>5. \A d \in Clients : ~sub[d] => inbox'[d] = inbox[d]
    BY <1>7 DEF CreateSubscribe, PublishQueued, StoreQueued, Publish, Reaches, TypeOK
  <2> QED
    BY <2>1, <2>3, <2>4, <2>5 DEF RowInv
<1>8. ASSUME NEW c \in Clients, JoinRunStream(c) \/ SubscriptionTakesEffect(c)
      PROVE  RowInv'
  <2>1. UNCHANGED <<row, cancel, torn, wpc, wev, wend>>
    BY <1>8, ConnectionFrame DEF worker
  <2>2. \A d \in Clients : pc'[d] = "away" => pc[d] = "away" /\ d # c
    BY <1>8 DEF JoinRunStream, SubscriptionTakesEffect, GoTo, TypeOK
  <2>3. \A d \in Clients \ {c} : sub'[d] = sub[d]
    BY <1>8 DEF JoinRunStream, SubscriptionTakesEffect, StartSubscription, TypeOK
  <2>4. UNCHANGED inbox
    BY <1>8 DEF JoinRunStream, SubscriptionTakesEffect
  <2> QED
    BY <2>1, <2>2, <2>3, <2>4 DEF RowInv
<1>9. ASSUME NEW c \in Clients, ConnectionStep(c) \/ HangUp(c)
      PROVE  RowInv'
  <2>1. UNCHANGED <<row, cancel, torn, wpc, wev, wend>>
    BY <1>9, ConnectionFrame DEF worker
  <2>2. ASSUME Close(c)
        PROVE  \A d \in Clients : pc'[d] = "away" => inbox'[d] = <<>> /\ ~sub'[d]
    BY <2>2 DEF Close, GoTo, RowInv, TypeOK
  <2>3. ASSUME GoTo(c, "live"), UNCHANGED <<sub, inbox>>
        PROVE  \A d \in Clients : pc'[d] = "away" => inbox'[d] = <<>> /\ ~sub'[d]
    BY <2>3 DEF GoTo, RowInv, TypeOK
  <2>4. ASSUME pc[c] = "live", UNCHANGED <<pc, sub>>, inbox' = [inbox EXCEPT ![c] = Tail(@)]
        PROVE  \A d \in Clients : pc'[d] = "away" => inbox'[d] = <<>> /\ ~sub'[d]
    BY <2>4 DEF RowInv, TypeOK
  <2>5. \/ Close(c)
        \/ GoTo(c, "live") /\ UNCHANGED <<sub, inbox>>
        \/ /\ pc[c] = "live" /\ UNCHANGED <<pc, sub>>
           /\ inbox' = [inbox EXCEPT ![c] = Tail(@)]
    BY <1>9 DEF ConnectionStep, Load, Forward, HangUp
  <2> QED
    BY <2>1, <2>2, <2>3, <2>4, <2>5 DEF RowInv
<1>10. ASSUME UNCHANGED vars
       PROVE  RowInv'
  BY <1>10 DEF vars, RowInv, worker, conns
<1> QED
  BY <1>1, <1>2, <1>3, <1>4, <1>5, <1>6, <1>7, <1>8, <1>9, <1>10 DEF Next, WorkerStep

-----------------------------------------------------------------------------
(* Without a creator's stream.                                             *)

\* What everybody holds is an event.
LEMMA HadEvents ==
  ASSUME TypeOK
  PROVE  /\ Had \subseteq Events
         /\ \A e \in Had \cup {wev} : e.n \in Nat /\ e.id \in Nat
         /\ emitted \in Nat /\ Len(buffer) \in Nat
         /\ \A c \in Clients : from[c] \in Nat /\ last[c] \in Nat
<1>1. Range(buffer) \subseteq Events
  BY InRange DEF TypeOK
<1>2. \A c \in Clients : Range(inbox[c]) \subseteq Events /\ Range(log[c]) \subseteq Events
  BY InRange DEF TypeOK
<1>3. Had \subseteq Events
  BY <1>1, <1>2 DEF Had
<1>4. MaxEvents \in Nat
  BY EventStreamAssumption
<1>5. \A e \in Events : e.n \in Nat /\ e.id \in Nat
  BY <1>4 DEF Events
<1>6. emitted \in Nat /\ Len(buffer) \in Nat
  BY <1>4, LenProperties DEF TypeOK
<1> QED
  BY <1>3, <1>5, <1>6 DEF TypeOK

\* A connection loads the buffer, or nothing when LRANGE fails: in order, and with
\* the ids asked for.
LEMMA LoadEffect ==
  ASSUME TypeOK, EmissionInv, OneNumbering, NEW c \in Clients, Load(c)
  PROVE  /\ pc[c] = "load"
         /\ UNCHANGED <<run, row, buffer, memory, worker, failed, cancel, torn, from>>
         /\ \E u \in Seq(Events) :
              /\ log'[c] = log[c] \o u
              /\ last'[c] = IF u = <<>> THEN 0 ELSE u[Len(u)].id
              /\ \A d \in Clients \ {c} : log'[d] = log[d] /\ last'[d] = last[d]
              /\ \/ EndsStream(u) /\ Close(c)
                 \/ ~EndsStream(u) /\ GoTo(c, "live") /\ UNCHANGED <<sub, inbox>>
              /\ \A e \in Range(u) : e \in Range(buffer) /\ e.id >= from[c]
              /\ Ordered(u)
              /\ u # <<>> /\ ~EndsStream(u) =>
                   \A e \in Range(buffer) : e.id >= from[c] => e \in Range(u)
<1>1. PICK events \in LoadEvents :
          /\ log' = [log EXCEPT ![c] = @ \o Initial(events, from[c])]
          /\ last' = [last EXCEPT ![c] =
               IF Initial(events, from[c]) = <<>> THEN 0
               ELSE Initial(events, from[c])[Len(Initial(events, from[c]))].id]
          /\ IF EndsStream(Initial(events, from[c])) THEN Close(c)
             ELSE GoTo(c, "live") /\ UNCHANGED <<sub, inbox>>
  BY DEF Load, Initial
<1>2. events = buffer \/ events = <<>>
  BY DEF LoadEvents, EmissionInv
<1>3. /\ <<>> \in Seq(Events) /\ Ordered(<<>>) /\ Range(<<>>) = {}
      /\ buffer \in Seq(Events) /\ Ordered(buffer) /\ from[c] \in Nat
  BY DEF Ordered, Range, TypeOK, EmissionInv
<1> DEFINE u == Initial(events, from[c])
<1>4. /\ u \in Seq(Events) /\ Ordered(u)
      /\ \A e \in Range(u) : e \in Range(events) /\ e.id >= from[c]
      /\ ~EndsStream(u) => \A e \in Range(events) : e.id >= from[c] => e \in Range(u)
  BY <1>2, <1>3, InitialEvents
<1>5. /\ log' = [log EXCEPT ![c] = @ \o u]
      /\ last' = [last EXCEPT ![c] = IF u = <<>> THEN 0 ELSE u[Len(u)].id]
      /\ IF EndsStream(u) THEN Close(c) ELSE GoTo(c, "live") /\ UNCHANGED <<sub, inbox>>
  BY <1>1
<1> HIDE DEF u
<1>6. /\ log'[c] = log[c] \o u
      /\ last'[c] = IF u = <<>> THEN 0 ELSE u[Len(u)].id
      /\ \A d \in Clients \ {c} : log'[d] = log[d] /\ last'[d] = last[d]
  BY <1>5 DEF TypeOK
<1>7. \A e \in Range(u) : e \in Range(buffer) /\ e.id >= from[c]
  BY <1>2, <1>3, <1>4
<1>8. u # <<>> => events = buffer
  <2> SUFFICES ASSUME u # <<>>, events = <<>>
               PROVE  FALSE
    BY <1>2
  <2>1. Len(u) \in DOMAIN u
    BY <1>4, LenProperties, EmptySeq
  <2>2. u[Len(u)] \in Range(u)
    BY <2>1 DEF Range
  <2> QED
    BY <1>3, <1>4, <2>2
<1>9. pc[c] = "load" /\ UNCHANGED <<run, row, buffer, memory, worker, failed, cancel, torn, from>>
  BY DEF Load
<1>10. u # <<>> /\ ~EndsStream(u) =>
         \A e \in Range(buffer) : e.id >= from[c] => e \in Range(u)
  BY <1>4, <1>8
<1>11. \/ EndsStream(u) /\ Close(c)
       \/ ~EndsStream(u) /\ GoTo(c, "live") /\ UNCHANGED <<sub, inbox>>
  BY <1>5
<1> QED
  BY <1>4, <1>6, <1>7, <1>9, <1>10, <1>11

\* A connection that is closed.
LEMMA CloseEffect ==
  ASSUME TypeOK, NEW c \in Clients, Close(c)
  PROVE  /\ pc'[c] = "away" /\ inbox'[c] = <<>>
         /\ \A d \in Clients \ {c} : pc'[d] = pc[d] /\ inbox'[d] = inbox[d]
  BY DEF Close, GoTo, TypeOK

\* A connection forwards or skips the first message of the channel.
LEMMA ForwardEffect ==
  ASSUME TypeOK, NEW c \in Clients, Forward(c), NEW e, e = Head(inbox[c])
  PROVE  /\ pc[c] = "live" /\ inbox[c] # <<>>
         /\ e \in Events /\ e \in Range(inbox[c])
         /\ \/ Skipped(c, e) /\ log'[c] = log[c] /\ last'[c] = last[c]
            \/ ~Skipped(c, e) /\ log'[c] = Append(log[c], e) /\ last'[c] = e.id
         /\ \/ pc'[c] = "live" /\ inbox'[c] = Tail(inbox[c])
            \/ pc'[c] = "away" /\ inbox'[c] = <<>> /\ log'[c] # log[c]
         /\ \A d \in Clients \ {c} : /\ pc'[d] = pc[d] /\ inbox'[d] = inbox[d]
                                    /\ log'[d] = log[d] /\ last'[d] = last[d]
         /\ UNCHANGED <<run, row, buffer, memory, worker, failed, cancel, torn, from>>
<1>1. pc[c] = "live" /\ inbox[c] # <<>> /\ inbox[c] \in Seq(Events)
  BY DEF Forward, TypeOK
<1>2. e \in Events /\ e \in Range(inbox[c])
  BY <1>1, TailOne
<1>3. Append(log[c], e) # log[c]
  <2>1. log[c] \in Seq(Events) /\ Len(log[c]) \in Nat
    BY LenProperties DEF TypeOK
  <2>2. Len(Append(log[c], e)) = Len(log[c]) + 1
    BY <1>2, <2>1, AppendProperties
  <2> QED
    BY <2>1, <2>2
<1>4. UNCHANGED <<run, row, buffer, memory, worker, failed, cancel, torn, from>>
  BY DEF Forward
<1>5. CASE Skipped(c, e)
  <2>1. inbox' = [inbox EXCEPT ![c] = Tail(@)] /\ UNCHANGED <<pc, sub, log, last>>
    BY <1>5 DEF Forward
  <2>2. inbox'[c] = Tail(inbox[c]) /\ \A d \in Clients \ {c} : inbox'[d] = inbox[d]
    BY <2>1 DEF TypeOK
  <2> QED
    BY <1>1, <1>2, <1>4, <1>5, <2>1, <2>2
<1>6. CASE ~Skipped(c, e)
  <2>1. /\ log' = [log EXCEPT ![c] = Append(@, e)]
        /\ last' = [last EXCEPT ![c] = e.id]
        /\ Close(c) \/ (inbox' = [inbox EXCEPT ![c] = Tail(@)] /\ UNCHANGED <<pc, sub>>)
    BY <1>6 DEF Forward
  <2>2. log'[c] = Append(log[c], e) /\ last'[c] = e.id
    BY <2>1 DEF TypeOK
  <2>3. \A d \in Clients \ {c} : log'[d] = log[d] /\ last'[d] = last[d]
    BY <2>1 DEF TypeOK
  <2>4. CASE Close(c)
    BY <2>4, <1>1, <1>2, <1>3, <1>4, <1>6, <2>2, <2>3, CloseEffect
  <2>5. CASE inbox' = [inbox EXCEPT ![c] = Tail(@)] /\ UNCHANGED <<pc, sub>>
    <3>1. inbox'[c] = Tail(inbox[c]) /\ \A d \in Clients \ {c} : inbox'[d] = inbox[d]
      BY <2>5 DEF TypeOK
    <3> QED
      BY <2>5, <3>1, <1>1, <1>2, <1>4, <1>6, <2>2, <2>3
  <2> QED
    BY <2>1, <2>4, <2>5
<1> QED
  BY <1>5, <1>6

\* A client joins: it resumes after its last event, or forgets what it had.
LEMMA JoinEffect ==
  ASSUME TypeOK, NEW c \in Clients, JoinRunStream(c)
  PROVE  /\ pc[c] = "away" /\ row /\ pc'[c] = "load" /\ last'[c] = 0
         /\ \/ log'[c] = <<>> /\ from'[c] = 0
            \/ /\ log'[c] = log[c] /\ Len(log[c]) \in DOMAIN log[c]
               /\ from'[c] = log[c][Len(log[c])].id + 1
         /\ \A d \in Clients \ {c} : /\ pc'[d] = pc[d] /\ log'[d] = log[d]
                                    /\ from'[d] = from[d] /\ last'[d] = last[d]
         /\ UNCHANGED <<run, row, buffer, memory, worker, failed, cancel, torn, inbox>>
<1>1. PICK f \in ParseStartFrom(c) :
          /\ from' = [from EXCEPT ![c] = f]
          /\ log' = [log EXCEPT ![c] = IF f = 0 THEN <<>> ELSE @]
  BY DEF JoinRunStream
<1>2. /\ from'[c] = f /\ log'[c] = (IF f = 0 THEN <<>> ELSE log[c])
      /\ \A d \in Clients \ {c} : from'[d] = from[d] /\ log'[d] = log[d]
  BY <1>1 DEF TypeOK
<1>3. \/ f = 0
      \/ Len(log[c]) # 0 /\ f = log[c][Len(log[c])].id + 1
  BY <1>1 DEF ParseStartFrom
<1>4. Len(log[c]) # 0 => Len(log[c]) \in DOMAIN log[c]
  <2>1. log[c] \in Seq(Events)
    BY DEF TypeOK
  <2>2. Len(log[c]) \in Nat /\ DOMAIN log[c] = 1..Len(log[c])
    BY <2>1, LenProperties
  <2> QED
    BY <2>2
<1>5. /\ pc[c] = "away" /\ row
      /\ last' = [last EXCEPT ![c] = 0]
      /\ pc' = [pc EXCEPT ![c] = "load"]
      /\ UNCHANGED <<run, failed, row, buffer, memory, worker, cancel, torn, inbox>>
  BY DEF JoinRunStream, GoTo
<1>6. /\ pc'[c] = "load" /\ last'[c] = 0
      /\ \A d \in Clients \ {c} : pc'[d] = pc[d] /\ last'[d] = last[d]
  BY <1>5 DEF TypeOK
<1> QED
  BY <1>2, <1>3, <1>4, <1>5, <1>6

\* The steps of a connection, and what each may change of its lists.
LEMMA ConnectionEffect ==
  ASSUME TypeOK, EmissionInv, OneNumbering, NEW c \in Clients,
         \/ CreateSubscribe(c) \/ PublishQueued(c) \/ StoreQueued(c)
         \/ JoinRunStream(c) \/ SubscriptionTakesEffect(c)
         \/ ConnectionStep(c) \/ HangUp(c)
  PROVE  /\ UNCHANGED <<run, row, buffer, memory, worker, failed, cancel, torn>>
         /\ pc'[c] \in {"away", "load", "live"}
         /\ \A d \in Clients \ {c} : /\ pc'[d] = pc[d] /\ inbox'[d] = inbox[d]
                                    /\ log'[d] = log[d] /\ from'[d] = from[d]
                                    /\ last'[d] = last[d]
         /\ \/ inbox'[c] = inbox[c]
            \/ inbox'[c] = <<>>
            \/ inbox[c] # <<>> /\ inbox'[c] = Tail(inbox[c])
         /\ Range(log'[c]) \subseteq Range(log[c]) \cup Range(buffer) \cup Range(inbox[c])
         /\ \/ JoinRunStream(c) \/ Load(c) \/ Forward(c)
            \/ /\ UNCHANGED <<log, from, last>>
               /\ \/ UNCHANGED <<pc, inbox>>
                  \/ pc'[c] = "away"
<1>1. pc[c] \in {"away", "load", "live"}
  BY DEF EmissionInv
<1>2. ASSUME JoinRunStream(c)
      PROVE  /\ Range(log'[c]) \subseteq Range(log[c])
             /\ pc'[c] = "load"
             /\ \A d \in Clients \ {c} : pc'[d] = pc[d] /\ log'[d] = log[d]
                                        /\ from'[d] = from[d] /\ last'[d] = last[d]
             /\ UNCHANGED <<run, row, buffer, memory, worker, failed, cancel, torn, inbox>>
  <2>1. Range(<<>>) = {}
    BY DEF Range
  <2> QED
    BY <1>2, <2>1, JoinEffect
<1>3. ASSUME SubscriptionTakesEffect(c)
      PROVE  UNCHANGED <<run, row, buffer, memory, worker, failed, cancel, torn,
                         pc, inbox, from, last, log>>
  BY <1>3 DEF SubscriptionTakesEffect
<1>4. ASSUME Load(c)
      PROVE  /\ UNCHANGED <<run, row, buffer, memory, worker, failed, cancel, torn, from>>
             /\ pc'[c] \in {"away", "live"}
             /\ inbox'[c] \in {inbox[c], <<>>}
             /\ \A d \in Clients \ {c} : /\ pc'[d] = pc[d] /\ inbox'[d] = inbox[d]
                                        /\ log'[d] = log[d] /\ last'[d] = last[d]
             /\ Range(log'[c]) \subseteq Range(log[c]) \cup Range(buffer)
  <2>1. log[c] \in Seq(Events)
    BY DEF TypeOK
  <2>2. PICK u \in Seq(Events) :
          /\ log'[c] = log[c] \o u
          /\ \A d \in Clients \ {c} : log'[d] = log[d] /\ last'[d] = last[d]
          /\ Close(c) \/ (GoTo(c, "live") /\ UNCHANGED <<sub, inbox>>)
          /\ Range(u) \subseteq Range(buffer)
    BY <1>4, LoadEffect
  <2>3. /\ \A d \in Clients \ {c} : log'[d] = log[d] /\ last'[d] = last[d]
        /\ Close(c) \/ (GoTo(c, "live") /\ UNCHANGED <<sub, inbox>>)
        /\ UNCHANGED <<run, row, buffer, memory, worker, failed, cancel, torn, from>>
    BY <1>4, <2>2, LoadEffect
  <2>4. Range(log'[c]) \subseteq Range(log[c]) \cup Range(buffer)
    BY <2>1, <2>2, ConcatTwo
  <2>5. /\ pc'[c] \in {"away", "live"}
        /\ inbox'[c] \in {inbox[c], <<>>}
        /\ \A d \in Clients \ {c} : pc'[d] = pc[d] /\ inbox'[d] = inbox[d]
    <3>1. GoTo(c, "live") => pc'[c] = "live" /\ \A d \in Clients \ {c} : pc'[d] = pc[d]
      BY DEF GoTo, TypeOK
    <3> QED
      BY <2>3, <3>1, CloseEffect
  <2> QED
    BY <2>3, <2>4, <2>5
<1>5. ASSUME Forward(c)
      PROVE  /\ UNCHANGED <<run, row, buffer, memory, worker, failed, cancel, torn, from>>
             /\ pc'[c] \in {"away", "live"}
             /\ inbox'[c] = <<>> \/ (inbox[c] # <<>> /\ inbox'[c] = Tail(inbox[c]))
             /\ \A d \in Clients \ {c} : /\ pc'[d] = pc[d] /\ inbox'[d] = inbox[d]
                                        /\ log'[d] = log[d] /\ last'[d] = last[d]
             /\ Range(log'[c]) \subseteq Range(log[c]) \cup Range(inbox[c])
  <2> DEFINE e == Head(inbox[c])
  <2>1. /\ e \in Events /\ e \in Range(inbox[c])
        /\ log'[c] = log[c] \/ log'[c] = Append(log[c], e)
        /\ UNCHANGED <<run, row, buffer, memory, worker, failed, cancel, torn, from>>
        /\ \/ pc'[c] = "live" /\ inbox[c] # <<>> /\ inbox'[c] = Tail(inbox[c])
           \/ pc'[c] = "away" /\ inbox'[c] = <<>>
        /\ \A d \in Clients \ {c} : /\ pc'[d] = pc[d] /\ inbox'[d] = inbox[d]
                                   /\ log'[d] = log[d] /\ last'[d] = last[d]
    BY <1>5, ForwardEffect
  <2>2. log[c] \in Seq(Events)
    BY DEF TypeOK
  <2> HIDE DEF e
  <2>3. Range(log'[c]) \subseteq Range(log[c]) \cup Range(inbox[c])
    <3>1. Range(Append(log[c], e)) = Range(log[c]) \cup {e}
      BY <2>1, <2>2, AppendOne
    <3> QED
      BY <2>1, <3>1
  <2> QED
    BY <2>1, <2>3
<1>6. ASSUME HangUp(c)
      PROVE  /\ UNCHANGED <<run, row, buffer, memory, worker, failed, cancel, torn, from, log, last>>
             /\ pc'[c] = "away" /\ inbox'[c] = <<>>
             /\ \A d \in Clients \ {c} : pc'[d] = pc[d] /\ inbox'[d] = inbox[d]
  BY <1>6, CloseEffect DEF HangUp
<1>7. ~ CreateSubscribe(c) /\ ~ PublishQueued(c) /\ ~ StoreQueued(c)
  BY <1>1 DEF CreateSubscribe, PublishQueued, StoreQueued
<1>8. CASE JoinRunStream(c)
  BY <1>2, <1>8
<1>9. CASE SubscriptionTakesEffect(c)
  BY <1>1, <1>3, <1>9
<1>10. CASE Load(c)
  BY <1>4, <1>10
<1>11. CASE Forward(c)
  BY <1>5, <1>11
<1>12. CASE HangUp(c)
  BY <1>6, <1>12
<1> QED
  BY <1>7, <1>8, <1>9, <1>10, <1>11, <1>12 DEF ConnectionStep

\* The next event is numbered by the buffer.
LEMMA EmitEffect ==
  ASSUME TypeOK, OneNumbering', EmitEvent
  PROVE  /\ wpc = "idle" /\ wpc' = "publish" /\ emitted' = emitted + 1
         /\ wev'.n = emitted + 1 /\ wev'.id = Len(buffer) + 1
         /\ (failed \subseteq failed') /\ (row' => row)
         /\ UNCHANGED <<run, buffer, memory, cancel, torn, conns>>
<1>1. "clock" \notin failed'
  BY DEF OneNumbering
<1>2. PICK id \in NextEventIds, name \in {"progress"} \cup Ends, end \in BOOLEAN :
        /\ wev' = [id |-> id, n |-> emitted + 1, name |-> name]
        /\ row' = (row /\ ~(end /\ name = "run_rolled_back"))
        /\ failed' = failed \cup (IF id = ClockId THEN {"clock"} ELSE {})
  BY DEF EmitEvent
<1>3. wev'.n = emitted + 1 /\ wev'.id = Len(buffer) + 1
  BY <1>1, <1>2 DEF NextEventIds
<1>4. (failed \subseteq failed') /\ (row' => row)
  BY <1>2
<1>5. /\ wpc = "idle" /\ wpc' = "publish" /\ emitted' = emitted + 1
      /\ UNCHANGED <<run, buffer, memory, cancel, torn, conns>>
  BY DEF EmitEvent
<1> QED
  BY <1>3, <1>4, <1>5

\* The PUBLISH of an event: to all who listen, or to nobody.
LEMMA PublishEffect ==
  ASSUME TypeOK, PublishEvent
  PROVE  /\ wpc = "publish"
         /\ wpc' = IF resumable THEN "push" ELSE AfterEvent
         /\ AfterEvent \in {"idle", "purge", "done"}
         /\ \A c \in Clients : inbox'[c] = inbox[c] \/ inbox'[c] = Append(inbox[c], wev)
         /\ failed \subseteq failed'
         /\ UNCHANGED <<run, row, buffer, memory, wev, wend, emitted, cancel, torn,
                       pc, sub, from, last, log, joins>>
<1>1. AfterEvent \in {"idle", "purge", "done"}
  BY DEF AfterEvent
<1>2. CASE Reaches(wev) /\ UNCHANGED failed
  <2>1. \A c \in Clients : inbox'[c] = inbox[c] \/ inbox'[c] = Append(inbox[c], wev)
    BY <1>2 DEF Reaches
  <2> QED
    BY <1>1, <1>2, <2>1 DEF PublishEvent
<1>3. CASE "lost" \in Faults /\ failed' = failed \cup {"lost"} /\ UNCHANGED inbox
  BY <1>1, <1>3 DEF PublishEvent
<1> QED
  BY <1>2, <1>3 DEF PublishEvent, Publish

\* The RPUSH of an event.
LEMMA PushEffect ==
  ASSUME TypeOK, PushEvent
  PROVE  /\ wpc = "push" /\ wpc' = AfterEvent
         /\ AfterEvent \in {"idle", "purge", "done"}
         /\ \/ buffer' = Append(buffer, wev) /\ failed' = failed
            \/ buffer' = buffer /\ "lost" \in failed'
         /\ UNCHANGED <<run, row, memory, wev, wend, emitted, cancel, torn, conns>>
<1>1. AfterEvent \in {"idle", "purge", "done"}
  BY DEF AfterEvent
<1> QED
  BY <1>1 DEF PushEvent, Push

\* Who created the run, and how, does not change.
LEMMA RunFrame ==
  ASSUME [Next]_vars
  PROVE  UNCHANGED run
<1>1. ASSUME NEW c \in Clients,
             \/ CreateSubscribe(c) \/ PublishQueued(c) \/ StoreQueued(c)
             \/ JoinRunStream(c) \/ SubscriptionTakesEffect(c)
             \/ ConnectionStep(c) \/ HangUp(c)
      PROVE  UNCHANGED run
  BY <1>1, ConnectionFrame
<1>2. ASSUME \/ WorkerStep \/ WorkerCrash \/ ExpireBuffer
             \/ CancelRollback \/ CancelPurge \/ UNCHANGED vars
      PROVE  UNCHANGED run
  BY <1>2 DEF WorkerStep, EmitEvent, PublishEvent, PushEvent, PurgeBuffer, WorkerCrash,
              ExpireBuffer, CancelRollback, CancelPurge, vars
<1> QED
  BY <1>1, <1>2 DEF Next

\* Who takes which kind of step.
LEMMA StepCases ==
  ASSUME [Next]_vars
  PROVE  \/ EmitEvent \/ PublishEvent \/ PushEvent \/ PurgeBuffer \/ WorkerCrash
         \/ ExpireBuffer \/ CancelRollback \/ CancelPurge \/ UNCHANGED vars
         \/ \E c \in Clients :
              \/ CreateSubscribe(c) \/ PublishQueued(c) \/ StoreQueued(c)
              \/ JoinRunStream(c) \/ SubscriptionTakesEffect(c)
              \/ ConnectionStep(c) \/ HangUp(c)
  BY DEF Next, WorkerStep

\* What has failed has failed.
LEMMA FailuresStay ==
  ASSUME [Next]_vars
  PROVE  failed \subseteq failed'
<1>1. ASSUME NEW c \in Clients,
             \/ CreateSubscribe(c) \/ PublishQueued(c) \/ StoreQueued(c)
             \/ JoinRunStream(c) \/ SubscriptionTakesEffect(c)
             \/ ConnectionStep(c) \/ HangUp(c)
      PROVE  failed \subseteq failed'
  BY <1>1 DEF CreateSubscribe, PublishQueued, StoreQueued, Publish, Push, JoinRunStream,
              SubscriptionTakesEffect, ConnectionStep, Load, Forward, HangUp
<1>2. ASSUME EmitEvent \/ PublishEvent \/ PushEvent
      PROVE  failed \subseteq failed'
  BY <1>2 DEF EmitEvent, PublishEvent, PushEvent, Publish, Push
<1>3. ASSUME \/ PurgeBuffer \/ WorkerCrash \/ ExpireBuffer
             \/ CancelRollback \/ CancelPurge \/ UNCHANGED vars
      PROVE  failed \subseteq failed'
  BY <1>3 DEF PurgeBuffer, WorkerCrash, ExpireBuffer, CancelRollback, CancelPurge, vars
<1> QED
  BY <1>1, <1>2, <1>3, StepCases

\* What a worker has numbered otherwise than by one buffer it cannot number again.
LEMMA NumberingStays ==
  ASSUME [Next]_vars, OneNumbering'
  PROVE  OneNumbering
  BY RunFrame, FailuresStay DEF OneNumbering, run

\* The buffer expires; where the worker is the only one to number events, it has
\* stopped by then.
LEMMA ExpireEffect ==
  ASSUME TypeOK, ExpireBuffer
  PROVE  /\ buffer' = <<>> /\ ~EmitEvent /\ ~PublishEvent /\ ~PushEvent
         /\ OneNumbering' => wpc \in {"done", "dead"} /\ "lapsed" \in failed'
         /\ UNCHANGED <<run, row, memory, worker, wpc, wev, wend, emitted, cancel, torn,
                       pc, sub, inbox, from, last, log, joins>>
<1>1. /\ buffer' = <<>>
      /\ UNCHANGED <<run, row, memory, worker, cancel, torn, conns>>
      /\ wpc \in {"done", "dead"} \/ "expired" \in failed'
      /\ wpc \in {"done", "dead"} => "lapsed" \in failed'
  BY DEF ExpireBuffer
<1>2. wpc' = wpc /\ AfterEvent \notin {"publish", "push"}
  BY <1>1 DEF worker, AfterEvent
<1>3. ~EmitEvent
  BY <1>2 DEF EmitEvent
<1>4. ~PublishEvent
  BY <1>2 DEF PublishEvent
<1>5. ~PushEvent
  BY <1>2 DEF PushEvent
<1>6. OneNumbering' => wpc \in {"done", "dead"} /\ "lapsed" \in failed'
  BY <1>1 DEF OneNumbering
<1> QED
  BY <1>1, <1>3, <1>4, <1>5, <1>6 DEF worker, conns

\* Only the worker lets events go, and only the one in hand.
LEMMA HadGrows ==
  ASSUME TypeOK, EmissionInv, OneNumbering, [Next]_vars
  PROVE  \/ Had' \subseteq Had
         \/ (PublishEvent \/ PushEvent) /\ Had' \subseteq Had \cup {wev}
<1>1. buffer \in Seq(Events) /\ wev \in Events
  BY DEF TypeOK
<1>2. \A c \in Clients : inbox[c] \in Seq(Events) /\ log[c] \in Seq(Events)
  BY DEF TypeOK
<1>3. \A e : e \in Had <=> e \in Range(buffer)
                           \/ \E c \in Clients : e \in Range(inbox[c]) \/ e \in Range(log[c])
  BY DEF Had
<1>4. \A e : e \in Had' <=> e \in Range(buffer')
                           \/ \E c \in Clients : e \in Range(inbox'[c]) \/ e \in Range(log'[c])
  BY DEF Had
<1>5. Range(<<>>) = {}
  BY DEF Range
<1>6. CASE EmitEvent
  <2>1. UNCHANGED <<buffer, inbox, log>>
    BY <1>6 DEF EmitEvent, conns
  <2> QED
    BY <2>1, <1>3, <1>4
<1>7. CASE PublishEvent
  <2>1. /\ \A c \in Clients : inbox'[c] = inbox[c] \/ inbox'[c] = Append(inbox[c], wev)
        /\ UNCHANGED <<buffer, log>>
    BY <1>7, PublishEffect
  <2>2. \A c \in Clients : Range(inbox'[c]) \subseteq Range(inbox[c]) \cup {wev}
    BY <1>1, <1>2, <2>1, AppendOne
  <2>3. ASSUME NEW e \in Had'
        PROVE  e \in Had \/ e = wev
    <3>1. e \in Range(buffer') \/ \E c \in Clients : e \in Range(inbox'[c]) \/ e \in Range(log'[c])
      BY <1>4
    <3>2. \/ e \in Range(buffer) \/ \E c \in Clients : e \in Range(inbox[c]) \/ e \in Range(log[c])
          \/ e = wev
      BY <2>1, <2>2, <3>1
    <3> QED
      BY <1>3, <3>2
  <2> QED
    BY <2>3, <1>7
<1>8. CASE PushEvent
  <2>1. /\ buffer' = buffer \/ buffer' = Append(buffer, wev)
        /\ UNCHANGED <<inbox, log>>
    BY <1>8, PushEffect DEF conns
  <2>2. Range(buffer') \subseteq Range(buffer) \cup {wev}
    BY <1>1, <2>1, AppendOne
  <2> QED
    BY <2>1, <2>2, <1>3, <1>4, <1>8
<1>9. CASE PurgeBuffer \/ CancelPurge \/ ExpireBuffer
  <2>1. buffer' = <<>> /\ UNCHANGED <<inbox, log>>
    BY <1>9, ExpireEffect DEF PurgeBuffer, CancelPurge, conns
  <2> QED
    BY <2>1, <1>3, <1>4, <1>5
<1>10. CASE WorkerCrash \/ CancelRollback \/ UNCHANGED vars
  <2>1. UNCHANGED <<buffer, inbox, log>>
    BY <1>10 DEF WorkerCrash, CancelRollback, vars, conns
  <2> QED
    BY <2>1, <1>3, <1>4
<1>11. ASSUME NEW c \in Clients,
              \/ CreateSubscribe(c) \/ PublishQueued(c) \/ StoreQueued(c)
              \/ JoinRunStream(c) \/ SubscriptionTakesEffect(c)
              \/ ConnectionStep(c) \/ HangUp(c)
       PROVE  Had' \subseteq Had
  <2>1. /\ UNCHANGED buffer
        /\ \A d \in Clients \ {c} : inbox'[d] = inbox[d] /\ log'[d] = log[d]
        /\ \/ inbox'[c] = inbox[c]
           \/ inbox'[c] = <<>>
           \/ inbox[c] # <<>> /\ inbox'[c] = Tail(inbox[c])
        /\ Range(log'[c]) \subseteq Range(log[c]) \cup Range(buffer) \cup Range(inbox[c])
    BY <1>11, ConnectionEffect
  <2>2. Range(inbox'[c]) \subseteq Range(inbox[c])
    <3>1. inbox[c] # <<>> => Range(Tail(inbox[c])) \subseteq Range(inbox[c])
      BY <1>2, TailOne
    <3> QED
      BY <1>5, <2>1, <3>1
  <2>3. \A d \in Clients : /\ Range(inbox'[d]) \subseteq Had
                           /\ Range(log'[d]) \subseteq Had
    BY <1>3, <2>1, <2>2
  <2>4. Range(buffer') \subseteq Had
    BY <1>3, <2>1
  <2> QED
    BY <1>4, <2>3, <2>4
<1> QED
  BY <1>6, <1>7, <1>8, <1>9, <1>10, <1>11, StepCases

\* Every step keeps EmissionInv.
LEMMA EmissionStep ==
  ASSUME TypeOK, EmissionInv, [Next]_vars
  PROVE  EmissionInv'
<1> SUFFICES ASSUME OneNumbering, OneNumbering'
             PROVE  /\ memory' = <<>>
                    /\ \A c \in Clients : pc'[c] \in {"away", "load", "live"}
                    /\ \A e \in Had' : 1 <= e.n /\ e.n <= emitted'
                    /\ wpc' \in {"publish", "push"} =>
                         /\ 1 <= emitted' /\ wev'.n = emitted'
                         /\ \A e \in Range(buffer') : e.n < emitted'
                    /\ wpc' = "publish" => \A e \in Had' : e.n < emitted'
                    /\ Ordered(buffer')
                    /\ \A c \in Clients : Ordered(inbox'[c])
  BY NumberingStays DEF EmissionInv, Ordered
<1>1. /\ memory = <<>>
      /\ \A c \in Clients : pc[c] \in {"away", "load", "live"}
      /\ \A e \in Had : 1 <= e.n /\ e.n <= emitted
      /\ wpc \in {"publish", "push"} =>
           1 <= emitted /\ wev.n = emitted /\ \A e \in Range(buffer) : e.n < emitted
      /\ wpc = "publish" => \A e \in Had : e.n < emitted
      /\ Ordered(buffer)
      /\ \A c \in Clients : Ordered(inbox[c])
  BY DEF EmissionInv
<1>2. /\ \A e \in Had \cup {wev} : e.n \in Nat
      /\ emitted \in Nat
      /\ Range(buffer) \subseteq Had
      /\ \A c \in Clients : Range(inbox[c]) \subseteq Had
  <2>1. /\ Range(buffer) \subseteq Had
        /\ \A c \in Clients : Range(inbox[c]) \subseteq Had
    BY DEF Had
  <2> QED
    BY <2>1, HadEvents
<1>3. /\ buffer \in Seq(Events) /\ wev \in Events
      /\ \A c \in Clients : inbox[c] \in Seq(Events)
  BY DEF TypeOK
<1>4. \/ Had' \subseteq Had
      \/ (PublishEvent \/ PushEvent) /\ Had' \subseteq Had \cup {wev}
  BY HadGrows
<1>5. Ordered(<<>>)
  BY DEF Ordered
<1>6. CASE EmitEvent
  <2>1. /\ wpc' = "publish" /\ emitted' = emitted + 1 /\ wev'.n = emitted + 1
        /\ UNCHANGED <<buffer, memory, pc, inbox>>
    BY <1>6, EmitEffect DEF conns
  <2>2. Had' \subseteq Had
    BY <1>6, <1>4, <2>1 DEF EmitEvent, PublishEvent, PushEvent
  <2>3. \A e \in Had : e.n < emitted + 1 /\ 1 <= e.n /\ e.n <= emitted + 1
    BY <1>1, <1>2
  <2>4. 1 <= emitted + 1
    BY <1>2
  <2> HIDE DEF Had
  <2> QED
    BY <1>1, <1>2, <2>1, <2>2, <2>3, <2>4
<1>7. CASE PublishEvent
  <2>1. /\ wpc = "publish" /\ wpc' \in {"push", "idle", "purge", "done"}
        /\ \A c \in Clients : inbox'[c] = inbox[c] \/ inbox'[c] = Append(inbox[c], wev)
        /\ UNCHANGED <<buffer, memory, wev, emitted, pc>>
    BY <1>7, PublishEffect
  <2>2. \A e \in Had \cup {wev} : 1 <= e.n /\ e.n <= emitted
    BY <1>1, <1>2, <2>1
  <2>3. \A c \in Clients : Ordered(inbox'[c])
    <3> TAKE c \in Clients
    <3>1. \A e \in Range(inbox[c]) : e.n < wev.n
      BY <1>1, <1>2, <2>1
    <3> QED
      BY <1>1, <1>3, <2>1, <3>1, AppendOne
  <2> QED
    BY <1>1, <1>4, <2>1, <2>2, <2>3
<1>8. CASE PushEvent
  <2>1. /\ wpc = "push" /\ wpc' \in {"idle", "purge", "done"}
        /\ buffer' = buffer \/ buffer' = Append(buffer, wev)
        /\ UNCHANGED <<memory, emitted, pc, inbox>>
    BY <1>8, PushEffect DEF conns
  <2>2. \A e \in Had \cup {wev} : 1 <= e.n /\ e.n <= emitted
    BY <1>1, <1>2, <2>1
  <2>3. Ordered(buffer')
    <3>1. \A e \in Range(buffer) : e.n < wev.n
      BY <1>1, <2>1
    <3> QED
      BY <1>1, <1>3, <2>1, <3>1, AppendOne
  <2> QED
    BY <1>1, <1>4, <2>1, <2>2, <2>3
<1>9. CASE PurgeBuffer \/ CancelPurge \/ ExpireBuffer
  <2>1. /\ buffer' = <<>> /\ UNCHANGED <<memory, wev, emitted, pc, inbox>>
        /\ wpc' = wpc \/ wpc' = "done"
    BY <1>9, ExpireEffect DEF PurgeBuffer, CancelPurge, worker, conns
  <2>2. Had' \subseteq Had
    <3>1. ~ PublishEvent /\ ~ PushEvent
      <4>1. CASE PurgeBuffer
        BY <4>1 DEF PurgeBuffer, PublishEvent, PushEvent
      <4>2. CASE CancelPurge
        BY <4>2 DEF CancelPurge, PublishEvent, PushEvent
      <4> QED
        BY <1>9, <4>1, <4>2, ExpireEffect
    <3> QED
      BY <3>1, <1>4
  <2>3. Range(buffer') = {}
    BY <2>1 DEF Range
  <2> QED
    BY <1>1, <1>5, <2>1, <2>2, <2>3
<1>10. CASE WorkerCrash \/ CancelRollback \/ UNCHANGED vars
  <2>1. /\ UNCHANGED <<buffer, inbox, log, memory, wev, emitted, pc>>
        /\ wpc' = wpc \/ wpc' = "dead"
    BY <1>10 DEF WorkerCrash, CancelRollback, vars, conns, worker
  <2>2. Had' = Had
    BY <2>1 DEF Had
  <2> QED
    BY <1>1, <2>1, <2>2
<1>11. ASSUME NEW c \in Clients,
              \/ CreateSubscribe(c) \/ PublishQueued(c) \/ StoreQueued(c)
              \/ JoinRunStream(c) \/ SubscriptionTakesEffect(c)
              \/ ConnectionStep(c) \/ HangUp(c)
       PROVE  /\ UNCHANGED <<buffer, memory, worker>>
              /\ \A d \in Clients : pc'[d] \in {"away", "load", "live"}
              /\ \A d \in Clients : Ordered(inbox'[d])
              /\ Had' \subseteq Had
  <2>1. /\ UNCHANGED <<buffer, memory, worker>>
        /\ pc'[c] \in {"away", "load", "live"}
        /\ \A d \in Clients \ {c} : pc'[d] = pc[d] /\ inbox'[d] = inbox[d]
        /\ \/ inbox'[c] = inbox[c]
           \/ inbox'[c] = <<>>
           \/ inbox[c] # <<>> /\ inbox'[c] = Tail(inbox[c])
    BY <1>11, ConnectionEffect
  <2>2. Ordered(inbox'[c])
    BY <1>1, <1>3, <1>5, <2>1, TailOne
  <2>3. Had' \subseteq Had
    <3>1. wpc' = wpc
      BY <2>1 DEF worker
    <3>2. ~ PushEvent
      <4>1. AfterEvent # "push"
        BY DEF AfterEvent
      <4> QED
        BY <3>1, <4>1 DEF PushEvent
    <3>3. ~ PublishEvent
      <4>1. AfterEvent # "publish"
        BY DEF AfterEvent
      <4> QED
        BY <3>1, <4>1 DEF PublishEvent
    <3> QED
      BY <3>2, <3>3, <1>4
  <2> QED
    BY <1>1, <2>1, <2>2, <2>3
<1>12. CASE \E c \in Clients :
              \/ CreateSubscribe(c) \/ PublishQueued(c) \/ StoreQueued(c)
              \/ JoinRunStream(c) \/ SubscriptionTakesEffect(c)
              \/ ConnectionStep(c) \/ HangUp(c)
  <2>1. /\ UNCHANGED <<buffer, memory, wpc, wev, emitted>>
        /\ \A d \in Clients : pc'[d] \in {"away", "load", "live"}
        /\ \A d \in Clients : Ordered(inbox'[d])
        /\ Had' \subseteq Had
    BY <1>11, <1>12 DEF worker
  <2> QED
    BY <1>1, <2>1
<1> QED
  BY <1>6, <1>7, <1>8, <1>9, <1>10, <1>12, StepCases

\* Every step but the next emission and the deletion of the buffer by a rollback
\* request lets go of nothing newly numbered.
LEMMA NothingNew ==
  ASSUME TypeOK, EmissionInv, OneNumbering, OneNumbering', [Next]_vars, ~EmitEvent,
         cancel' # "done"
  PROVE  /\ Had' \cup {wev'} \subseteq Had \cup {wev}
         /\ cancel # "done"
         /\ wpc' \in {"idle", "publish", "push"} =>
              wpc \in {"idle", "publish", "push"} /\ Len(buffer) <= Len(buffer')
<1>1. Had' \subseteq Had \cup {wev}
  BY HadGrows
<1>2. Len(buffer) \in Nat
  BY HadEvents
<1>3. CASE PublishEvent
  BY <1>1, <1>2, <1>3, PublishEffect
<1>4. CASE PushEvent
  <2>1. Len(Append(buffer, wev)) = Len(buffer) + 1
    BY AppendProperties DEF TypeOK
  <2>2. Len(buffer) <= Len(buffer')
    BY <1>2, <1>4, <2>1, PushEffect
  <2> QED
    BY <1>1, <1>4, <2>2, PushEffect
<1>5. CASE PurgeBuffer \/ WorkerCrash
  BY <1>1, <1>2, <1>5 DEF PurgeBuffer, WorkerCrash
<1>6. CASE CancelRollback \/ UNCHANGED vars
  BY <1>1, <1>2, <1>6 DEF CancelRollback, vars, worker
<1>7. CASE \E c \in Clients :
             \/ CreateSubscribe(c) \/ PublishQueued(c) \/ StoreQueued(c)
             \/ JoinRunStream(c) \/ SubscriptionTakesEffect(c)
             \/ ConnectionStep(c) \/ HangUp(c)
  <2>1. UNCHANGED <<worker, cancel, buffer>>
    BY <1>7, ConnectionEffect
  <2> QED
    BY <1>1, <1>2, <2>1 DEF worker
<1>8. ~CancelPurge
  BY DEF CancelPurge
<1>9. CASE ExpireBuffer
  BY <1>1, <1>9, ExpireEffect
<1> QED
  BY <1>3, <1>4, <1>5, <1>6, <1>7, <1>8, <1>9, StepCases

\* Every step keeps NumberInv.
LEMMA NumberStep ==
  ASSUME TypeOK, EmissionInv, NumberInv, [Next]_vars
  PROVE  NumberInv'
<1> SUFFICES ASSUME OneNumbering, OneNumbering', cancel' # "done"
             PROVE  /\ \A e, f \in Had' \cup {wev'} : e.n <= f.n => e.id <= f.id
                    /\ wpc' \in {"idle", "publish", "push"} =>
                         \A e \in Had' \cup {wev'} : e.id <= Len(buffer') + 1
  BY NumberingStays DEF NumberInv
<1>1. /\ \A e \in Had \cup {wev} : e.n \in Nat /\ e.id \in Nat
      /\ emitted \in Nat /\ Len(buffer) \in Nat
  BY HadEvents
<1>2. \A e \in Had : e.n <= emitted
  BY DEF EmissionInv
<1>3. CASE EmitEvent
  <2>1. /\ wpc = "idle" /\ wev'.n = emitted + 1 /\ wev'.id = Len(buffer) + 1
        /\ UNCHANGED <<buffer, cancel, conns>>
    BY <1>3, EmitEffect
  <2>2. Had' = Had
    BY <2>1 DEF Had, conns
  <2>3. /\ \A e, f \in Had : e.n <= f.n => e.id <= f.id
        /\ \A e \in Had : e.id <= Len(buffer) + 1
    BY <2>1 DEF NumberInv
  <2>4. \A e \in Had : e.id <= wev'.id /\ ~ (wev'.n <= e.n)
    BY <1>1, <1>2, <2>1, <2>3
  <2>5. wev'.id <= wev'.id /\ wev'.id <= Len(buffer) + 1
    BY <1>1, <2>1
  <2>6. buffer' = buffer
    BY <2>1
  <2> HIDE DEF Had
  <2> QED
    BY <2>2, <2>3, <2>4, <2>5, <2>6
<1>4. CASE ~EmitEvent
  <2>1. /\ Had' \cup {wev'} \subseteq Had \cup {wev}
        /\ cancel # "done"
        /\ wpc' \in {"idle", "publish", "push"} =>
             wpc \in {"idle", "publish", "push"} /\ Len(buffer) <= Len(buffer')
    BY <1>4, NothingNew
  <2>2. /\ \A e, f \in Had \cup {wev} : e.n <= f.n => e.id <= f.id
        /\ wpc \in {"idle", "publish", "push"} =>
             \A e \in Had \cup {wev} : e.id <= Len(buffer) + 1
    BY <2>1 DEF NumberInv
  <2>3. ASSUME wpc' \in {"idle", "publish", "push"}, NEW e \in Had' \cup {wev'}
        PROVE  e.id <= Len(buffer') + 1
    <3>1. Len(buffer') \in Nat
      <4>1. buffer' \in Seq(Events)
        <5>1. CASE UNCHANGED buffer
          BY <5>1 DEF TypeOK
        <5>2. CASE PushEvent
          BY <5>2, PushType DEF PushEvent, TypeOK
        <5>3. CASE buffer' = <<>>
          BY <5>3
        <5>4. PushEvent \/ UNCHANGED buffer \/ buffer' = <<>>
          <6>1. CASE \E c \in Clients :
                       \/ CreateSubscribe(c) \/ PublishQueued(c) \/ StoreQueued(c)
                       \/ JoinRunStream(c) \/ SubscriptionTakesEffect(c)
                       \/ ConnectionStep(c) \/ HangUp(c)
            BY <6>1, ConnectionEffect
          <6>2. CASE PublishEvent
            BY <6>2, PublishEffect
          <6>3. CASE \/ PurgeBuffer \/ ExpireBuffer \/ CancelPurge
                     \/ WorkerCrash \/ CancelRollback \/ UNCHANGED vars
            BY <6>3, Zenon DEF PurgeBuffer, ExpireBuffer, CancelPurge, WorkerCrash,
                               CancelRollback, vars
          <6> QED
            BY <1>4, <6>1, <6>2, <6>3, StepCases
        <5> QED
          BY <5>1, <5>2, <5>3, <5>4
      <4> QED
        BY <4>1, LenProperties
    <3>2. e \in Had \cup {wev} /\ e.id \in Nat
      BY <1>1, <2>1, <2>3
    <3>3. e.id <= Len(buffer) + 1
      BY <2>1, <2>2, <2>3, <3>2
    <3> QED
      BY <1>1, <2>1, <2>3, <3>1, <3>2, <3>3
  <2> QED
    BY <2>1, <2>2, <2>3
<1> QED
  BY <1>3, <1>4

\* The last event of an ordered list is the newest.
LEMMA LastIsNewest ==
  ASSUME NEW s \in Seq(Events), s # <<>>, Ordered(s)
  PROVE  /\ Len(s) \in DOMAIN s /\ s[Len(s)] \in Range(s)
         /\ \A e \in Range(s) : e.n <= s[Len(s)].n
<1>1. /\ Len(s) \in Nat \ {0} /\ DOMAIN s = 1..Len(s)
      /\ \A i \in 1..Len(s) : s[i] \in Events
  BY LenProperties, EmptySeq
<1>2. Len(s) \in DOMAIN s /\ s[Len(s)] \in Range(s)
  BY <1>1 DEF Range
<1>3. \A e \in Events : e.n \in Nat
  BY EventStreamAssumption DEF Events
<1>4. ASSUME NEW e \in Range(s)
      PROVE  e.n <= s[Len(s)].n
  <2>1. PICK i \in 1..Len(s) : e = s[i]
    BY <1>1 DEF Range
  <2>2. i \in Nat /\ Len(s) \in Nat /\ i <= Len(s)
    BY <1>1
  <2>3. i < Len(s) \/ i = Len(s)
    BY <2>2
  <2>4. e.n \in Nat /\ s[Len(s)].n \in Nat
    BY <1>1, <1>2, <1>3, <2>1
  <2>5. i < Len(s) => s[i].n < s[Len(s)].n
    BY <1>1 DEF Ordered
  <2>6. CASE i < Len(s)
    BY <2>1, <2>4, <2>5, <2>6
  <2>7. CASE i = Len(s)
    <3>1. e.n = s[Len(s)].n
      BY <2>1, <2>7
    <3> QED
      BY <2>4, <3>1
  <2> QED
    BY <2>3, <2>6, <2>7
<1> QED
  BY <1>2, <1>4

\* Every step keeps ClientInv.
LEMMA ClientStep ==
  ASSUME TypeOK, RowInv, EmissionInv, NumberInv, ClientInv, [Next]_vars
  PROVE  ClientInv'
<1> DEFINE Client(c) ==
      /\ Ordered(log[c])
      /\ pc[c] = "load" =>
           /\ cancel # "done"
           /\ \A e \in Range(log[c]) : e.id < from[c]
      /\ pc[c] = "live" =>
           \A e \in Range(inbox[c]) : ~Skipped(c, e) => \A f \in Range(log[c]) : f.n < e.n
<1> SUFFICES ASSUME OneNumbering, OneNumbering', NEW d \in Clients, d \notin torn'
             PROVE  Client(d)'
  BY NumberingStays DEF ClientInv
<1>1. \A c \in Clients \ torn : Client(c)
  BY DEF ClientInv
<1>2. /\ \A e \in Had \cup {wev} : e.n \in Nat /\ e.id \in Nat
      /\ emitted \in Nat /\ from[d] \in Nat /\ last[d] \in Nat
  BY HadEvents
<1>3. /\ Range(buffer) \subseteq Had /\ Range(inbox[d]) \subseteq Had
      /\ Range(log[d]) \subseteq Had
  BY DEF Had
<1>4. /\ buffer \in Seq(Events) /\ wev \in Events /\ inbox[d] \in Seq(Events)
      /\ log[d] \in Seq(Events)
  BY DEF TypeOK
<1>5. /\ wpc = "publish" => wev.n = emitted /\ \A e \in Had : e.n < emitted
      /\ Ordered(buffer) /\ Ordered(inbox[d])
  BY DEF EmissionInv
<1>6. ASSUME cancel # "done", NEW e \in Had, NEW f \in Had, f.id < e.id
      PROVE  f.n < e.n
  <2>1. e.n <= f.n => e.id <= f.id
    BY <1>6 DEF NumberInv
  <2> QED
    BY <1>2, <1>6, <2>1
<1>7. ASSUME UNCHANGED <<log, from, last, torn, cancel, inbox, pc>>
      PROVE  Client(d)'
  BY <1>1, <1>7 DEF Skipped
<1>8. CASE EmitEvent \/ PushEvent \/ PurgeBuffer \/ WorkerCrash \/ ExpireBuffer \/ UNCHANGED vars
  BY <1>7, <1>8 DEF EmitEvent, PushEvent, PurgeBuffer, WorkerCrash, ExpireBuffer, vars, conns
<1>9. CASE PublishEvent
  <2>1. /\ wpc = "publish"
        /\ inbox'[d] = inbox[d] \/ inbox'[d] = Append(inbox[d], wev)
        /\ UNCHANGED <<log, from, last, torn, cancel, pc>>
    BY <1>9, PublishEffect
  <2>2. Range(inbox'[d]) \subseteq Range(inbox[d]) \cup {wev}
    BY <1>4, <2>1, AppendOne
  <2>3. \A f \in Range(log[d]) : f.n < wev.n
    BY <1>3, <1>5, <2>1
  <2>4. Client(d)
    BY <1>1, <2>1
  <2> QED
    BY <2>1, <2>2, <2>3, <2>4 DEF Skipped
<1>10. CASE CancelRollback
  <2>1. /\ cancel # "done" /\ cancel' # "done"
        /\ UNCHANGED <<log, from, last, torn, inbox, pc>>
    BY <1>10 DEF CancelRollback, conns
  <2>2. Client(d)
    BY <1>1, <2>1
  <2> QED
    BY <2>1, <2>2 DEF Skipped
<1>11. CASE CancelPurge
  <2>1. /\ torn = {} /\ pc[d] # "load"
        /\ UNCHANGED <<log, from, last, inbox, pc>>
    BY <1>11 DEF CancelPurge, RowInv, conns
  <2>2. Client(d)
    BY <1>1, <2>1
  <2> QED
    BY <2>1, <2>2 DEF Skipped
<1>12. ASSUME NEW c \in Clients, JoinRunStream(c), c = d
       PROVE  Client(d)'
  <2>1. /\ row /\ pc'[d] = "load" /\ UNCHANGED <<cancel, torn>>
        /\ \/ log'[d] = <<>> /\ from'[d] = 0
           \/ /\ log'[d] = log[d] /\ Len(log[d]) \in DOMAIN log[d]
              /\ from'[d] = log[d][Len(log[d])].id + 1
    BY <1>12, JoinEffect
  <2>2. cancel # "done" /\ cancel' # "done" /\ d \notin torn
    BY <2>1 DEF RowInv
  <2>3. Ordered(log[d])
    BY <1>1, <2>2
  <2>4. CASE log'[d] = <<>>
    <3>1. Range(log'[d]) = {} /\ Ordered(log'[d])
      BY <2>4 DEF Range, Ordered
    <3> QED
      BY <2>1, <2>2, <3>1
  <2>5. CASE /\ log'[d] = log[d] /\ Len(log[d]) \in DOMAIN log[d]
             /\ from'[d] = log[d][Len(log[d])].id + 1
    <3>1. log[d] # <<>>
      BY <1>4, <2>5, LenProperties
    <3> DEFINE f == log[d][Len(log[d])]
    <3>2. f \in Had /\ \A e \in Range(log[d]) : e.n <= f.n
      BY <1>3, <1>4, <2>3, <3>1, LastIsNewest
    <3>3. ASSUME NEW e \in Range(log[d])
          PROVE  e.id < f.id + 1
      <4>1. e \in Had
        BY <1>3, <3>3
      <4>2. e.id <= f.id
        BY <2>2, <3>2, <3>3, <4>1 DEF NumberInv
      <4>3. e.id \in Nat /\ f.id \in Nat
        BY <1>2, <3>2, <4>1
      <4> HIDE DEF f
      <4> QED
        BY <4>2, <4>3
    <3> QED
      BY <2>1, <2>2, <2>3, <2>5, <3>3
  <2> QED
    BY <2>1, <2>4, <2>5
<1>13. ASSUME NEW c \in Clients, Load(c), c = d
       PROVE  Client(d)'
  <2>2. PICK u \in Seq(Events) :
          /\ log'[d] = log[d] \o u
          /\ last'[d] = IF u = <<>> THEN 0 ELSE u[Len(u)].id
          /\ Close(d) \/ (GoTo(d, "live") /\ UNCHANGED <<sub, inbox>>)
          /\ \A e \in Range(u) : e \in Range(buffer) /\ e.id >= from[d]
          /\ Ordered(u)
    BY <1>13, LoadEffect
  <2>1. /\ pc[d] = "load" /\ u \in Seq(Events)
        /\ log'[d] = log[d] \o u
        /\ last'[d] = IF u = <<>> THEN 0 ELSE u[Len(u)].id
        /\ Close(d) \/ (GoTo(d, "live") /\ UNCHANGED <<sub, inbox>>)
        /\ UNCHANGED <<cancel, torn, from>>
    BY <1>13, <2>2, LoadEffect
  <2>3. /\ cancel # "done" /\ Ordered(log[d])
        /\ \A e \in Range(log[d]) : e.id < from[d]
    BY <1>1, <2>1
  <2>4. \A e \in Range(log[d]), f \in Range(u) : e.n < f.n
    <3> TAKE e \in Range(log[d]), f \in Range(u)
    <3>1. e \in Had /\ f \in Had /\ e.id < from[d] /\ from[d] <= f.id
      BY <1>3, <2>2, <2>3
    <3>2. e.id \in Nat /\ f.id \in Nat /\ from[d] \in Nat
      BY <1>2, <3>1
    <3>3. e.id < f.id
      BY <3>1, <3>2
    <3> QED
      BY <1>6, <2>3, <3>1, <3>3
  <2>5. Ordered(log'[d]) /\ Range(log'[d]) = Range(log[d]) \cup Range(u)
    BY <1>4, <2>1, <2>2, <2>3, <2>4, ConcatTwo
  <2>6. CASE Close(d)
    <3>1. pc'[d] = "away"
      BY <2>6, CloseEffect
    <3> QED
      BY <2>5, <3>1
  <2>7. CASE GoTo(d, "live") /\ UNCHANGED <<sub, inbox>>
    <3>1. pc'[d] = "live" /\ inbox'[d] = inbox[d]
      BY <2>7 DEF GoTo, TypeOK
    <3>2. ASSUME NEW e \in Range(inbox[d]), ~ (e.id <= last'[d] \/ e.id < from[d]),
                 NEW f \in Range(log'[d])
          PROVE  f.n < e.n
      <4>1. e \in Had /\ e.id \in Nat
        BY <1>2, <1>3, <3>2
      <4>2. CASE f \in Range(log[d])
        <5>1. f \in Had /\ f.id \in Nat /\ f.id < from[d] /\ from[d] \in Nat
          BY <1>2, <1>3, <2>3, <4>2
        <5>2. f.id < e.id
          BY <3>2, <4>1, <5>1
        <5> QED
          BY <1>6, <2>3, <4>1, <5>1, <5>2
      <4>3. CASE f \in Range(u)
        <5>1. u # <<>>
          BY <4>3 DEF Range
        <5> DEFINE g == u[Len(u)]
        <5>2. g \in Range(u) /\ f.n <= g.n
          BY <2>1, <2>2, <4>3, <5>1, LastIsNewest
        <5>3. last'[d] = g.id
          BY <2>1, <5>1
        <5> HIDE DEF g
        <5>4. f \in Had /\ g \in Had
          BY <1>3, <2>2, <4>3, <5>2
        <5>5. f.id <= g.id
          BY <2>3, <5>2, <5>4 DEF NumberInv
        <5>6. f.id \in Nat /\ g.id \in Nat
          BY <1>2, <5>4
        <5>7. f.id < e.id
          BY <3>2, <4>1, <5>3, <5>5, <5>6
        <5> QED
          BY <1>6, <2>3, <4>1, <5>4, <5>7
      <4> QED
        BY <2>5, <3>2, <4>2, <4>3
    <3>3. from'[d] = from[d]
      BY <2>1
    <3> QED
      BY <2>5, <3>1, <3>2, <3>3 DEF Skipped
  <2> QED
    BY <2>1, <2>6, <2>7
<1>14. ASSUME NEW c \in Clients, Forward(c), c = d
       PROVE  Client(d)'
  <2> DEFINE e == Head(inbox[d])
  <2>1. /\ pc[d] = "live" /\ inbox[d] # <<>>
        /\ e \in Events /\ e \in Range(inbox[d])
        /\ \/ Skipped(d, e) /\ log'[d] = log[d] /\ last'[d] = last[d]
           \/ ~Skipped(d, e) /\ log'[d] = Append(log[d], e) /\ last'[d] = e.id
        /\ \/ pc'[d] = "live" /\ inbox'[d] = Tail(inbox[d])
           \/ pc'[d] = "away" /\ inbox'[d] = <<>>
        /\ UNCHANGED <<cancel, torn, from>>
    BY <1>14, ForwardEffect
  <2>2. /\ Range(inbox[d]) = {e} \cup Range(Tail(inbox[d]))
        /\ \A g \in Range(Tail(inbox[d])) : e.n < g.n
    BY <1>4, <1>5, <2>1, TailOne
  <2> HIDE DEF e
  <2>3. Client(d)
    BY <1>1, <2>1
  <2>4. CASE Skipped(d, e) /\ log'[d] = log[d] /\ last'[d] = last[d]
    <3>1. pc'[d] = "live" => \A g \in Range(inbox'[d]) : ~Skipped(d, g) =>
            \A f \in Range(log[d]) : f.n < g.n
      BY <2>1, <2>2, <2>3
    <3> QED
      BY <2>1, <2>3, <2>4, <3>1 DEF Skipped
  <2>5. CASE ~Skipped(d, e) /\ log'[d] = Append(log[d], e) /\ last'[d] = e.id
    <3>1. \A f \in Range(log[d]) : f.n < e.n
      BY <2>1, <2>3, <2>5
    <3>2. Ordered(log'[d]) /\ Range(log'[d]) = Range(log[d]) \cup {e}
      BY <1>4, <2>1, <2>3, <2>5, <3>1, AppendOne
    <3>3. ASSUME NEW g \in Range(Tail(inbox[d])), NEW f \in Range(log'[d])
          PROVE  f.n < g.n
      <4>1. e.n \in Nat /\ g.n \in Nat /\ e.n < g.n
        BY <1>2, <1>3, <2>1, <2>2, <3>3
      <4>2. CASE f = e
        BY <4>1, <4>2
      <4>3. CASE f \in Range(log[d])
        <5>1. f.n \in Nat /\ f.n < e.n
          BY <1>2, <1>3, <3>1, <4>3
        <5> QED
          BY <4>1, <5>1
      <4> QED
        BY <3>2, <3>3, <4>2, <4>3
    <3> QED
      BY <2>1, <3>2, <3>3
  <2> QED
    BY <2>1, <2>4, <2>5
<1>15. CASE \E c \in Clients :
              \/ CreateSubscribe(c) \/ PublishQueued(c) \/ StoreQueued(c)
              \/ JoinRunStream(c) \/ SubscriptionTakesEffect(c)
              \/ ConnectionStep(c) \/ HangUp(c)
  <2>1. PICK c \in Clients :
              \/ CreateSubscribe(c) \/ PublishQueued(c) \/ StoreQueued(c)
              \/ JoinRunStream(c) \/ SubscriptionTakesEffect(c)
              \/ ConnectionStep(c) \/ HangUp(c)
    BY <1>15
  <2>2. /\ UNCHANGED <<cancel, torn>>
        /\ d # c => /\ pc'[d] = pc[d] /\ inbox'[d] = inbox[d]
                   /\ log'[d] = log[d] /\ from'[d] = from[d]
                   /\ last'[d] = last[d]
        /\ \/ JoinRunStream(c) \/ Load(c) \/ Forward(c)
           \/ /\ UNCHANGED <<log, from, last>>
              /\ UNCHANGED <<pc, inbox>> \/ pc'[c] = "away"
    BY <2>1, ConnectionEffect
  <2>3. Client(d)
    BY <1>1, <2>2
  <2>4. CASE d # c
    BY <2>2, <2>3, <2>4 DEF Skipped
  <2>5. CASE d = c /\ UNCHANGED <<log, from, last>> /\ pc'[c] = "away"
    BY <2>3, <2>5
  <2>6. CASE UNCHANGED <<log, from, last, pc, inbox>>
    BY <1>7, <2>2, <2>6
  <2> QED
    BY <1>12, <1>13, <1>14, <2>2, <2>4, <2>5, <2>6
<1> QED
  BY <1>8, <1>9, <1>10, <1>11, <1>15, StepCases

\* The lists are empty at first.
LEMMA FirstLists ==
  ASSUME Init
  PROVE  Had = {} /\ Ordered(<<>>) /\ Range(<<>>) = {}
<1>1. Range(<<>>) = {} /\ Ordered(<<>>)
  BY DEF Range, Ordered
<1>2. buffer = <<>> /\ \A c \in Clients : inbox[c] = <<>> /\ log[c] = <<>>
  BY DEF Init
<1> QED
  BY <1>1, <1>2 DEF Had

\* The first state satisfies the invariants so far.
LEMMA FirstInvariants ==
  ASSUME Init
  PROVE  RowInv /\ EmissionInv /\ NumberInv /\ ClientInv
<1>1. Had = {} /\ Ordered(<<>>) /\ Range(<<>>) = {}
  BY FirstLists
<1>2. RowInv
  BY DEF Init, RowInv
<1>3. OneNumbering => \A c \in Clients : pc[c] = "away"
  BY EventStreamAssumption DEF Init, OneNumbering
<1>4. EmissionInv
  BY <1>1, <1>3 DEF Init, EmissionInv
<1>5. NumberInv
  BY <1>1 DEF Init, NumberInv, Queued
<1>6. ClientInv
  BY <1>1, <1>3 DEF Init, ClientInv
<1> QED
  BY <1>2, <1>4, <1>5, <1>6

\* However it reconnects, and whatever overlaps, no client of a stream that its
\* worker numbers receives an event twice or after a later one.
THEOREM InOrder == Spec => []InOrderOnce
<1>1. Init => RowInv /\ EmissionInv /\ NumberInv /\ ClientInv
  BY FirstInvariants
<1>2. Spec => [](TypeOK /\ Bounded)
  BY TypeInit, TypeStep, PTL DEF Spec
<1>3. TypeOK /\ RowInv /\ EmissionInv /\ NumberInv /\ ClientInv /\ [Next]_vars
        => (RowInv /\ EmissionInv /\ NumberInv /\ ClientInv)'
  BY RowStep, EmissionStep, NumberStep, ClientStep
<1>4. ClientInv => InOrderOnce
  BY DEF ClientInv, InOrderOnce, Ordered
<1> QED
  BY <1>1, <1>2, <1>3, <1>4, PTL DEF Spec

-----------------------------------------------------------------------------
(* Undisturbed and resumable.                                              *)

\* A disturbance stays.
LEMMA StaysDisturbed ==
  ASSUME TypeOK, [Next]_vars, Undisturbed', resumable'
  PROVE  /\ Undisturbed /\ resumable /\ OneNumbering /\ OneNumbering'
         /\ cancel = "none" /\ cancel' = "none"
<1>1. OneNumbering' /\ cancel' = "none" /\ failed' \subseteq {"lapsed"}
  BY DEF Undisturbed
<1>2. UNCHANGED run /\ OneNumbering /\ failed \subseteq {"lapsed"}
  BY <1>1, RunFrame, NumberingStays, FailuresStay
<1>3. UNCHANGED cancel \/ cancel' \in {"purge", "done"}
  <2>1. CASE EmitEvent \/ PublishEvent \/ PushEvent \/ PurgeBuffer \/ WorkerCrash
             \/ ExpireBuffer \/ CancelRollback \/ CancelPurge \/ UNCHANGED vars
    BY <2>1 DEF EmitEvent, PublishEvent, PushEvent, PurgeBuffer, WorkerCrash,
                ExpireBuffer, CancelRollback, CancelPurge, vars
  <2> QED
    BY <2>1, ConnectionFrame, StepCases
<1> QED
  BY <1>1, <1>2, <1>3 DEF Undisturbed, run

\* Every step keeps BufferInv.
LEMMA BufferStep ==
  ASSUME TypeOK, RowInv, EmissionInv, BufferInv, [Next]_vars
  PROVE  BufferInv'
<1> SUFFICES ASSUME Undisturbed', resumable'
             PROVE  /\ \A i \in DOMAIN buffer' : buffer'[i].id = i /\ buffer'[i].n = i
                    /\ wpc' = "idle" => Len(buffer') = emitted'
                    /\ wpc' \in {"publish", "push"} =>
                         Len(buffer') = emitted' - 1 /\ wev'.id = emitted'
                    /\ wpc' \in {"done", "dead"} /\ row' =>
                         \/ Len(buffer') \in {emitted', emitted' - 1}
                         \/ "lapsed" \in failed' /\ buffer' = <<>>
  BY DEF BufferInv
<1>1. /\ Undisturbed /\ resumable /\ OneNumbering /\ OneNumbering'
      /\ failed' \subseteq {"lapsed"}
      /\ cancel = "none" /\ cancel' = "none"
  BY StaysDisturbed DEF Undisturbed
<1>2. /\ \A i \in DOMAIN buffer : buffer[i].id = i /\ buffer[i].n = i
      /\ wpc = "idle" => Len(buffer) = emitted
      /\ wpc \in {"publish", "push"} => Len(buffer) = emitted - 1 /\ wev.id = emitted
      /\ wpc \in {"done", "dead"} /\ row =>
           \/ Len(buffer) \in {emitted, emitted - 1}
           \/ "lapsed" \in failed /\ buffer = <<>>
  BY <1>1 DEF BufferInv
<1>3. emitted \in Nat /\ Len(buffer) \in Nat
  BY HadEvents
<1>4. /\ wpc \in {"publish", "push"} => wev.n = emitted
      /\ wpc = "purge" => ~row
  BY <1>1 DEF EmissionInv, RowInv
<1>5. CASE EmitEvent
  <2>1. /\ wpc = "idle" /\ wpc' = "publish" /\ emitted' = emitted + 1
        /\ wev'.id = Len(buffer) + 1 /\ UNCHANGED buffer
    BY <1>1, <1>5, EmitEffect
  <2>2. emitted + 1 - 1 = emitted
    BY <1>3
  <2> QED
    BY <1>2, <2>1, <2>2
<1>6. CASE PublishEvent
  <2>1. /\ wpc = "publish" /\ wpc' = "push" /\ UNCHANGED <<buffer, wev, emitted, row>>
    BY <1>1, <1>6, PublishEffect
  <2> QED
    BY <1>2, <2>1
<1>7. CASE PushEvent
  <2>1. /\ wpc = "push" /\ wpc' \in {"idle", "purge", "done"}
        /\ buffer' = Append(buffer, wev) /\ UNCHANGED <<wev, emitted, row>>
    BY <1>1, <1>7, PushEffect
  <2>2. /\ buffer \in Seq(Events) /\ wev \in Events
    BY DEF TypeOK
  <2>3. /\ buffer' \in Seq(Events)
        /\ Len(buffer') = Len(buffer) + 1
        /\ \A i \in 1..Len(buffer) : buffer'[i] = buffer[i]
        /\ buffer'[Len(buffer) + 1] = wev
    BY <2>1, <2>2, AppendProperties
  <2>4. Len(buffer) + 1 = emitted /\ Len(buffer') = emitted
    BY <1>2, <1>3, <2>1, <2>3
  <2>5. DOMAIN buffer = 1..Len(buffer) /\ DOMAIN buffer' = 1..emitted
    BY <2>2, <2>3, <2>4, LenProperties
  <2>6. \A i \in 1..emitted : i \in 1..Len(buffer) \/ i = emitted
    BY <1>3, <2>4
  <2>7. buffer'[emitted].id = emitted /\ buffer'[emitted].n = emitted
    BY <1>2, <1>4, <2>1, <2>3, <2>4
  <2>8. \A i \in DOMAIN buffer' : buffer'[i].id = i /\ buffer'[i].n = i
    BY <1>2, <2>3, <2>5, <2>6, <2>7
  <2> QED
    BY <2>1, <2>4, <2>8
<1>8. CASE PurgeBuffer
  <2>1. wpc = "purge" /\ buffer' = <<>> /\ wpc' = "done" /\ row' = row
    BY <1>8 DEF PurgeBuffer
  <2> QED
    BY <1>4, <2>1
<1>9. CASE WorkerCrash
  <2>1. /\ wpc \in {"idle", "publish", "push", "purge"} /\ wpc' = "dead"
        /\ UNCHANGED <<row, buffer, emitted>>
    BY <1>9 DEF WorkerCrash, TypeOK
  <2> QED
    BY <1>2, <1>4, <2>1
<1>10. CASE UNCHANGED vars
  BY <1>2, <1>10 DEF vars, worker
<1>11. CASE \E c \in Clients :
              \/ CreateSubscribe(c) \/ PublishQueued(c) \/ StoreQueued(c)
              \/ JoinRunStream(c) \/ SubscriptionTakesEffect(c)
              \/ ConnectionStep(c) \/ HangUp(c)
  <2>1. UNCHANGED <<row, buffer, worker>>
    BY <1>1, <1>11, ConnectionEffect
  <2>2. failed' = failed
    BY <1>1, <1>11, ConnectionEffect
  <2> QED
    BY <1>2, <2>1, <2>2 DEF worker
<1>12. ~CancelRollback /\ ~CancelPurge
  BY <1>1 DEF CancelRollback, CancelPurge
<1>13. CASE ExpireBuffer
  <2>1. buffer' = <<>> /\ wpc' \in {"done", "dead"} /\ "lapsed" \in failed'
    BY <1>1, <1>13, ExpireEffect
  <2> QED
    BY <2>1
<1> QED
  BY <1>5, <1>6, <1>7, <1>8, <1>9, <1>10, <1>11, <1>12, <1>13, StepCases

\* While nothing disturbs the emission the replay buffer of a resumable stream is
\* what the worker has emitted, numbered 1, 2, ..., but for the event in hand.
THEOREM BufferHolds == Spec => []BufferIsTheEmission
<1>1. Init => RowInv /\ EmissionInv /\ BufferInv
  <2> SUFFICES ASSUME Init
               PROVE  RowInv /\ EmissionInv /\ BufferInv
    OBVIOUS
  <2>1. RowInv /\ EmissionInv
    BY FirstInvariants
  <2>2. buffer = <<>> /\ emitted = 0 /\ wpc = "idle"
    BY DEF Init
  <2>3. DOMAIN buffer = {} /\ Len(buffer) = 0
    BY <2>2
  <2> QED
    BY <2>1, <2>2, <2>3 DEF BufferInv
<1>2. Spec => [](TypeOK /\ Bounded)
  BY TypeInit, TypeStep, PTL DEF Spec
<1>3. TypeOK /\ RowInv /\ EmissionInv /\ BufferInv /\ [Next]_vars
        => (RowInv /\ EmissionInv /\ BufferInv)'
  BY RowStep, EmissionStep, BufferStep
<1>4. TypeOK /\ RowInv /\ BufferInv => BufferIsTheEmission
  <2> SUFFICES ASSUME TypeOK, RowInv, BufferInv, Undisturbed, resumable, row
               PROVE  /\ \A i \in DOMAIN buffer : buffer[i].id = i /\ buffer[i].n = i
                      /\ \/ Len(buffer) \in {emitted, emitted - 1}
                         \/ wpc \in {"done", "dead"} /\ "lapsed" \in failed /\ buffer = <<>>
    BY DEF BufferIsTheEmission
  <2>1. wpc \in {"idle", "publish", "push", "done", "dead"}
    BY DEF TypeOK, RowInv
  <2> QED
    BY <2>1 DEF BufferInv
<1> QED
  BY <1>1, <1>2, <1>3, <1>4, PTL DEF Spec

\* Every step keeps ChannelInv.
LEMMA ChannelStep ==
  ASSUME TypeOK, RowInv, EmissionInv, BufferInv, ChannelInv, [Next]_vars
  PROVE  ChannelInv'
<1> DEFINE Connection(c) ==
      /\ from[c] <= emitted + 1 /\ last[c] <= emitted
      /\ wpc = "publish" => from[c] <= emitted /\ last[c] < emitted
      /\ pc[c] = "load" => \A e \in Range(inbox[c]) : e.id >= from[c]
      /\ pc[c] = "live" => \A e \in Range(inbox[c]) : Skipped(c, e) => e \in Range(log[c])
<1> SUFFICES ASSUME Undisturbed', resumable'
             PROVE  /\ \A e \in Had' : e.id = e.n /\ (e.n <= Len(buffer') => e = buffer'[e.n])
                    /\ wpc' = "push" => \A e \in Had' : e.n = emitted' => e = wev'
                    /\ \A d \in Clients : Connection(d)'
  BY DEF ChannelInv
<1>1. /\ Undisturbed /\ resumable /\ OneNumbering /\ OneNumbering'
      /\ failed' \subseteq {"lapsed"}
      /\ cancel = "none" /\ cancel' = "none"
  BY StaysDisturbed DEF Undisturbed
<1>2. /\ \A e \in Had : e.id = e.n /\ (e.n <= Len(buffer) => e = buffer[e.n])
      /\ wpc = "push" => \A e \in Had : e.n = emitted => e = wev
      /\ \A d \in Clients : Connection(d)
  BY <1>1 DEF ChannelInv
<1>3. /\ \A i \in DOMAIN buffer : buffer[i].id = i /\ buffer[i].n = i
      /\ wpc \in {"publish", "push"} => Len(buffer) = emitted - 1 /\ wev.id = emitted
  BY <1>1 DEF BufferInv
<1>4. /\ \A e \in Had : 1 <= e.n /\ e.n <= emitted
      /\ wpc \in {"publish", "push"} => 1 <= emitted /\ wev.n = emitted
      /\ wpc = "publish" => \A e \in Had : e.n < emitted
      /\ \A c \in Clients : Ordered(inbox[c])
  BY <1>1 DEF EmissionInv
<1>5. /\ \A e \in Had \cup {wev} : e.n \in Nat /\ e.id \in Nat
      /\ emitted \in Nat /\ Len(buffer) \in Nat
      /\ \A c \in Clients : from[c] \in Nat /\ last[c] \in Nat
  BY HadEvents
<1>6. /\ Range(buffer) \subseteq Had
      /\ \A c \in Clients : Range(inbox[c]) \subseteq Had /\ Range(log[c]) \subseteq Had
  BY DEF Had
<1>7. /\ buffer \in Seq(Events) /\ wev \in Events
      /\ \A c \in Clients : inbox[c] \in Seq(Events) /\ log[c] \in Seq(Events)
  BY DEF TypeOK
<1>8. \/ Had' \subseteq Had
      \/ (PublishEvent \/ PushEvent) /\ Had' \subseteq Had \cup {wev}
  BY <1>1, HadGrows
<1>9. CASE EmitEvent
  <2>1. /\ wpc' = "publish" /\ emitted' = emitted + 1
        /\ UNCHANGED <<buffer, pc, inbox, log, from, last>>
    BY <1>1, <1>9, EmitEffect DEF conns
  <2>2. Had' = Had
    BY <2>1 DEF Had
  <2>3. ASSUME NEW d \in Clients
        PROVE  Connection(d)'
    <3>1. Connection(d) /\ from[d] \in Nat /\ last[d] \in Nat /\ emitted \in Nat
      BY <1>2, <1>5
    <3>2. /\ from[d] <= emitted + 1 + 1 /\ last[d] <= emitted + 1
          /\ from[d] <= emitted + 1 /\ last[d] < emitted + 1
      BY <3>1
    <3> QED
      BY <2>1, <3>1, <3>2 DEF Skipped
  <2> QED
    BY <1>2, <2>1, <2>2, <2>3
<1>10. CASE PublishEvent
  <2>1. /\ wpc = "publish" /\ wpc' = "push"
        /\ \A c \in Clients : inbox'[c] = inbox[c] \/ inbox'[c] = Append(inbox[c], wev)
        /\ UNCHANGED <<buffer, wev, emitted, pc, log, from, last>>
    BY <1>1, <1>10, PublishEffect
  <2>2. wev.id = emitted /\ wev.n = emitted /\ ~ (wev.n <= Len(buffer))
    BY <1>3, <1>4, <1>5, <2>1
  <2>3. \A e \in Had \cup {wev} : e.id = e.n /\ (e.n <= Len(buffer) => e = buffer[e.n])
    BY <1>2, <2>2
  <2>4. \A e \in Had \cup {wev} : e.n = emitted => e = wev
    BY <1>4, <1>5, <2>1
  <2>5. ASSUME NEW d \in Clients
        PROVE  Connection(d)'
    <3>1. Connection(d)
      BY <1>2
    <3>2. Range(inbox'[d]) \subseteq Range(inbox[d]) \cup {wev}
      BY <1>7, <2>1, AppendOne
    <3>3. wev.id >= from[d] /\ ~Skipped(d, wev)
      BY <1>5, <2>1, <2>2, <3>1 DEF Skipped
    <3> QED
      BY <2>1, <3>1, <3>2, <3>3 DEF Skipped
  <2> QED
    BY <1>8, <2>1, <2>3, <2>4, <2>5
<1>11. CASE PushEvent
  <2>1. /\ wpc = "push" /\ wpc' \in {"idle", "purge", "done"}
        /\ buffer' = Append(buffer, wev)
        /\ UNCHANGED <<wev, emitted, pc, inbox, log, from, last>>
    BY <1>1, <1>11, PushEffect DEF conns
  <2>2. /\ wev.n = emitted /\ wev.id = emitted /\ Len(buffer) = emitted - 1
        /\ \A e \in Had \cup {wev} : e.n = emitted => e = wev
    BY <1>2, <1>3, <1>4, <2>1
  <2>3. /\ Len(buffer') = Len(buffer) + 1
        /\ \A i \in 1..Len(buffer) : buffer'[i] = buffer[i]
        /\ buffer'[Len(buffer) + 1] = wev
    BY <1>7, <2>1, AppendProperties
  <2>4. Len(buffer) + 1 = emitted
    BY <1>5, <2>2
  <2>5. ASSUME NEW e \in Had \cup {wev}, e.n <= Len(buffer')
        PROVE  e = buffer'[e.n]
    <3>1. e.n \in Nat /\ 1 <= e.n /\ e.n <= emitted
      BY <1>4, <1>5, <2>1, <2>2
    <3>2. CASE e.n = emitted
      BY <2>2, <2>3, <2>4, <3>2
    <3>3. CASE e.n # emitted
      <4>1. e.n \in 1..Len(buffer)
        BY <1>5, <2>4, <3>1, <3>3
      <4>2. e \in Had
        BY <2>2, <3>3
      <4> QED
        BY <1>2, <2>3, <4>1, <4>2
    <3> QED
      BY <3>2, <3>3
  <2>6. \A e \in Had \cup {wev} : e.id = e.n
    BY <1>2, <2>2
  <2>7. ASSUME NEW d \in Clients
        PROVE  Connection(d)'
    <3>1. Connection(d)
      BY <1>2
    <3> QED
      BY <2>1, <3>1 DEF Skipped
  <2> QED
    BY <1>8, <2>1, <2>5, <2>6, <2>7
<1>12. CASE PurgeBuffer \/ ExpireBuffer
  <2>1. /\ buffer' = <<>> /\ wpc' \in {"done", "dead"}
        /\ UNCHANGED <<emitted, pc, inbox, log, from, last>>
    BY <1>1, <1>12, ExpireEffect DEF PurgeBuffer, conns
  <2>2. Had' \subseteq Had
    BY <1>8, <1>12, ExpireEffect DEF PurgeBuffer, PublishEvent, PushEvent
  <2>3. \A e \in Had : ~ (e.n <= Len(buffer'))
    BY <1>4, <1>5, <2>1
  <2>4. ASSUME NEW d \in Clients
        PROVE  Connection(d)'
    <3>1. Connection(d)
      BY <1>2
    <3> QED
      BY <2>1, <3>1 DEF Skipped
  <2> QED
    BY <1>2, <2>1, <2>2, <2>3, <2>4
<1>13. CASE WorkerCrash \/ UNCHANGED vars
  <2>1. /\ wpc' \in {wpc, "dead"}
        /\ UNCHANGED <<buffer, wev, emitted, pc, inbox, log, from, last>>
    BY <1>13 DEF WorkerCrash, vars, worker, conns
  <2>2. Had' = Had
    BY <2>1 DEF Had
  <2>3. ASSUME NEW d \in Clients
        PROVE  Connection(d)'
    <3>1. Connection(d)
      BY <1>2
    <3> QED
      BY <2>1, <3>1 DEF Skipped
  <2> QED
    BY <1>2, <2>1, <2>2, <2>3
<1>14. ASSUME NEW c \in Clients, JoinRunStream(c)
       PROVE  Connection(c)'
  <2>1. /\ pc[c] = "away" /\ pc'[c] = "load" /\ last'[c] = 0
        /\ \/ log'[c] = <<>> /\ from'[c] = 0
           \/ /\ log'[c] = log[c] /\ Len(log[c]) \in DOMAIN log[c]
              /\ from'[c] = log[c][Len(log[c])].id + 1
        /\ UNCHANGED <<worker, inbox>>
    BY <1>14, JoinEffect
  <2>2. inbox'[c] = <<>>
    BY <2>1 DEF RowInv
  <2>3. Range(inbox'[c]) = {}
    BY <2>2 DEF Range
  <2>4. from'[c] \in Nat /\ from'[c] <= emitted + 1 /\ (wpc = "publish" => from'[c] <= emitted)
    <3>1. CASE from'[c] = 0
      BY <1>5, <3>1
    <3>2. CASE /\ Len(log[c]) \in DOMAIN log[c]
               /\ from'[c] = log[c][Len(log[c])].id + 1
      <4> DEFINE f == log[c][Len(log[c])]
      <4>1. f \in Had
        BY <1>6, <3>2 DEF Range
      <4>2. from'[c] = f.id + 1
        BY <3>2
      <4> HIDE DEF f
      <4>3. /\ f.id = f.n /\ f.n <= emitted /\ (wpc = "publish" => f.n < emitted)
            /\ f.id \in Nat /\ emitted \in Nat
        BY <1>2, <1>4, <1>5, <4>1
      <4> QED
        BY <4>2, <4>3
    <3> QED
      BY <2>1, <3>1, <3>2
  <2>5. last'[c] <= emitted /\ (wpc = "publish" => last'[c] < emitted)
    BY <1>4, <1>5, <2>1
  <2>6. wpc' = wpc /\ emitted' = emitted
    BY <2>1 DEF worker
  <2> QED
    BY <2>1, <2>3, <2>4, <2>5, <2>6
<1>15. ASSUME NEW c \in Clients, Load(c)
       PROVE  Connection(c)'
  <2>2. PICK u \in Seq(Events) :
          /\ log'[c] = log[c] \o u
          /\ last'[c] = IF u = <<>> THEN 0 ELSE u[Len(u)].id
          /\ Close(c) \/ (~EndsStream(u) /\ GoTo(c, "live") /\ UNCHANGED <<sub, inbox>>)
          /\ \A e \in Range(u) : e \in Range(buffer) /\ e.id >= from[c]
          /\ u # <<>> /\ ~EndsStream(u) =>
               \A e \in Range(buffer) : e.id >= from[c] => e \in Range(u)
    BY <1>1, <1>15, LoadEffect
  <2>1. /\ pc[c] = "load" /\ u \in Seq(Events)
        /\ log'[c] = log[c] \o u
        /\ last'[c] = IF u = <<>> THEN 0 ELSE u[Len(u)].id
        /\ Close(c) \/ (~EndsStream(u) /\ GoTo(c, "live") /\ UNCHANGED <<sub, inbox>>)
        /\ UNCHANGED <<worker, from>>
    BY <1>1, <1>15, <2>2, LoadEffect
  <2>3. wpc' = wpc /\ emitted' = emitted
    BY <2>1 DEF worker
  <2>4. ASSUME u # <<>>
        PROVE  u[Len(u)] \in Range(buffer) /\ last'[c] = u[Len(u)].id
    <3>1. Len(u) \in DOMAIN u
      BY <2>1, <2>4, LenProperties, EmptySeq
    <3>2. u[Len(u)] \in Range(u)
      BY <3>1 DEF Range
    <3> QED
      BY <2>1, <2>2, <2>4, <3>2
  <2>5. last'[c] <= emitted /\ (wpc = "publish" => last'[c] < emitted)
    <3>1. CASE u = <<>>
      BY <1>4, <1>5, <2>1, <3>1
    <3>2. CASE u # <<>>
      <4> DEFINE g == u[Len(u)]
      <4>1. g \in Had /\ last'[c] = g.id
        BY <1>6, <2>4, <3>2
      <4> HIDE DEF g
      <4> QED
        BY <1>2, <1>4, <4>1
    <3> QED
      BY <3>1, <3>2
  <2>6. Connection(c)
    BY <1>2
  <2>7. CASE Close(c)
    <3>1. pc'[c] = "away"
      BY <2>7, CloseEffect
    <3> QED
      BY <2>1, <2>3, <2>5, <2>6, <3>1
  <2>8. CASE ~EndsStream(u) /\ GoTo(c, "live") /\ UNCHANGED <<sub, inbox>>
    <3>1. pc'[c] = "live" /\ inbox'[c] = inbox[c]
      BY <2>8 DEF GoTo, TypeOK
    <3>2. ASSUME NEW e \in Range(inbox[c]), e.id <= last'[c] \/ e.id < from[c]
          PROVE  e \in Range(log'[c])
      <4>1. /\ e \in Had /\ e.id >= from[c] /\ e.id = e.n /\ 1 <= e.n
            /\ e.id \in Nat /\ from[c] \in Nat
        BY <1>2, <1>4, <1>5, <1>6, <2>1, <2>6, <3>2
      <4>2. e.id <= last'[c]
        BY <3>2, <4>1
      <4>3. u # <<>>
        BY <2>1, <4>1, <4>2
      <4> DEFINE g == u[Len(u)]
      <4>4. g \in Range(buffer) /\ last'[c] = g.id
        BY <2>4, <4>3
      <4> HIDE DEF g
      <4>5. DOMAIN buffer = 1..Len(buffer)
        BY <1>7, LenProperties
      <4>6. PICK i \in 1..Len(buffer) : g = buffer[i]
        BY <4>4, <4>5 DEF Range
      <4>7. g.id = i
        BY <1>3, <4>5, <4>6
      <4>8. e.n \in 1..Len(buffer)
        BY <1>5, <4>1, <4>2, <4>4, <4>6, <4>7
      <4>9. e = buffer[e.n]
        BY <1>2, <1>5, <4>1, <4>8
      <4>10. e \in Range(buffer)
        BY <4>5, <4>8, <4>9 DEF Range
      <4>11. e \in Range(u)
        BY <2>2, <2>8, <4>1, <4>3, <4>10
      <4> QED
        BY <1>7, <2>1, <4>11, ConcatTwo
    <3>3. from'[c] = from[c]
      BY <2>1
    <3> QED
      BY <2>3, <2>5, <2>6, <3>1, <3>2, <3>3 DEF Skipped
  <2> QED
    BY <2>1, <2>7, <2>8
<1>16. ASSUME NEW c \in Clients, Forward(c)
       PROVE  Connection(c)'
  <2> DEFINE e == Head(inbox[c])
  <2>1. /\ pc[c] = "live" /\ inbox[c] # <<>>
        /\ e \in Events /\ e \in Range(inbox[c])
        /\ \/ Skipped(c, e) /\ log'[c] = log[c] /\ last'[c] = last[c]
           \/ ~Skipped(c, e) /\ log'[c] = Append(log[c], e) /\ last'[c] = e.id
        /\ \/ pc'[c] = "live" /\ inbox'[c] = Tail(inbox[c])
           \/ pc'[c] = "away" /\ inbox'[c] = <<>>
        /\ UNCHANGED <<worker, from>>
    BY <1>16, ForwardEffect
  <2>2. /\ Range(inbox[c]) = {e} \cup Range(Tail(inbox[c]))
        /\ \A g \in Range(Tail(inbox[c])) : e.n < g.n
    BY <1>4, <1>7, <2>1, TailOne
  <2> HIDE DEF e
  <2>3. Connection(c)
    BY <1>2
  <2>4. wpc' = wpc /\ emitted' = emitted /\ from'[c] = from[c]
    BY <2>1 DEF worker
  <2>5. CASE Skipped(c, e) /\ log'[c] = log[c] /\ last'[c] = last[c]
    <3>1. pc'[c] = "live" => \A g \in Range(inbox'[c]) : Skipped(c, g) => g \in Range(log[c])
      BY <2>1, <2>2, <2>3
    <3>2. pc'[c] # "load"
      BY <2>1
    <3> QED
      BY <2>3, <2>4, <2>5, <3>1, <3>2 DEF Skipped
  <2>6. CASE ~Skipped(c, e) /\ log'[c] = Append(log[c], e) /\ last'[c] = e.id
    <3>1. e \in Had /\ e.id = e.n /\ e.n <= emitted /\ (wpc = "publish" => e.n < emitted)
      BY <1>2, <1>4, <1>6, <2>1
    <3>2. Range(log[c]) \subseteq Range(log'[c])
      BY <1>7, <2>1, <2>6, AppendOne
    <3>3. ASSUME NEW g \in Range(Tail(inbox[c])), g.id <= e.id \/ g.id < from[c]
          PROVE  g \in Range(log'[c])
      <4>1. g \in Had /\ g \in Range(inbox[c]) /\ e.n < g.n /\ g.id = g.n
        BY <1>2, <1>6, <2>2, <3>3
      <4>2. g.id \in Nat /\ e.id \in Nat /\ from[c] \in Nat
        BY <1>5, <3>1, <4>1
      <4>3. g.id < from[c]
        BY <3>1, <3>3, <4>1, <4>2
      <4>4. Skipped(c, g)
        BY <4>3 DEF Skipped
      <4> QED
        BY <2>1, <2>3, <3>2, <4>1, <4>4
    <3>4. pc'[c] # "load"
      BY <2>1
    <3> QED
      BY <2>1, <2>3, <2>4, <2>6, <3>1, <3>3, <3>4 DEF Skipped
  <2> QED
    BY <2>1, <2>5, <2>6
<1>17. CASE \E c \in Clients :
              \/ CreateSubscribe(c) \/ PublishQueued(c) \/ StoreQueued(c)
              \/ JoinRunStream(c) \/ SubscriptionTakesEffect(c)
              \/ ConnectionStep(c) \/ HangUp(c)
  <2>1. PICK c \in Clients :
              \/ CreateSubscribe(c) \/ PublishQueued(c) \/ StoreQueued(c)
              \/ JoinRunStream(c) \/ SubscriptionTakesEffect(c)
              \/ ConnectionStep(c) \/ HangUp(c)
    BY <1>17
  <2>2. /\ UNCHANGED <<buffer, worker>>
        /\ \A d \in Clients \ {c} : /\ pc'[d] = pc[d] /\ inbox'[d] = inbox[d]
                                   /\ log'[d] = log[d] /\ from'[d] = from[d]
                                   /\ last'[d] = last[d]
        /\ \/ JoinRunStream(c) \/ Load(c) \/ Forward(c)
           \/ /\ UNCHANGED <<log, from, last>>
              /\ UNCHANGED <<pc, inbox>> \/ pc'[c] = "away"
    BY <1>1, <2>1, ConnectionEffect
  <2>3. UNCHANGED <<wpc, wev, emitted>>
    BY <2>2 DEF worker
  <2>4. Had' \subseteq Had
    <3>1. ~PublishEvent /\ ~PushEvent
      BY <2>3 DEF PublishEvent, PushEvent, AfterEvent
    <3> QED
      BY <1>8, <3>1
  <2>5. ASSUME NEW d \in Clients
        PROVE  Connection(d)'
    <3>1. Connection(d)
      BY <1>2
    <3>2. CASE d # c
      BY <2>2, <2>3, <3>1, <3>2 DEF Skipped
    <3>3. CASE d = c /\ UNCHANGED <<log, from, last>> /\ pc'[c] = "away"
      BY <2>3, <3>1, <3>3
    <3>4. CASE UNCHANGED <<log, from, last, pc, inbox>>
      BY <2>3, <3>1, <3>4 DEF Skipped
    <3> QED
      BY <1>14, <1>15, <1>16, <2>2, <3>2, <3>3, <3>4
  <2> QED
    BY <1>2, <2>2, <2>3, <2>4, <2>5
<1>18. ~CancelRollback /\ ~CancelPurge
  BY <1>1 DEF CancelRollback, CancelPurge
<1> QED
  BY <1>9, <1>10, <1>11, <1>12, <1>13, <1>17, <1>18, StepCases

\* A list is neither its tail nor longer than it was.
LEMMA TailIsShorter ==
  ASSUME NEW s \in Seq(Events), s # <<>>, NEW e \in Events
  PROVE  Tail(s) # s /\ Tail(s) # Append(s, e)
<1>1. Len(s) \in Nat
  BY LenProperties
<1>2. Len(Tail(s)) = Len(s) - 1 /\ Len(Append(s, e)) = Len(s) + 1
  BY HeadTailProperties, AppendProperties
<1>3. Len(s) - 1 # Len(s) /\ Len(s) - 1 # Len(s) + 1
  BY <1>1
<1>4. Len(Tail(s)) # Len(s) /\ Len(Tail(s)) # Len(Append(s, e))
  BY <1>2, <1>3
<1> QED
  BY <1>4, Zenon

\* While nothing disturbs the emission, what a connection to a resumable stream
\* skips its client already has.
LEMMA SkippedIsKnown ==
  ASSUME TypeOK, EmissionInv, ChannelInv, [Next]_vars,
         NEW c \in Clients, Undisturbed, resumable, Skips(c)
  PROVE  Known(c, Head(inbox[c]))
<1>1. OneNumbering
  BY DEF Undisturbed
<1>2. /\ inbox[c] # <<>> /\ inbox'[c] = Tail(inbox[c])
      /\ pc'[c] = "live" /\ log'[c] = log[c]
  BY DEF Skips
<1>3. inbox[c] \in Seq(Events) /\ wev \in Events
  BY DEF TypeOK
<1>4. /\ Tail(inbox[c]) # inbox[c]
      /\ Tail(inbox[c]) # Append(inbox[c], wev)
  BY <1>2, <1>3, TailIsShorter
<1>5. ~PublishEvent
  BY <1>2, <1>4, PublishEffect
<1>6. inbox'[c] # inbox[c]
  BY <1>2, <1>4
<1>7. PICK d \in Clients :
        \/ CreateSubscribe(d) \/ PublishQueued(d) \/ StoreQueued(d)
        \/ JoinRunStream(d) \/ SubscriptionTakesEffect(d)
        \/ ConnectionStep(d) \/ HangUp(d)
  <2>1. /\ ~EmitEvent /\ ~PushEvent /\ ~PurgeBuffer /\ ~WorkerCrash /\ ~ExpireBuffer
        /\ ~CancelRollback /\ ~CancelPurge
    BY <1>6 DEF EmitEvent, PushEvent, PurgeBuffer, WorkerCrash, ExpireBuffer, CancelRollback,
                CancelPurge, conns
  <2>2. ~ UNCHANGED vars
    BY <1>6 DEF vars, conns
  <2> QED
    BY <1>5, <2>1, <2>2, StepCases
<1>8. /\ d = c
      /\ JoinRunStream(c) \/ Load(c) \/ Forward(c)
  BY <1>1, <1>2, <1>6, <1>7, ConnectionEffect
<1>9. ~JoinRunStream(c)
  BY <1>2, JoinEffect
<1>10. ~Load(c)
  <2> SUFFICES ASSUME Load(c)
               PROVE  FALSE
    OBVIOUS
  <2>1. Close(c) \/ UNCHANGED inbox
    BY <1>1, LoadEffect
  <2> QED
    BY <1>2, <1>6, <2>1, CloseEffect
<1>11. Forward(c)
  BY <1>8, <1>9, <1>10
<1>12. /\ pc[c] = "live" /\ Head(inbox[c]) \in Range(inbox[c])
       /\ Skipped(c, Head(inbox[c])) \/ log'[c] = Append(log[c], Head(inbox[c]))
  BY <1>11, ForwardEffect
<1>13. Skipped(c, Head(inbox[c]))
  <2>1. log[c] \in Seq(Events) /\ Head(inbox[c]) \in Events
    BY <1>11, ForwardEffect DEF TypeOK
  <2>2. Len(log[c]) \in Nat /\ Len(Append(log[c], Head(inbox[c]))) = Len(log[c]) + 1
    BY <2>1, LenProperties, AppendProperties
  <2> QED
    BY <1>2, <1>12, <2>2
<1>14. Head(inbox[c]) \in Range(log[c])
  BY <1>12, <1>13 DEF ChannelInv
<1> QED
  BY <1>14 DEF Known, Range

\* So nothing is withheld: a message of the channel that a connection passes over
\* was in the list it loaded, or came before.
THEOREM NothingLost == Spec => ResumableWithholdsNothing
<1>1. Init => RowInv /\ EmissionInv /\ BufferInv /\ ChannelInv
  <2> SUFFICES ASSUME Init
               PROVE  RowInv /\ EmissionInv /\ BufferInv /\ ChannelInv
    OBVIOUS
  <2>1. RowInv /\ EmissionInv
    BY FirstInvariants
  <2>2. /\ buffer = <<>> /\ emitted = 0 /\ wpc = "idle"
        /\ \A c \in Clients : from[c] = 0 /\ last[c] = 0 /\ inbox[c] = <<>>
    BY DEF Init
  <2>3. DOMAIN buffer = {} /\ Len(buffer) = 0
    BY <2>2
  <2>4. BufferInv
    BY <2>2, <2>3 DEF BufferInv
  <2>5. ChannelInv
    BY <2>2, FirstLists DEF ChannelInv
  <2> QED
    BY <2>1, <2>4, <2>5
<1>2. Spec => [](TypeOK /\ Bounded)
  BY TypeInit, TypeStep, PTL DEF Spec
<1>3. TypeOK /\ RowInv /\ EmissionInv /\ BufferInv /\ ChannelInv /\ [Next]_vars
        => (RowInv /\ EmissionInv /\ BufferInv /\ ChannelInv)'
  BY RowStep, EmissionStep, BufferStep, ChannelStep
<1>4. TypeOK /\ EmissionInv /\ ChannelInv /\ [Next]_vars
        => [\A c \in Clients : Undisturbed /\ resumable /\ Skips(c) => Known(c, Head(inbox[c]))]_vars
  BY SkippedIsKnown
<1> QED
  BY <1>1, <1>2, <1>3, <1>4, PTL DEF Spec, ResumableWithholdsNothing
=============================================================================
