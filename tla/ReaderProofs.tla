---------------------------- MODULE ReaderProofs ----------------------------
(***************************************************************************)
(* What is proved about Reader for every set of takers, every profile and  *)
(* every number of instances, samples and errors.                          *)
(***************************************************************************)
EXTENDS Reader, FiniteSetTheorems, SequenceTheorems, WellFoundedInduction, TLAPS

-----------------------------------------------------------------------------
(***************************************************************************)
(* How many samples with data there are when one comes or some go.         *)
(***************************************************************************)
Goods(h) == Cardinality(ValidAt(h))

\* a sequence of samples has a number of samples with data, no more than it is long
LEMMA GoodsType ==
  ASSUME NEW h \in Seq(Samples)
  PROVE  /\ ValidAt(h) \subseteq 1..Len(h) /\ IsFiniteSet(ValidAt(h))
         /\ Goods(h) \in Nat /\ Goods(h) <= Len(h) /\ Len(Good(h)) = Goods(h)
<1>1. ValidAt(h) \subseteq 1..Len(h) /\ Len(h) \in Nat
  BY LenProperties DEF ValidAt
<1>2. IsFiniteSet(1..Len(h)) /\ Cardinality(1..Len(h)) = Len(h)
  <2>1. IsFiniteSet(1..Len(h)) /\ Cardinality(1..Len(h)) = IF 1 > Len(h) THEN 0 ELSE Len(h) - 1 + 1
    BY <1>1, FS_Interval
  <2> QED
    BY <1>1, <2>1
<1>3. IsFiniteSet(ValidAt(h)) /\ Cardinality(ValidAt(h)) <= Len(h)
  BY <1>1, <1>2, FS_Subset
<1>4. Goods(h) \in Nat
  BY <1>3, FS_CardinalityType DEF Goods
<1>5. Len(Good(h)) = Goods(h)
  <2>1. DOMAIN Good(h) = 1..Goods(h)
    BY DEF Good, Goods
  <2>2. Good(h) = [k \in 1..Goods(h) |-> h[Ascending(ValidAt(h))[k]]]
    BY DEF Good, Goods
  <2> HIDE DEF Goods
  <2>3. Len([k \in 1..Goods(h) |-> h[Ascending(ValidAt(h))[k]]]) = Goods(h)
    BY <1>4
  <2> QED
    BY <2>2, <2>3
<1> QED
  BY <1>1, <1>3, <1>4, <1>5 DEF Goods

\* a sequence whose samples with data are all at places of another one has no
\* more of them, and fewer if one of the other's is missing
LEMMA NoMoreGoods ==
  ASSUME NEW h \in Seq(Samples), NEW g \in Seq(Samples), NEW S \in SUBSET ValidAt(h),
         NEW f \in [ValidAt(g) -> S], \A i, j \in ValidAt(g) : f[i] = f[j] => i = j
  PROVE  Goods(g) <= Cardinality(S)
<1>1. IsFiniteSet(S)
  BY GoodsType, FS_Subset
<1>2. f \in Injection(ValidAt(g), S)
  BY DEF Injection, IsInjective
<1> QED
  BY <1>1, <1>2, FS_Injection DEF Goods

\* one sample less
LEMMA OneLess ==
  ASSUME NEW h \in Seq(Samples), NEW g \in Seq(Samples), NEW i \in 1..Len(h),
         Len(g) = Len(h) - 1,
         \A j \in 1..Len(g) : g[j] = IF j < i THEN h[j] ELSE h[j + 1]
  PROVE  Goods(g) <= Goods(h) /\ (h[i].valid => Goods(g) <= Goods(h) - 1)
<1> DEFINE S == ValidAt(h) \ {i}
           f == [j \in ValidAt(g) |-> IF j < i THEN j ELSE j + 1]
<1>1. /\ ValidAt(g) \subseteq 1..Len(g) /\ DOMAIN h = 1..Len(h)
      /\ Len(h) \in Nat /\ Len(g) \in Nat /\ i \in Nat
  BY GoodsType, LenProperties
<1>2. \A j \in ValidAt(g) : f[j] \in S
  <2>1. ASSUME NEW j \in ValidAt(g) PROVE f[j] \in S
    <3>1. j \in 1..Len(g) /\ g[j].valid /\ f[j] = IF j < i THEN j ELSE j + 1
      BY <1>1 DEF ValidAt
    <3>2. f[j] \in 1..Len(h) /\ f[j] # i
      BY <1>1, <3>1
    <3>3. h[f[j]] = g[j]
      BY <3>1
    <3> QED
      BY <1>1, <3>1, <3>2, <3>3 DEF ValidAt
  <2> QED
    BY <2>1
<1>3. \A j, k \in ValidAt(g) : f[j] = f[k] => j = k
  BY <1>1
<1>4. f \in [ValidAt(g) -> S]
  BY <1>2
<1>5. Goods(g) <= Cardinality(S)
  <2> HIDE DEF f
  <2> QED
    BY <1>3, <1>4, NoMoreGoods
<1>6. Cardinality(S) = IF i \in ValidAt(h) THEN Goods(h) - 1 ELSE Goods(h)
  BY GoodsType, FS_RemoveElement DEF Goods
<1>7. h[i].valid => i \in ValidAt(h)
  BY <1>1 DEF ValidAt
<1> QED
  BY <1>5, <1>6, <1>7, GoodsType

\* the first sample is taken
LEMMA GoodsTail ==
  ASSUME NEW h \in Seq(Samples), h # <<>>
  PROVE  /\ Tail(h) \in Seq(Samples) /\ Head(h) \in Samples /\ Goods(Tail(h)) <= Goods(h)
         /\ Head(h).valid => Goods(Tail(h)) <= Goods(h) - 1
<1>1. /\ Tail(h) \in Seq(Samples) /\ Head(h) \in Samples /\ Len(Tail(h)) = Len(h) - 1
      /\ \A j \in 1..Len(Tail(h)) : Tail(h)[j] = h[j + 1]
  BY HeadTailProperties
<1>2. 1 \in 1..Len(h) /\ Head(h) = h[1]
  BY EmptySeq, LenProperties
<1>3. \A j \in 1..Len(Tail(h)) : ~(j < 1)
  OBVIOUS
<1> QED
  BY <1>1, <1>2, <1>3, OneLess

\* dds_take takes some of the samples: the rest
LEMMA GoodsRest ==
  ASSUME NEW h \in Seq(Samples), NEW n \in 0..Len(h)
  PROVE  /\ SubSeq(h, n + 1, Len(h)) \in Seq(Samples)
         /\ Len(SubSeq(h, n + 1, Len(h))) = Len(h) - n
         /\ \A j \in 1..(Len(h) - n) : SubSeq(h, n + 1, Len(h))[j] = h[n + j]
         /\ Goods(SubSeq(h, n + 1, Len(h))) <= Goods(h)
<1>1. PICK g : g = SubSeq(h, n + 1, Len(h))
  OBVIOUS
<1>2. Len(h) \in Nat /\ n \in Nat /\ n <= Len(h) /\ DOMAIN h = 1..Len(h)
  BY LenProperties
<1>l. PICK l \in Nat : l = Len(h)
  BY <1>2
<1>3. /\ g \in Seq(Samples) /\ Len(g) = (IF n + 1 <= l THEN l - (n + 1) + 1 ELSE 0)
      /\ \A j \in 1..(l - (n + 1) + 1) : g[j] = h[n + 1 + j - 1]
  <2>1. \A j \in (n+1)..l : h[j] \in Samples
    BY <1>2, <1>l, ElementOfSeq
  <2>2. n + 1 \in Int /\ l \in Int
    BY <1>2
  <2>3. g = SubSeq(h, n + 1, l)
    BY <1>1, <1>l
  <2> QED
    BY <2>1, <2>2, <2>3, SubSeqProperties
<1>4. Len(g) = Len(h) - n /\ \A j \in 1..(Len(h) - n) : g[j] = h[n + j]
  <2>1. n \in Int /\ l \in Int /\ n <= l
    BY <1>2, <1>l
  <2>5. l - (n + 1) + 1 = l - n
    BY <2>1
  <2>6. n + 1 <= l \/ l - n = 0
    BY <2>1
  <2>2. Len(g) = l - n
    BY <1>3, <2>1, <2>5, <2>6
  <2>3. \A j \in 1..(l - n) : n + 1 + j - 1 = n + j
    BY <1>2
  <2>4. \A j \in 1..(l - n) : g[j] = h[n + j]
    BY <1>3, <2>3, <2>5
  <2> QED
    BY <1>l, <2>2, <2>4
<1> DEFINE f == [j \in ValidAt(g) |-> n + j]
<1>5. \A j \in ValidAt(g) : f[j] \in ValidAt(h)
  <2>1. ASSUME NEW j \in ValidAt(g) PROVE n + j \in ValidAt(h)
    <3>1. j \in 1..Len(g) /\ g[j].valid
      BY <1>3, GoodsType DEF ValidAt
    <3>2. n + j \in 1..Len(h) /\ h[n + j] = g[j]
      BY <1>2, <1>4, <3>1
    <3> QED
      BY <1>2, <3>1, <3>2 DEF ValidAt
  <2> QED
    BY <2>1
<1>6. \A j, k \in ValidAt(g) : f[j] = f[k] => j = k
  <2>1. \A j \in ValidAt(g) : j \in Nat
    BY <1>3, GoodsType
  <2> QED
    BY <1>2, <2>1
<1>7. f \in [ValidAt(g) -> ValidAt(h)]
  BY <1>5
<1>8. Goods(g) <= Goods(h)
  <2> HIDE DEF f
  <2> QED
    BY <1>3, <1>6, <1>7, NoMoreGoods DEF Goods
<1> QED
  BY <1>1, <1>3, <1>4, <1>8

\* one sample more
LEMMA GoodsAppend ==
  ASSUME NEW h \in Seq(Samples), NEW s \in Samples
  PROVE  /\ Append(h, s) \in Seq(Samples) /\ Goods(Append(h, s)) <= Goods(h) + 1
         /\ ~s.valid => Goods(Append(h, s)) <= Goods(h)
<1>1. PICK g : g = Append(h, s)
  OBVIOUS
<1>2. /\ g \in Seq(Samples) /\ Len(g) = Len(h) + 1
      /\ \A i \in 1..Len(h) : g[i] = h[i]
      /\ g[Len(h) + 1] = s
  BY <1>1, AppendProperties
<1>3. DOMAIN g = 1..Len(g) /\ DOMAIN h = 1..Len(h) /\ Len(h) \in Nat
  BY <1>2, LenProperties
<1>4. PICK k : k = Len(h) + 1
  OBVIOUS
<1>5. \A i \in 1..Len(g) : i \in 1..Len(h) \/ i = k
  BY <1>2, <1>3, <1>4
<1>6. \A i \in ValidAt(g) : i \in ValidAt(h) \/ (i = k /\ s.valid)
  BY <1>2, <1>3, <1>4, <1>5 DEF ValidAt
<1>7. IsFiniteSet(ValidAt(h)) /\ IsFiniteSet(ValidAt(g)) /\ Goods(h) \in Nat
  BY <1>2, GoodsType
<1>8. ~s.valid => Goods(g) <= Goods(h)
  <2> SUFFICES ASSUME ~s.valid PROVE Goods(g) <= Goods(h)
    OBVIOUS
  <2>1. ValidAt(g) \in SUBSET ValidAt(h)
    BY <1>6
  <2> QED
    BY <1>7, <2>1, FS_Subset DEF Goods
<1>9. Goods(g) <= Goods(h) + 1
  <2>1. ValidAt(g) \in SUBSET (ValidAt(h) \cup {k})
    BY <1>6
  <2>2. /\ IsFiniteSet(ValidAt(h) \cup {k})
        /\ Cardinality(ValidAt(h) \cup {k}) = Goods(h) \/ Cardinality(ValidAt(h) \cup {k}) = Goods(h) + 1
    BY <1>7, FS_AddElement DEF Goods
  <2>3. Goods(g) <= Cardinality(ValidAt(h) \cup {k})
    BY <2>1, <2>2, FS_Subset DEF Goods
  <2>4. Goods(g) \in Nat
    BY <1>2, GoodsType
  <2> QED
    BY <1>7, <2>2, <2>3, <2>4
<1> QED
  BY <1>1, <1>2, <1>8, <1>9

\* the least number of a set
LEMMA Least ==
  ASSUME NEW T, T \subseteq Nat, T # {}
  PROVE  \E x \in T : \A y \in T : x <= y
<1>1. PICK x \in T : \A y \in T : ~(<<y, x>> \in OpToRel(<, Nat))
  BY NatLessThanWellFounded, WFMin
<1>2. \A y \in T : ~(y < x)
  BY <1>1 DEF OpToRel
<1> QED
  BY <1>2

\* the topic has one instance, as every topic without a key has
OneInstance == \A a, b \in Instances : a = b

\* keep last: a full history makes room for one sample, when the topic has one
\* instance; with more, a full reader need not make room
LEMMA GoodsRoom ==
  ASSUME NEW h \in Seq(Samples), NEW k \in Instances, depth \in {Unlimited} \cup (Nat \ {0})
  PROVE  /\ MakeRoom(h, k) \in Seq(Samples) /\ Goods(MakeRoom(h, k)) <= Goods(h)
         /\ OneInstance /\ depth # Unlimited /\ Goods(h) <= depth =>
              Goods(MakeRoom(h, k)) <= depth - 1
<1> DEFINE S == OfInstance(h, k)
<1>1. Goods(h) \in Nat /\ IsFiniteSet(ValidAt(h)) /\ ValidAt(h) \subseteq 1..Len(h)
  BY GoodsType
<1>2. Len(h) \in Nat /\ DOMAIN h = 1..Len(h)
  BY LenProperties
<1>i. S \subseteq ValidAt(h) /\ (OneInstance => S = ValidAt(h))
  <2>1. ASSUME OneInstance, NEW i \in ValidAt(h) PROVE h[i].of = k
    <3>1. i \in 1..Len(h)
      BY <1>1
    <3>2. h[i] \in Samples
      BY <3>1, ElementOfSeq
    <3>3. h[i].of \in Instances
      BY <3>2 DEF Samples
    <3> QED
      BY <2>1, <3>3 DEF OneInstance
  <2> QED
    BY <2>1 DEF OfInstance
<1>s. IsFiniteSet(S)
  BY <1>1, <1>i, FS_Subset
<1>3. CASE Cardinality(S) # depth
  <2>1. MakeRoom(h, k) = h
    BY <1>3 DEF MakeRoom
  <2>2. OneInstance => Goods(h) # depth
    BY <1>3, <1>i DEF Goods
  <2>3. OneInstance /\ depth # Unlimited /\ Goods(h) <= depth => Goods(h) <= depth - 1
    BY <1>1, <2>2
  <2> QED
    BY <1>1, <2>1, <2>3
<1>4. CASE Cardinality(S) = depth
  <2> DEFINE c == CHOOSE i \in S : \A j \in S : i <= j
  <2>1. depth # Unlimited /\ depth # 0
    <3>1. Cardinality(S) \in Nat
      BY <1>s, FS_CardinalityType
    <3> QED
      BY <1>4, <3>1 DEF Unlimited
  <2>2. S # {}
    BY <1>4, <2>1, FS_EmptySet
  <2>3. \E x \in S : \A y \in S : x <= y
    <3>1. S \subseteq Nat
      BY <1>1, <1>i
    <3> HIDE DEF S
    <3> QED
      BY <2>2, <3>1, Least
  <2>4. c \in S
    <3> HIDE DEF S
    <3> QED
      BY <2>3
  <2>5. c \in 1..Len(h) /\ h[c].valid
    BY <1>1, <1>i, <2>4 DEF ValidAt
  <2> HIDE DEF c
  <2>6. PICK m \in 1..Len(h) : m = c /\ h[m].valid
    BY <2>5
  <2>7. MakeRoom(h, k) = Without(h, m)
    BY <1>4, <2>6 DEF MakeRoom, c
  <2>8. /\ SubSeq(h, 1, m - 1) \in Seq(Samples) /\ Len(SubSeq(h, 1, m - 1)) = m - 1
        /\ \A j \in 1..(m-1) : SubSeq(h, 1, m - 1)[j] = h[j]
    <3>1. \A j \in 1..(m-1) : h[j] \in Samples
      <4>1. \A j \in 1..(m-1) : j \in 1..Len(h)
        BY <1>2, <2>6
      <4> QED
        BY <4>1, ElementOfSeq
    <3>2. 1 \in Int /\ m - 1 \in Int /\ m - 1 - 1 + 1 = m - 1 /\ (1 <= m - 1 \/ m - 1 = 0)
      BY <1>2, <2>6
    <3>3. /\ SubSeq(h, 1, m - 1) \in Seq(Samples)
          /\ Len(SubSeq(h, 1, m - 1)) = IF 1 <= m - 1 THEN m - 1 - 1 + 1 ELSE 0
          /\ \A j \in 1..(m - 1 - 1 + 1) : SubSeq(h, 1, m - 1)[j] = h[1 + j - 1]
      BY <3>1, <3>2, SubSeqProperties
    <3>4. \A j \in 1..(m-1) : 1 + j - 1 = j
      OBVIOUS
    <3> QED
      BY <3>2, <3>3, <3>4
  <2>9. PICK a, b : a = SubSeq(h, 1, m - 1) /\ b = SubSeq(h, m + 1, Len(h))
    OBVIOUS
  <2>10. /\ a \in Seq(Samples) /\ Len(a) = m - 1 /\ \A j \in 1..(m-1) : a[j] = h[j]
         /\ b \in Seq(Samples) /\ Len(b) = Len(h) - m /\ \A j \in 1..(Len(h) - m) : b[j] = h[m + j]
    <3>1. m \in 0..Len(h)
      BY <1>2, <2>6
    <3> QED
      BY <2>8, <2>9, <3>1, GoodsRest
  <2>11. PICK g : g = a \o b
    OBVIOUS
  <2>12. /\ g \in Seq(Samples) /\ Len(g) = Len(a) + Len(b)
         /\ \A j \in 1..(Len(a) + Len(b)) : g[j] = IF j <= Len(a) THEN a[j] ELSE b[j - Len(a)]
    BY <2>10, <2>11, ConcatProperties
  <2>13. Len(g) = Len(h) - 1
    BY <1>2, <2>6, <2>10, <2>12
  <2>14. \A j \in 1..Len(g) : g[j] = IF j < m THEN h[j] ELSE h[j + 1]
    <3>1. ASSUME NEW j \in 1..Len(g) PROVE g[j] = IF j < m THEN h[j] ELSE h[j + 1]
      <4>1. g[j] = IF j <= m - 1 THEN a[j] ELSE b[j - (m - 1)]
        BY <2>10, <2>12, <3>1
      <4>2. CASE j < m
        <5>1. j <= m - 1 /\ j \in 1..(m-1)
          BY <1>2, <2>6, <2>13, <4>2
        <5> QED
          BY <2>10, <4>1, <4>2, <5>1
      <4>3. CASE ~(j < m)
        <5>1. ~(j <= m - 1) /\ j - (m - 1) \in 1..(Len(h) - m) /\ m + (j - (m - 1)) = j + 1
          BY <1>2, <2>6, <2>13, <4>3
        <5>2. b[j - (m - 1)] = h[m + (j - (m - 1))]
          BY <2>10, <5>1
        <5> QED
          BY <4>1, <4>3, <5>1, <5>2
      <4> QED
        BY <4>2, <4>3
    <3> QED
      BY <3>1
  <2>15. Goods(g) <= Goods(h) - 1 /\ Goods(g) \in Nat
    BY <2>6, <2>12, <2>13, <2>14, OneLess, GoodsType
  <2>16. MakeRoom(h, k) = g
    BY <2>7, <2>9, <2>11 DEF Without
  <2>17. depth # Unlimited /\ Goods(h) <= depth => Goods(g) <= depth - 1
    BY <1>1, <2>15
  <2> QED
    BY <1>1, <2>12, <2>15, <2>16, <2>17
<1> QED
  BY <1>3, <1>4

-----------------------------------------------------------------------------
(***************************************************************************)
(* The invariant.  The replay of unread events may be cut off at the depth *)
(* when the history holds no more valid samples than that, which it does   *)
(* not have to when the topic has several instances.                       *)
(***************************************************************************)
Fits == OneInstance /\ depth # Unlimited => Goods(history) <= depth

\* the replay is never cut off, or there is one instance
CutFits == kind = "sub" /\ depth # Unlimited => OneInstance
Covered == CutFits => NothingUnannounced
ReaderInv == TypeOK /\ Fits /\ Covered /\ AnnouncedOnce

\* the threads in rmw_take, one less or one more
LEMMA InFlightType == InFlight \in Nat /\ IsFiniteSet({t \in Takers : Taking(t)})
<1>1. IsFiniteSet({t \in Takers : Taking(t)})
  BY TakersAssumption, FS_Subset
<1> QED
  BY <1>1, FS_CardinalityType DEF InFlight

\* (after a step of one of them)
LEMMA InFlightAfter ==
  ASSUME NEW t \in Takers, NEW p, pc \in [Takers -> {"idle", "take", "ser"}],
         pc' = [pc EXCEPT ![t] = p]
  PROVE  /\ Taking(t) /\ p = "idle" => InFlight' = InFlight - 1
         /\ ~Taking(t) /\ p # "idle" => InFlight' = InFlight + 1
<1> DEFINE S == {u \in Takers : Taking(u)}
           T == {u \in Takers : pc'[u] # "idle"}
<1>1. IsFiniteSet(S) /\ InFlight = Cardinality(S) /\ InFlight \in Nat
  BY InFlightType DEF InFlight
<1>2. InFlight' = Cardinality(T)
  BY DEF InFlight, Taking
<1>3. \A u \in Takers : u \in S <=> pc[u] # "idle"
  BY DEF Taking
<1>4. Taking(t) <=> t \in S
  OBVIOUS
<1>5. p = "idle" => T = S \ {t}
  BY <1>3
<1>6. p # "idle" => T = S \cup {t}
  BY <1>3
<1> HIDE DEF S, T
<1>7. Taking(t) /\ p = "idle" => InFlight' = InFlight - 1
  BY <1>1, <1>2, <1>4, <1>5, FS_RemoveElement
<1>8. ~Taking(t) /\ p # "idle" => InFlight' = InFlight + 1
  BY <1>1, <1>2, <1>4, <1>6, FS_AddElement
<1> QED
  BY <1>7, <1>8

\* what the invariant says in numbers
Due == (announced - started) + InFlight + unread_count + pending + errors
Counts == kind # "event" /\ CutFits
\* (all of them numbers)
LEMMA InNumbers ==
  ASSUME TypeOK
  PROVE  /\ Goods(history) \in Nat /\ Due \in Int
         /\ Covered <=> (Counts => Goods(history) <= Due)
         /\ announced \in Nat /\ started \in Nat /\ started <= announced /\ unread_count \in Nat
         /\ pending \in Nat /\ errors \in Nat /\ arrived \in Nat /\ InFlight \in Nat
<1>1. history \in Seq(Samples)
  BY DEF TypeOK
<1>2. Goods(history) \in Nat /\ Len(Good(history)) = Goods(history)
  BY <1>1, GoodsType
<1>3. /\ announced \in Nat /\ started \in Nat /\ started <= announced /\ unread_count \in Nat
      /\ pending \in Nat /\ errors \in Nat /\ arrived \in Nat
  BY BoundAssumption DEF TypeOK
<1>4. InFlight \in Nat
  BY InFlightType
<1>5. Due \in Int
  BY <1>3, <1>4 DEF Due
<1>6. Covered <=> (Counts => Goods(history) <= Due)
  BY <1>2 DEF NothingUnannounced, Due, Covered, Counts
<1> QED
  BY <1>2, <1>3, <1>4, <1>5, <1>6

\* (the same after a step)
LEMMA InNumbersAfter ==
  ASSUME TypeOK'
  PROVE  Covered' <=> (Counts' => Goods(history)' <= Due')
<1>1. history' \in Seq(Samples)
  BY DEF TypeOK
<1>2. Len(Good(history'))= Goods(history')
  BY <1>1, GoodsType
<1> QED
  BY <1>2 DEF NothingUnannounced, Due, Covered, Counts

\* the kind of an entity and the depth of its history never change
LEMMA SameCounts ==
  ASSUME UNCHANGED <<kind, depth>>
  PROVE  Counts' = Counts
BY DEF Counts, CutFits, OneInstance

\* nothing has arrived at first, and nothing is announced
LEMMA ReaderInit == Init => ReaderInv
<1> SUFFICES ASSUME Init PROVE ReaderInv
  OBVIOUS
<1>1. depth \in {Unlimited} \cup (Nat \ {0})
  BY ProfileAssumption DEF Init, HistoryDepth
<1>2. TypeOK
  <2>1. <<>> \in Seq(Samples) /\ Len(<<>>) = 0
    BY EmptySeq
  <2>2. 0 \in 0..MaxSamples /\ 0 \in 0..MaxErrors /\ 0 \in 0..0
    BY BoundAssumption
  <2>3. pc \in [Takers -> {"idle", "take", "ser"}] /\ last \in [Takers -> Samples \cup {NoSample}]
        /\ ret \in [Takers -> {"OK", "ERROR"}]
    BY DEF Init
  <2>4. seq.size = 0 /\ seq.took = <<>>
    BY DEF Init, NoSeq
  <2> QED
    BY <1>1, <2>1, <2>2, <2>3, <2>4 DEF Init, TypeOK
<1>3. Goods(history) = 0
  <2>1. history \in Seq(Samples) /\ Len(history) = 0
    BY <1>2, EmptySeq DEF Init, TypeOK
  <2>2. Goods(history) \in Nat /\ Goods(history) <= Len(history)
    BY <2>1, GoodsType
  <2> QED
    BY <2>1, <2>2
<1>4. Fits
  BY <1>1, <1>3 DEF Fits, Unlimited
<1>5. Covered
  <2>1. Due = InFlight /\ InFlight \in Nat
    BY InFlightType DEF Init, Due
  <2> QED
    BY <1>2, <1>3, <2>1, InNumbers
<1>6. AnnouncedOnce
  BY DEF Init, AnnouncedOnce
<1> QED
  BY <1>2, <1>4, <1>5, <1>6 DEF ReaderInv

-----------------------------------------------------------------------------
(***************************************************************************)
(* Every step keeps the types.                                             *)
(***************************************************************************)
\* the types are kept
LEMMA TypeStep == TypeOK /\ [Next]_vars => TypeOK'
<1> SUFFICES ASSUME TypeOK, [Next]_vars PROVE TypeOK'
  OBVIOUS
<1>1. /\ history \in Seq(Samples) /\ announced \in Nat /\ started \in 0..announced
      /\ unread_count \in Nat /\ depth \in {Unlimited} \cup (Nat \ {0}) /\ seq.size \in 0..Len(seq.took)
      /\ pending \in Nat /\ arrived \in 0..MaxSamples /\ errors \in 0..MaxErrors
  BY DEF TypeOK
<1>2. CASE UNCHANGED vars
  BY <1>2 DEF TypeOK, vars, dds, cb, taker
<1>3. ASSUME NEW valid \in BOOLEAN, NEW k \in Instances, Arrive(valid, k) PROVE TypeOK'
  <2>1. PICK s : s = [n |-> arrived + 1, valid |-> valid, of |-> k]
    OBVIOUS
  <2>2. s \in Samples /\ arrived' \in 0..MaxSamples /\ pending' \in Nat
    BY <1>1, <1>3, <2>1, BoundAssumption DEF Arrive, Samples
  <2>3. Append(history, s) \in Seq(Samples) /\ Append(MakeRoom(history, k), s) \in Seq(Samples)
    BY <1>1, <2>2, GoodsRoom, GoodsAppend
  <2>4. history' \in Seq(Samples)
    BY <1>1, <1>3, <2>1, <2>3 DEF Arrive
  <2> QED
    BY <1>3, <2>2, <2>4 DEF Arrive, TypeOK, cb, taker
<1>4. CASE CallbackStep
  <2>1. Events(unread_count) \in Nat
    BY <1>1 DEF Events, DepthReported, Unlimited
  <2>2. announced' \in Nat /\ started \in 0..announced' /\ unread_count' \in Nat /\ pending' \in Nat
    BY <1>1, <1>4, <2>1, SMTT(40) DEF CallbackStep, Listener, SetCallback, SetCallbackFails, ClearCallback, cb
  <2>3. UNCHANGED <<kind, depth, history, arrived, started, errors, pc, last, ret, seq>> /\ callback' \in BOOLEAN
    BY <1>4 DEF CallbackStep, Listener, SetCallback, SetCallbackFails, ClearCallback, cb, dds, taker, TypeOK
  <2> QED
    BY <2>2, <2>3 DEF TypeOK
<1>5. ASSUME NEW t \in Takers, TakeStep(t) PROVE TypeOK'
  <2>1. UNCHANGED <<kind, depth, arrived, pending, callback, unread_count, announced, seq>>
    BY <1>5 DEF TakeStep, StartTake, TakeValid, SkipInvalid, TakeNothing, TakeFails, ResizeFails, dds, cb
  <2>2. started' \in 0..announced /\ errors' \in 0..MaxErrors
    BY <1>1, <1>5, BoundAssumption
       DEF TakeStep, StartTake, TakeValid, SkipInvalid, TakeNothing, TakeFails, ResizeFails
  <2>3. history # <<>> => Tail(history) \in Seq(Samples) /\ Head(history) \in Samples
    BY <1>1, GoodsTail
  <2>4. history' \in Seq(Samples)
    BY <1>1, <1>5, <2>3
       DEF TakeStep, StartTake, TakeValid, SkipInvalid, TakeNothing, TakeFails, ResizeFails, dds
  <2>5. /\ pc' \in [Takers -> {"idle", "take", "ser"}] /\ last' \in [Takers -> Samples \cup {NoSample}]
        /\ ret' \in [Takers -> {"OK", "ERROR"}]
    BY <1>5, <2>3 DEF TypeOK, TakeStep, StartTake, TakeValid, SkipInvalid, TakeNothing, TakeFails,
                      ResizeFails, Finish, taker
  <2> QED
    BY <2>1, <2>2, <2>4, <2>5 DEF TypeOK
<1>6. ASSUME NEW count \in 1..Capacity, TakeSeq(count) PROVE TypeOK'
  <2>1. PICK n : n = IF count < Len(history) THEN count ELSE Len(history)
    OBVIOUS
  <2>2. Len(history) \in Nat /\ n \in 0..Len(history)
    BY <1>1, <1>6, <2>1, LenProperties, BoundAssumption
  <2>3. SubSeq(history, n + 1, Len(history)) \in Seq(Samples)
    BY <1>1, <2>2, GoodsRest
  <2>4. PICK took : took = SubSeq(history, 1, n)
    OBVIOUS
  <2>5. took \in Seq(Samples)
    <3>1. \A j \in 1..n : j \in 1..Len(history)
      BY <2>2
    <3>2. \A j \in 1..n : history[j] \in Samples
      BY <1>1, <3>1, ElementOfSeq
    <3>3. 1 \in Int /\ n \in Int
      BY <2>2
    <3> QED
      BY <2>4, <3>2, <3>3, SubSeqProperties
  <2>6. Len(Good(took)) \in 0..Len(took)
    <3>1. Len(Good(took)) \in Nat /\ Len(Good(took)) <= Len(took)
      BY <2>5, GoodsType
    <3>2. Len(took) \in Nat
      BY <2>5, LenProperties
    <3> QED
      BY <3>1, <3>2
  <2>7. history' = SubSeq(history, n + 1, Len(history)) /\ seq'.took = took /\ seq'.size = Len(Good(took))
    BY <1>6, <2>1, <2>4 DEF TakeSeq
  <2>8. UNCHANGED <<kind, depth, arrived, pending, callback, unread_count, announced, started, errors, pc, last, ret>>
    BY <1>6 DEF TakeSeq, cb, taker
  <2> QED
    BY <2>3, <2>6, <2>7, <2>8 DEF TypeOK
<1> QED
  BY <1>2, <1>3, <1>4, <1>5, <1>6 DEF Next

-----------------------------------------------------------------------------
(***************************************************************************)
(* Every step keeps the count.                                             *)
(***************************************************************************)
\* a sample comes: the listener will be called for it
LEMMA CountArrive ==
  ASSUME ReaderInv, TypeOK', NEW valid \in BOOLEAN, NEW k \in Instances, Arrive(valid, k)
  PROVE  Fits' /\ Covered' /\ AnnouncedOnce'
<1>1. TypeOK /\ Fits /\ Covered /\ AnnouncedOnce
  BY DEF ReaderInv
<1>2. /\ history \in Seq(Samples) /\ depth \in {Unlimited} \cup (Nat \ {0}) /\ arrived \in Nat
  BY <1>1, InNumbers DEF TypeOK
<1>3. PICK s : s = [n |-> arrived + 1, valid |-> valid, of |-> k]
  OBVIOUS
<1>4. s \in Samples /\ s.valid = valid
  BY <1>2, <1>3, BoundAssumption DEF Arrive, Samples
<1>5. PICK r : r = MakeRoom(history, k)
  OBVIOUS
<1>6. /\ r \in Seq(Samples) /\ Goods(r) <= Goods(history) /\ Goods(r) \in Nat
      /\ OneInstance /\ depth # Unlimited => Goods(r) <= depth - 1
  BY <1>1, <1>2, <1>5, GoodsRoom, GoodsType DEF Fits
<1>7. /\ Goods(history) \in Nat
      /\ Goods(Append(r, s)) \in Nat /\ Goods(Append(r, s)) <= Goods(r) + 1
      /\ Goods(Append(history, s)) \in Nat /\ (~valid => Goods(Append(history, s)) <= Goods(history))
  BY <1>2, <1>4, <1>6, GoodsAppend, GoodsType
<1>8. PICK g : g = history'
  OBVIOUS
<1>9. Goods(g) <= Goods(history) + 1 /\ Goods(g) \in Nat /\ (OneInstance /\ depth # Unlimited => Goods(g) <= depth)
  <2>1. g = history \/ (valid /\ g = Append(r, s)) \/ (~valid /\ g = Append(history, s))
    BY <1>3, <1>5, <1>8 DEF Arrive
  <2>2. CASE g = history
    BY <1>1, <1>7, <2>2 DEF Fits
  <2>3. CASE valid /\ g = Append(r, s)
    BY <1>2, <1>6, <1>7, <2>3 DEF Unlimited
  <2>4. CASE ~valid /\ g = Append(history, s)
    BY <1>1, <1>2, <1>7, <2>4 DEF Fits, Unlimited
  <2> QED
    BY <2>1, <2>2, <2>3, <2>4
<1>10. /\ UNCHANGED <<kind, depth, unread_count, announced, started, errors, pc>>
       /\ arrived' = arrived + 1 /\ pending' = pending + 1
  BY DEF Arrive, cb, taker
<1>11. InFlight' = InFlight
  BY <1>10 DEF InFlight, Taking
<1>12. Due' = Due + 1 /\ Due \in Int
  BY <1>1, <1>10, <1>11, InNumbers DEF Due
<1>13. Fits'
  BY <1>8, <1>9, <1>10 DEF Fits, Goods, ValidAt, OneInstance
<1>14. Covered'
  <2>1. Goods(history)' = Goods(g)
    BY <1>8 DEF Goods, ValidAt
  <2>2. Counts => Goods(g) <= Due'
    BY <1>1, <1>7, <1>9, <1>12, InNumbers
  <2> QED
    BY <1>10, <2>1, <2>2, InNumbersAfter, SameCounts
<1>15. AnnouncedOnce'
  BY <1>1, <1>10, InNumbers DEF AnnouncedOnce
<1> QED
  BY <1>13, <1>14, <1>15

\* what is counted is announced; what is cut off is more than the history holds
LEMMA CountCallback ==
  ASSUME ReaderInv, TypeOK', CallbackStep
  PROVE  Fits' /\ Covered' /\ AnnouncedOnce'
<1>1. TypeOK /\ Fits /\ Covered /\ AnnouncedOnce
  BY DEF ReaderInv
<1>2. UNCHANGED <<kind, depth, history, arrived, started, errors, pc>>
  BY DEF CallbackStep, Listener, SetCallback, SetCallbackFails, ClearCallback, dds, taker
<1>3. InFlight' = InFlight
  BY <1>2 DEF InFlight, Taking
<1>4. Fits' /\ Goods(history)' = Goods(history)
  BY <1>1, <1>2 DEF Fits, Goods, ValidAt
<1>5. CASE Listener \/ SetCallbackFails \/ ClearCallback
  <2>1. announced' + unread_count' + pending' = announced + unread_count + pending
    BY <1>1, <1>5, InNumbers DEF Listener, SetCallbackFails, ClearCallback, cb
  <2>2. /\ announced' \in Nat /\ unread_count' \in Nat /\ pending' \in Nat
    BY DEF TypeOK
  <2>3. Due' = Due
    BY <1>1, <1>2, <1>3, <2>1, <2>2, InNumbers DEF Due
  <2>4. Covered'
    BY <1>1, <1>2, <1>4, <2>3, InNumbers, InNumbersAfter, SameCounts
  <2>5. AnnouncedOnce'
    BY <1>1, <1>2, <2>1 DEF AnnouncedOnce
  <2> QED
    BY <1>4, <2>4, <2>5
<1>6. CASE SetCallback
  <2>1. announced' = announced + Events(unread_count) /\ unread_count' = 0 /\ pending' = pending
    BY <1>6 DEF SetCallback
  <2>2. depth \in {Unlimited} \cup (Nat \ {0})
    BY <1>1 DEF TypeOK
  <2>3. \/ Events(unread_count) = unread_count
        \/ kind = "sub" /\ depth # Unlimited /\ Events(unread_count) = depth /\ depth \in 1..unread_count
    BY <2>2 DEF Events, DepthReported, Unlimited
  <2>4. CASE Events(unread_count) = unread_count
    <3>1. announced' + unread_count' + pending' = announced + unread_count + pending
      BY <1>1, <2>1, <2>4, InNumbers
    <3>2. Due' = Due
      BY <1>1, <1>2, <1>3, <2>1, <2>4, InNumbers DEF Due
    <3>3. Covered'
      BY <1>1, <1>2, <1>4, <3>2, InNumbers, InNumbersAfter, SameCounts
    <3>4. AnnouncedOnce'
      BY <1>1, <1>2, <3>1 DEF AnnouncedOnce
    <3> QED
      BY <1>4, <3>3, <3>4
  <2>5. CASE kind = "sub" /\ depth # Unlimited /\ Events(unread_count) = depth /\ depth \in 1..unread_count
    <3>1. depth \in Nat /\ depth <= unread_count
      BY <1>1, <2>5, InNumbers
    <3>2. announced' = announced + depth
      BY <2>1, <2>5
    <3>3. Due' >= depth
      BY <1>1, <1>2, <1>3, <2>1, <3>1, <3>2, InNumbers DEF Due
    <3>4. Due' \in Int
      BY <1>1, <1>2, <1>3, <2>1, <3>1, <3>2, InNumbers DEF Due
    <3>5. Counts => Goods(history) <= Due'
      BY <1>1, <2>5, <3>1, <3>3, <3>4, InNumbers DEF Fits, Counts, CutFits
    <3>6. Covered'
      BY <1>2, <1>4, <3>5, InNumbersAfter, SameCounts
    <3>7. AnnouncedOnce'
      BY <1>1, <1>2, <2>1, <2>5, <3>1, <3>2, InNumbers DEF AnnouncedOnce
    <3> QED
      BY <1>4, <3>6, <3>7
  <2> QED
    BY <2>3, <2>4, <2>5
<1> QED
  BY <1>5, <1>6 DEF CallbackStep

\* what a history that a taker leaves has
LEMMA FewerGoods ==
  ASSUME TypeOK, Fits, UNCHANGED depth, history' \in Seq(Samples), Goods(history') <= Goods(history)
  PROVE  Fits'
<1>1. Goods(history') \in Nat /\ Goods(history) \in Nat
  BY InNumbers, GoodsType
<1>2. depth # Unlimited => depth \in Nat
  BY DEF TypeOK
<1>3. OneInstance /\ depth # Unlimited => Goods(history') <= depth
  BY <1>1, <1>2 DEF Fits
<1> QED
  BY <1>3 DEF Fits, Goods, ValidAt, OneInstance

\* (the number of calls in progress after a step)
LEMMA InFlightNat == InFlight \in Nat
BY InFlightType

\* (the same after a step)
LEMMA InFlightTypeAfter == (InFlight \in Nat)'
BY InFlightNat, PTL

\* a call takes one valid sample, or finds that there is none, or fails
LEMMA CountTake ==
  ASSUME ReaderInv, TypeOK', NEW t \in Takers, TakeStep(t)
  PROVE  Fits' /\ Covered' /\ AnnouncedOnce'
<1>1. TypeOK /\ Fits /\ Covered /\ AnnouncedOnce
  BY DEF ReaderInv
<1>2. UNCHANGED <<kind, depth, arrived, pending, unread_count, announced>>
  BY DEF TakeStep, StartTake, TakeValid, SkipInvalid, TakeNothing, TakeFails, ResizeFails, dds, cb
<1>3. AnnouncedOnce'
  BY <1>1, <1>2 DEF AnnouncedOnce
<1>4. pc \in [Takers -> {"idle", "take", "ser"}] /\ history \in Seq(Samples) /\ history' \in Seq(Samples)
  BY <1>1 DEF TypeOK
<1>5. PICK g : g = history'
  OBVIOUS
<1>6. Goods(g) \in Nat /\ Goods(history)' = Goods(g) /\ g \in Seq(Samples)
  BY <1>4, <1>5, GoodsType DEF Goods, ValidAt
<1>7. ASSUME NEW code, NEW s, Finish(t, s, code), Taking(t) PROVE InFlight' = InFlight - 1
  BY <1>4, <1>7, InFlightAfter DEF Finish
<1>8. /\ history # <<>> /\ g = Tail(history) => Goods(g) <= Goods(history)
      /\ history # <<>> /\ g = Tail(history) /\ Head(history).valid => Goods(g) <= Goods(history) - 1
  BY <1>4, GoodsTail
<1>9. ASSUME Goods(g) <= Goods(history), Counts => Goods(g) <= Due'
      PROVE  Fits' /\ Covered'
  <2>1. Fits'
    BY <1>1, <1>2, <1>4, <1>5, <1>9, FewerGoods
  <2>2. Covered'
    BY <1>2, <1>6, <1>9, InNumbersAfter, SameCounts
  <2> QED
    BY <2>1, <2>2
<1>10. ASSUME NEW call \in {"take", "ser"}, StartTake(t, call) PROVE Fits' /\ Covered'
  <2>1. InFlight' = InFlight + 1
    BY <1>4, <1>10, InFlightAfter DEF StartTake, Taking
  <2>2. g = history /\ started' = started + 1 /\ errors' = errors
    BY <1>5, <1>10 DEF StartTake, dds
  <2>3. Due' = Due
    BY <1>1, <1>2, <2>1, <2>2, InNumbers DEF Due
  <2> QED
    BY <1>1, <1>9, <2>2, <2>3, InNumbers
<1>11. CASE TakeValid(t) \/ ResizeFails(t)
  <2>1. Taking(t) /\ history # <<>> /\ g = Tail(history) /\ Head(history).valid
    BY <1>5, <1>11 DEF TakeValid, ResizeFails, Taking
  <2>2. UNCHANGED <<started, errors>> /\ \E s, code : Finish(t, s, code)
    BY <1>11 DEF TakeValid, ResizeFails
  <2>3. InFlight' = InFlight - 1
    BY <1>7, <2>1, <2>2
  <2>4. Due' = Due - 1
    BY <1>1, <1>2, <2>2, <2>3, InNumbers DEF Due
  <2>5. Goods(g) <= Goods(history) - 1
    BY <1>8, <2>1
  <2>6. Goods(g) <= Goods(history) /\ (Counts => Goods(g) <= Due')
    BY <1>1, <1>6, <2>4, <2>5, InNumbers
  <2> QED
    BY <1>3, <1>9, <2>6
<1>12. CASE SkipInvalid(t)
  <2>1. history # <<>> /\ g = Tail(history) /\ UNCHANGED <<started, errors, pc>>
    BY <1>5, <1>12 DEF SkipInvalid, taker
  <2>2. InFlight' = InFlight
    BY <2>1 DEF InFlight, Taking
  <2>3. Due' = Due
    BY <1>1, <1>2, <2>1, <2>2, InNumbers DEF Due
  <2>4. Goods(g) <= Goods(history)
    BY <1>8, <2>1
  <2>5. Counts => Goods(g) <= Due'
    BY <1>1, <1>6, <2>3, <2>4, InNumbers
  <2> QED
    BY <1>3, <1>9, <2>4, <2>5
<1>13. CASE TakeNothing(t)
  <2>1. Taking(t) /\ history = <<>> /\ g = history /\ UNCHANGED <<started, errors>>
    BY <1>5, <1>13 DEF TakeNothing, dds
  <2>2. Goods(g) = 0
    <3>1. Len(g) = 0 /\ Goods(g) <= Len(g)
      BY <1>6, <2>1, EmptySeq, GoodsType
    <3> QED
      BY <1>6, <3>1
  <2>3. InFlight' \in Nat /\ started <= announced
    BY <1>1, InFlightTypeAfter, InNumbers
  <2>4. InFlight' = InFlight - 1
    BY <1>7, <1>13, <2>1 DEF TakeNothing
  <2>5. Due' = (announced - started) + (InFlight - 1) + unread_count + pending + errors
    BY <1>2, <2>1, <2>4 DEF Due
  <2>6. Due' >= 0
    BY <1>1, <2>3, <2>4, <2>5, InNumbers
  <2> QED
    BY <1>1, <1>3, <1>6, <1>9, <2>1, <2>2, <2>6
<1>14. CASE TakeFails(t)
  <2>1. Taking(t) /\ g = history /\ started' = started /\ errors' = errors + 1
    BY <1>5, <1>14 DEF TakeFails, dds
  <2>2. InFlight' = InFlight - 1
    BY <1>7, <1>14, <2>1 DEF TakeFails
  <2>3. Due' = Due
    BY <1>1, <1>2, <2>1, <2>2, InNumbers DEF Due
  <2> QED
    BY <1>1, <1>3, <1>9, <2>1, <2>3, InNumbers
<1> QED
  BY <1>3, <1>10, <1>11, <1>12, <1>13, <1>14 DEF TakeStep

\* rmw_take_sequence takes samples nobody announced it for
LEMMA CountTakeSeq ==
  ASSUME ReaderInv, TypeOK', NEW count \in 1..Capacity, TakeSeq(count)
  PROVE  Fits' /\ Covered' /\ AnnouncedOnce'
<1>1. TypeOK /\ Fits /\ Covered /\ AnnouncedOnce
  BY DEF ReaderInv
<1>2. UNCHANGED <<kind, depth, arrived, pending, unread_count, announced, started, errors, pc>>
  BY DEF TakeSeq, cb, taker
<1>3. history \in Seq(Samples) /\ history' \in Seq(Samples)
  BY <1>1 DEF TypeOK
<1>4. PICK n : n = IF count < Len(history) THEN count ELSE Len(history)
  OBVIOUS
<1>5. Len(history) \in Nat /\ n \in 0..Len(history)
  BY <1>3, <1>4, LenProperties, BoundAssumption
<1>6. PICK g : g = history'
  OBVIOUS
<1>7. g = SubSeq(history, n + 1, Len(history))
  BY <1>4, <1>6 DEF TakeSeq
<1>8. Goods(g) <= Goods(history) /\ Goods(g) \in Nat /\ Goods(history)' = Goods(g)
  BY <1>3, <1>5, <1>6, <1>7, GoodsRest, GoodsType DEF Goods, ValidAt
<1>9. Fits'
  BY <1>1, <1>2, <1>3, <1>6, <1>8, FewerGoods
<1>10. Due' = Due
  BY <1>2 DEF Due, InFlight, Taking
<1>11. Counts => Goods(g) <= Due'
  BY <1>1, <1>8, <1>10, InNumbers
<1>12. Covered'
  BY <1>2, <1>8, <1>11, InNumbersAfter, SameCounts
<1>13. AnnouncedOnce'
  BY <1>1, <1>2 DEF AnnouncedOnce
<1> QED
  BY <1>9, <1>12, <1>13

\* every step keeps the invariant
LEMMA ReaderStep == ReaderInv /\ [Next]_vars => ReaderInv'
<1> SUFFICES ASSUME ReaderInv, [Next]_vars PROVE ReaderInv'
  OBVIOUS
<1>1. TypeOK'
  BY TypeStep DEF ReaderInv
<1>2. CASE UNCHANGED vars
  <2>1. UNCHANGED <<kind, depth, history, arrived, pending, unread_count, announced, started, errors, pc>>
    BY <1>2 DEF vars, dds, cb, taker
  <2>2. Fits' /\ Covered' /\ AnnouncedOnce'
    BY <2>1 DEF ReaderInv, Fits, Covered, CutFits, OneInstance, NothingUnannounced, AnnouncedOnce,
                InFlight, Taking, Goods, Good, ValidAt
  <2> QED
    BY <1>1, <2>2 DEF ReaderInv
<1>3. CASE Next
  <2>1. Fits' /\ Covered' /\ AnnouncedOnce'
    BY <1>1, <1>3, CountArrive, CountCallback, CountTake, CountTakeSeq DEF Next
  <2> QED
    BY <1>1, <2>1 DEF ReaderInv
<1> QED
  BY <1>2, <1>3

\* the invariant holds in every execution
LEMMA ReaderAlways == Spec => []ReaderInv
BY ReaderInit, ReaderStep, PTL DEF Spec

\* every variable keeps its type; in particular an application that calls
\* rmw_take once per event never calls more often than it was told to
THEOREM ReaderTypeCorrect == Spec => []TypeOK
BY ReaderAlways, PTL DEF ReaderInv

\* rmw_subscription_set_on_new_message_callback: no valid sample is left
\* unannounced, whatever calls run and wherever samples are pushed out or taken,
\* as long as the replay is not cut off (a history that keeps all, or a client or
\* service) or the topic has one instance, so that the depth the replay is cut
\* off at is what the whole reader holds
THEOREM NothingStaysUnannounced ==
  Spec => []((kind = "sub" /\ depth # Unlimited => OneInstance) => NothingUnannounced)
BY ReaderAlways, PTL DEF ReaderInv, Covered, CutFits

\* dds_listener_callback, rmw_*_set_on_new_*_callback: no event is announced
\* twice, and none is lost but by the cut
THEOREM EventsAnnouncedOnce == Spec => []AnnouncedOnce
BY ReaderAlways, PTL DEF ReaderInv

-----------------------------------------------------------------------------
(***************************************************************************)
(* Where valid samples go.                                                 *)
(***************************************************************************)
\* rmw_take, rmw_take_serialized_message, rmw_take_sequence: a valid sample
\* leaves the reader with a caller, with an error, or pushed out by a newer one
THEOREM DataLostOnlyWithError == Spec => LostOnlyWithError
<1>1. ASSUME TypeOK, [Next]_vars, NEW s \in Seen(history) \ Seen(history')
      PROVE  \/ arrived' # arrived
             \/ s \in Seen(seq'.took)
             \/ \E t \in Takers : Taking(t) /\ (last'[t] = s \/ ret'[t] = "ERROR")
  <2>1. history \in Seq(Samples) /\ arrived \in Nat
    BY <1>1, InNumbers DEF TypeOK
  <2>2. PICK i \in DOMAIN history : history[i] = s /\ s.valid /\ s \in Samples
    BY <1>1 DEF Seen
  <2>3. PICK l \in Nat : l = Len(history) /\ i \in 1..l
    BY <2>1, <2>2, LenProperties
  <2>4. PICK g : g = history' /\ ~\E j \in DOMAIN g : g[j] = s
    BY <1>1, <2>2 DEF Seen
  <2>5. ASSUME NEW j \in Nat, g \in Seq(Samples), j \in 1..Len(g) PROVE g[j] # s
    BY <2>4, <2>5, LenProperties
  <2>6. history' # history
    BY <2>2, <2>4
  <2>7. ASSUME history # <<>>, g = Tail(history) PROVE Head(history) = s
    <3>1. /\ g \in Seq(Samples) /\ Len(g) = l - 1 /\ \A j \in 1..Len(g) : g[j] = history[j + 1]
      BY <2>1, <2>3, <2>7, HeadTailProperties
    <3>2. CASE i = 1
      BY <2>2, <3>2
    <3>3. CASE i # 1
      <4>1. i - 1 \in 1..Len(g) /\ i - 1 \in Nat /\ i - 1 + 1 = i
        BY <2>3, <3>1, <3>3
      <4>2. g[i - 1] = s
        BY <2>2, <3>1, <4>1
      <4> QED
        BY <2>5, <3>1, <4>1, <4>2
    <3> QED
      BY <3>2, <3>3
  <2>8. ASSUME NEW valid \in BOOLEAN, NEW k \in Instances, Arrive(valid, k) PROVE arrived' # arrived
    BY <2>1, <2>8 DEF Arrive
  <2>9. ASSUME NEW t \in Takers, TakeStep(t)
        PROVE  Taking(t) /\ (last'[t] = s \/ ret'[t] = "ERROR")
    <3>1. \/ TakeValid(t) \/ SkipInvalid(t) \/ ResizeFails(t)
      BY <2>6, <2>9 DEF TakeStep, StartTake, TakeNothing, TakeFails, dds
    <3>2. Taking(t) /\ history # <<>> /\ g = Tail(history)
      BY <2>4, <3>1 DEF TakeValid, SkipInvalid, ResizeFails, Taking
    <3>3. Head(history) = s
      BY <2>7, <3>2
    <3> QED
      BY <1>1, <2>2, <3>1, <3>2, <3>3 DEF TakeValid, SkipInvalid, ResizeFails, Finish, TypeOK
  <2>10. ASSUME NEW count \in 1..Capacity, TakeSeq(count) PROVE s \in Seen(seq'.took)
    <3>1. PICK n : n = IF count < l THEN count ELSE l
      OBVIOUS
    <3>2. n \in 0..l /\ n \in Int
      BY <2>10, <3>1, BoundAssumption
    <3>3. g = SubSeq(history, n + 1, Len(history)) /\ seq'.took = SubSeq(history, 1, n)
      BY <2>3, <2>4, <2>10, <3>1 DEF TakeSeq
    <3>4. /\ g \in Seq(Samples) /\ Len(g) = l - n
          /\ \A j \in 1..(l - n) : g[j] = history[n + j]
      BY <2>1, <2>3, <3>2, <3>3, GoodsRest
    <3>5. i <= n
      <4> SUFFICES ASSUME ~(i <= n) PROVE FALSE
        OBVIOUS
      <4>1. i - n \in 1..(l - n) /\ i - n \in Nat /\ n + (i - n) = i
        BY <2>3, <3>2
      <4>2. g[i - n] = s
        BY <2>2, <3>4, <4>1
      <4> QED
        BY <2>5, <3>4, <4>1, <4>2
    <3>6. PICK took : took = SubSeq(history, 1, n)
      OBVIOUS
    <3>7. took \in Seq(Samples) /\ Len(took) = n /\ took[i] = s
      <4>1. \A j \in 1..n : history[j] \in Samples
        <5>1. \A j \in 1..n : j \in 1..Len(history)
          BY <2>3, <3>2
        <5> QED
          BY <2>1, <5>1, ElementOfSeq
      <4>2. 1 \in Int /\ n - 1 + 1 = n /\ 1 <= n /\ i \in 1..n /\ 1 + i - 1 = i
        BY <2>3, <3>2, <3>5
      <4>3. /\ took \in Seq(Samples) /\ Len(took) = IF 1 <= n THEN n - 1 + 1 ELSE 0
            /\ \A j \in 1..(n - 1 + 1) : took[j] = history[1 + j - 1]
        BY <3>2, <3>6, <4>1, <4>2, SubSeqProperties
      <4> QED
        BY <2>2, <4>2, <4>3
    <3>8. i \in DOMAIN took
      BY <2>3, <3>2, <3>5, <3>7, LenProperties
    <3> QED
      BY <2>2, <3>3, <3>6, <3>7, <3>8 DEF Seen
  <2>11. ~CallbackStep
    BY <2>6 DEF CallbackStep, Listener, SetCallback, SetCallbackFails, ClearCallback, dds
  <2>12. ~UNCHANGED vars
    BY <2>6 DEF vars, dds
  <2> QED
    BY <1>1, <2>8, <2>9, <2>10, <2>11, <2>12 DEF Next
<1>2. TypeOK /\ [Next]_vars =>
        [\A s \in Seen(history) \ Seen(history') :
           \/ arrived' # arrived
           \/ s \in Seen(seq'.took)
           \/ \E t \in Takers : Taking(t) /\ (last'[t] = s \/ ret'[t] = "ERROR")]_vars
  BY <1>1
<1> QED
  BY <1>2, ReaderTypeCorrect, PTL DEF Spec, LostOnlyWithError
=============================================================================
