--------------------------- MODULE SerdataProofs ---------------------------
(***************************************************************************)
(* What is proved about Serdata for every set of threads, objects, loans,  *)
(* topics and samples and every codec: references are exact.               *)
(***************************************************************************)
EXTENDS Serdata, FiniteSetTheorems, TLAPS

-----------------------------------------------------------------------------
(***************************************************************************)
(* References.  A reader's cache, the application and the plugin pass a    *)
(* loan on; no two of them have the same one at a time, and the loan of a  *)
(* publisher is in no object.                                              *)
(***************************************************************************)
OneKeeper ==
  /\ \A g, h \in held : g.l = h.l => g = h
  /\ \A h \in held : h.l \notin psmx
  /\ \A h \in held, o \in rhc : obj[o].loan # h.l
  /\ \A o \in rhc : obj[o].loan \notin psmx
  /\ \A o, p \in rhc : obj[o].loan = obj[p].loan /\ obj[o].loan # None => o = p
  /\ \A h \in held, o \in Live : h.by = "publisher" => obj[o].loan # h.l

\* What is serialized on demand is in a loan.
OnLoan == \A t \in Threads : thread[t].pc \in {"resize", "fill"} => obj[thread[t].o].loan # None

RefInv == TypeOK /\ IsFiniteSet(held) /\ ReferencesExact /\ OneKeeper /\ OnLoan

\* the users of an object and the holders of a loan can be counted
LEMMA Countable ==
  ASSUME RefInv
  PROVE  /\ \A o \in Objs : IsFiniteSet(Users(o)) /\ Cardinality(Users(o)) \in Nat
         /\ \A l \in Loans : /\ IsFiniteSet(HolderObjs(l)) /\ Cardinality(HolderObjs(l)) \in Nat
                             /\ IsFiniteSet(Holds(l)) /\ Cardinality(Holds(l)) \in Nat
         /\ \A b \in BOOLEAN : Count(b) \in {0, 1}
<1>1. \A o \in Objs : Users(o) \subseteq Threads
  BY DEF Users
<1>2. \A l \in Loans : HolderObjs(l) \subseteq Objs /\ Holds(l) \subseteq held
  BY DEF HolderObjs, Holds, Live
<1>3. \A o \in Objs : IsFiniteSet(Users(o)) /\ Cardinality(Users(o)) \in Nat
  BY <1>1, FiniteAssumption, FS_Subset, FS_CardinalityType
<1>4. \A l \in Loans : IsFiniteSet(HolderObjs(l)) /\ Cardinality(HolderObjs(l)) \in Nat
  BY <1>2, FiniteAssumption, FS_Subset, FS_CardinalityType
<1>5. \A l \in Loans : IsFiniteSet(Holds(l)) /\ Cardinality(Holds(l)) \in Nat
  BY <1>2, FS_Subset, FS_CardinalityType DEF RefInv
<1> QED
  BY <1>3, <1>4, <1>5 DEF Count

\* whatever is in use exists
LEMMA InUse ==
  ASSUME RefInv
  PROVE  /\ \A o \in whc \cup rhc : o \in Live
         /\ \A t \in Threads : ~At(t, "idle") => Of(t) \in Live /\ thread[t] \in CallType
         /\ \A o \in Live : obj[o] \in ObjectType
         /\ \A l \in psmx : loan[l] \in LoanType
         /\ \A h \in held : h \in HoldType /\ loan[h.l] \in LoanType
         /\ \A o \in Live : obj[o].loan # None => obj[o].loan \in Loans /\ loan[obj[o].loan] \in LoanType
<1>1. /\ \A o \in Objs : obj[o].refs > 0 => obj[o] \in ObjectType
      /\ \A l \in Loans : loan[l].refs > 0 => loan[l] \in LoanType
      /\ \A o \in Objs : obj[o].refs \in Nat
      /\ \A l \in Loans : loan[l].refs \in Nat
  BY DEF RefInv, TypeOK, NoObject, NoLoan, ObjectType, LoanType
<1>2. \A o \in whc \cup rhc : o \in Live
  <2> SUFFICES ASSUME NEW o \in whc \cup rhc PROVE o \in Live
    OBVIOUS
  <2>1. o \in Objs
    BY DEF RefInv, TypeOK
  <2>2. obj[o].refs = Count(o \in whc) + Count(o \in rhc) + Cardinality(Users(o))
    BY <2>1 DEF RefInv, ReferencesExact
  <2> QED
    BY <2>1, <2>2, Countable DEF Live, Count
<1>3. \A t \in Threads : ~At(t, "idle") => Of(t) \in Live /\ thread[t] \in CallType
  <2> SUFFICES ASSUME NEW t \in Threads, ~At(t, "idle")
               PROVE  Of(t) \in Live /\ thread[t] \in CallType
    OBVIOUS
  <2>1. thread[t] \in CallType
    BY DEF RefInv, TypeOK, Idle, At
  <2> DEFINE o == Of(t)
  <2>2. o \in Objs
    BY <2>1 DEF Of, CallType
  <2>3. t \in Users(o)
    BY DEF Users
  <2>4. Cardinality(Users(o)) # 0
    BY <2>2, <2>3, Countable, FS_EmptySet
  <2>5. obj[o].refs = Count(o \in whc) + Count(o \in rhc) + Cardinality(Users(o))
    BY <2>2 DEF RefInv, ReferencesExact
  <2> QED
    BY <2>1, <2>2, <2>4, <2>5, Countable DEF Live, Count
<1>4. \A o \in Live : obj[o] \in ObjectType
  BY <1>1 DEF Live
<1>5. \A l \in psmx : loan[l] \in LoanType
  <2> SUFFICES ASSUME NEW l \in psmx PROVE loan[l] \in LoanType
    OBVIOUS
  <2>1. l \in Loans
    BY DEF RefInv, TypeOK
  <2>2. loan[l].refs = Count(l \in psmx) + Cardinality(HolderObjs(l)) + Cardinality(Holds(l))
    BY <2>1 DEF RefInv, ReferencesExact
  <2> QED
    BY <1>1, <2>1, <2>2, Countable DEF Count
<1>6. \A h \in held : h \in HoldType /\ loan[h.l] \in LoanType
  <2> SUFFICES ASSUME NEW h \in held PROVE h \in HoldType /\ loan[h.l] \in LoanType
    OBVIOUS
  <2>1. h \in HoldType /\ h.l \in Loans
    BY DEF RefInv, TypeOK, HoldType
  <2>2. loan[h.l].refs = Count(h.l \in psmx) + Cardinality(HolderObjs(h.l)) + Cardinality(Holds(h.l))
    BY <2>1 DEF RefInv, ReferencesExact
  <2>3. h \in Holds(h.l)
    BY DEF Holds
  <2>4. Cardinality(Holds(h.l)) # 0
    BY <2>1, <2>3, Countable, FS_EmptySet
  <2> QED
    BY <1>1, <2>1, <2>2, <2>4, Countable DEF Count
<1>7. \A o \in Live : obj[o].loan # None => obj[o].loan \in Loans /\ loan[obj[o].loan] \in LoanType
  <2> SUFFICES ASSUME NEW o \in Live, obj[o].loan # None
               PROVE  obj[o].loan \in Loans /\ loan[obj[o].loan] \in LoanType
    OBVIOUS
  <2> DEFINE l == obj[o].loan
  <2>1. l \in Loans
    BY <1>4 DEF ObjectType
  <2>2. loan[l].refs = Count(l \in psmx) + Cardinality(HolderObjs(l)) + Cardinality(Holds(l))
    BY <2>1 DEF RefInv, ReferencesExact
  <2>3. o \in HolderObjs(l)
    BY DEF HolderObjs
  <2>4. Cardinality(HolderObjs(l)) # 0
    BY <2>1, <2>3, Countable, FS_EmptySet
  <2> QED
    BY <1>1, <2>1, <2>2, <2>4, Countable DEF Count
<1> QED
  BY <1>2, <1>3, <1>4, <1>5, <1>6, <1>7

\* and what is free is in nobody's use
LEMMA NotInUse ==
  ASSUME RefInv
  PROVE  /\ \A o \in FreeObjs : o \in Objs /\ obj[o] = NoObject /\ Users(o) = {}
                                /\ o \notin whc /\ o \notin rhc
         /\ \A l \in FreeLoans : l \in Loans /\ loan[l] = NoLoan /\ l \notin psmx
                                 /\ HolderObjs(l) = {} /\ Holds(l) = {}
<1>1. /\ \A o \in Objs : obj[o].refs = 0 => obj[o] = NoObject
      /\ \A l \in Loans : loan[l].refs = 0 => loan[l] = NoLoan
      /\ \A o \in Objs : obj[o].refs \in Nat
  BY DEF RefInv, TypeOK, ObjectType, LoanType, NoObject, NoLoan
<1>2. ASSUME NEW o \in FreeObjs
      PROVE  o \in Objs /\ obj[o] = NoObject /\ Users(o) = {} /\ o \notin whc /\ o \notin rhc
  <2>1. o \in Objs /\ obj[o].refs = 0
    BY <1>1 DEF FreeObjs, Live
  <2>2. obj[o].refs = Count(o \in whc) + Count(o \in rhc) + Cardinality(Users(o))
    BY <2>1 DEF RefInv, ReferencesExact
  <2>3. o \notin whc /\ o \notin rhc /\ Cardinality(Users(o)) = 0
    BY <2>1, <2>2, Countable DEF Count
  <2> QED
    BY <1>1, <2>1, <2>3, Countable, FS_EmptySet
<1>3. ASSUME NEW l \in FreeLoans
      PROVE  /\ l \in Loans /\ loan[l] = NoLoan /\ l \notin psmx
             /\ HolderObjs(l) = {} /\ Holds(l) = {}
  <2>1. l \in Loans /\ loan[l].refs = 0
    BY DEF FreeLoans
  <2>2. loan[l].refs = Count(l \in psmx) + Cardinality(HolderObjs(l)) + Cardinality(Holds(l))
    BY <2>1 DEF RefInv, ReferencesExact
  <2>3. l \notin psmx /\ Cardinality(HolderObjs(l)) = 0 /\ Cardinality(Holds(l)) = 0
    BY <2>1, <2>2, Countable DEF Count
  <2> QED
    BY <1>1, <2>1, <2>3, Countable, FS_EmptySet
<1> QED
  BY <1>2, <1>3

\* a new object has no users, and is one more holder of its loan
LEMMA NewObject ==
  ASSUME RefInv, NEW o \in FreeObjs, NEW x \in ObjectType,
         obj' = [obj EXCEPT ![o] = x], UNCHANGED thread
  PROVE  /\ obj' \in [Objs -> {NoObject} \cup ObjectType]
         /\ obj'[o] = x /\ \A p \in Objs \ {o} : obj'[p] = obj[p]
         /\ \A p \in Objs : Users(p)' = Users(p)
         /\ \A l \in Loans : Cardinality(HolderObjs(l)') =
              Cardinality(HolderObjs(l)) + IF l = x.loan THEN 1 ELSE 0
<1>1. /\ o \in Objs /\ obj[o] = NoObject /\ obj \in [Objs -> {NoObject} \cup ObjectType]
  BY NotInUse DEF RefInv, TypeOK
<1>2. obj'[o] = x /\ \A p \in Objs \ {o} : obj'[p] = obj[p]
  BY <1>1
<1>3. \A p \in Objs : Users(p)' = Users(p)
  BY DEF Users, At, Of
<1>4. ASSUME NEW l \in Loans
      PROVE  Cardinality(HolderObjs(l)') = Cardinality(HolderObjs(l)) + IF l = x.loan THEN 1 ELSE 0
  <2>1. o \notin Live /\ o \in Live' /\ \A p \in Objs \ {o} : p \in Live' <=> p \in Live
    BY <1>1, <1>2 DEF Live, NoObject, ObjectType
  <2>2. o \notin HolderObjs(l)
    BY <2>1 DEF HolderObjs
  <2>3. HolderObjs(l)' = IF l = x.loan THEN HolderObjs(l) \cup {o} ELSE HolderObjs(l)
    BY <1>1, <1>2, <2>1 DEF HolderObjs, Live
  <2>4. IsFiniteSet(HolderObjs(l)) /\ Cardinality(HolderObjs(l)) \in Nat
    BY Countable
  <2>5. Cardinality(HolderObjs(l) \cup {o}) = Cardinality(HolderObjs(l)) + 1
    BY <2>2, <2>4, FS_AddElement
  <2> QED
    BY <2>3, <2>4, <2>5
<1> QED
  BY <1>1, <1>2, <1>3, <1>4

\* dropping a reference to a loan
LEMMA LoanUnrefEffect ==
  ASSUME TypeOK, NEW l \in Loans, loan[l] \in LoanType, loan' = LoanUnref(l)
  PROVE  /\ loan' \in [Loans -> {NoLoan} \cup LoanType]
         /\ loan'[l].refs = loan[l].refs - 1
         /\ loan'[l].refs # 0 => loan'[l].state = loan[l].state /\ loan'[l].s = loan[l].s
         /\ \A k \in Loans \ {l} : loan'[k] = loan[k]
<1>1. loan \in [Loans -> {NoLoan} \cup LoanType] /\ loan[l].refs \in Nat \ {0}
  BY DEF TypeOK, LoanType
<1>2. CASE loan[l].refs = 1
  <2>1. loan' = [loan EXCEPT ![l] = NoLoan]
    BY <1>2 DEF LoanUnref
  <2> QED
    BY <1>1, <1>2, <2>1 DEF NoLoan
<1>3. CASE loan[l].refs # 1
  <2> DEFINE y == [loan[l] EXCEPT !.refs = @ - 1]
  <2>1. loan' = [loan EXCEPT ![l] = y]
    BY <1>3 DEF LoanUnref
  <2>2. y \in LoanType /\ y.refs = loan[l].refs - 1 /\ y.state = loan[l].state /\ y.s = loan[l].s
    BY <1>1, <1>3 DEF LoanType
  <2> HIDE DEF y
  <2> QED
    BY <1>1, <2>1, <2>2
<1> QED
  BY <1>2, <1>3

\* dropping a reference to an object
LEMMA ObjectUnrefEffect ==
  ASSUME RefInv, NEW o \in Live, obj' = ObjectUnref(o)
  PROVE  /\ obj' \in [Objs -> {NoObject} \cup ObjectType]
         /\ obj'[o].refs = obj[o].refs - 1
         /\ obj'[o].refs # 0 => obj'[o] = [obj[o] EXCEPT !.refs = @ - 1]
         /\ \A p \in Objs \ {o} : obj'[p] = obj[p]
         /\ \A p \in Live' : p \in Live /\ obj'[p].loan = obj[p].loan
         /\ \A l \in Loans : Cardinality(HolderObjs(l)') = Cardinality(HolderObjs(l))
              - IF obj[o].refs = 1 /\ obj[o].loan = l THEN 1 ELSE 0
<1>1. /\ o \in Objs /\ obj[o] \in ObjectType /\ obj \in [Objs -> {NoObject} \cup ObjectType]
      /\ obj[o].refs \in Nat \ {0}
  BY InUse DEF RefInv, TypeOK, Live, ObjectType
<1>2. CASE obj[o].refs = 1
  <2>1. obj' = [obj EXCEPT ![o] = NoObject]
    BY <1>2 DEF ObjectUnref
  <2>2. obj'[o] = NoObject /\ \A p \in Objs \ {o} : obj'[p] = obj[p]
    BY <1>1, <2>1
  <2>3. Live' = Live \ {o}
    BY <1>1, <2>2 DEF Live, NoObject
  <2>4. \A l \in Loans : HolderObjs(l)' = HolderObjs(l) \ {o}
    BY <2>2, <2>3 DEF HolderObjs, Live
  <2>5. \A l \in Loans : o \in HolderObjs(l) <=> obj[o].loan = l
    BY DEF HolderObjs
  <2>6. ASSUME NEW l \in Loans
        PROVE  Cardinality(HolderObjs(l)') = Cardinality(HolderObjs(l)) - IF obj[o].loan = l THEN 1 ELSE 0
    BY <2>4, <2>5, Countable, FS_RemoveElement
  <2>7. \A p \in Live' : p \in Live /\ obj'[p].loan = obj[p].loan
    BY <2>2, <2>3 DEF Live
  <2> QED
    BY <1>1, <1>2, <2>1, <2>2, <2>6, <2>7 DEF NoObject
<1>3. CASE obj[o].refs # 1
  <2> DEFINE y == [obj[o] EXCEPT !.refs = @ - 1]
  <2>1. obj' = [obj EXCEPT ![o] = y]
    BY <1>3 DEF ObjectUnref
  <2>2. y \in ObjectType /\ y.refs = obj[o].refs - 1 /\ y.refs > 0 /\ y.loan = obj[o].loan
    BY <1>1, <1>3 DEF ObjectType
  <2> HIDE DEF y
  <2>3. obj'[o] = y /\ \A p \in Objs \ {o} : obj'[p] = obj[p]
    BY <1>1, <2>1
  <2>4. obj' \in [Objs -> {NoObject} \cup ObjectType]
    BY <1>1, <2>1, <2>2
  <2>5. Live' = Live
    BY <1>1, <2>2, <2>3 DEF Live
  <2>6. \A p \in Live : obj'[p].loan = obj[p].loan
    BY <2>2, <2>3 DEF Live
  <2>7. \A l \in Loans : HolderObjs(l)' = HolderObjs(l)
    BY <2>5, <2>6 DEF HolderObjs
  <2>8. \A l \in Loans : Cardinality(HolderObjs(l)') = Cardinality(HolderObjs(l)) - 0
    BY <2>7, Countable
  <2> QED
    BY <1>3, <2>2, <2>3, <2>4, <2>5, <2>6, <2>8 DEF y
<1> QED
  BY <1>2, <1>3

\* and with the last one that to its loan
LEMMA UnrefEffect ==
  ASSUME RefInv, NEW o \in Live, Unref(o)
  PROVE  /\ loan' \in [Loans -> {NoLoan} \cup LoanType]
         /\ \A l \in Loans : loan'[l].refs - Cardinality(HolderObjs(l)') =
                             loan[l].refs - Cardinality(HolderObjs(l))
         /\ \A l \in Loans : loan'[l].refs # 0 => loan'[l].state = loan[l].state /\ loan'[l].s = loan[l].s
<1>1. /\ obj[o] \in ObjectType /\ obj[o].refs \in Nat \ {0}
      /\ loan \in [Loans -> {NoLoan} \cup LoanType]
      /\ \A l \in Loans : loan[l].refs \in Nat
  BY InUse DEF RefInv, TypeOK, ObjectType, LoanType, NoLoan
<1>2. \A l \in Loans : Cardinality(HolderObjs(l)') = Cardinality(HolderObjs(l))
        - IF obj[o].refs = 1 /\ obj[o].loan = l THEN 1 ELSE 0
  BY ObjectUnrefEffect DEF Unref
<1>3. CASE obj[o].refs = 1 /\ obj[o].loan # None
  <2> DEFINE k == obj[o].loan
  <2>1. loan' = LoanUnref(k)
    BY <1>3 DEF Unref
  <2>2. k \in Loans /\ loan[k] \in LoanType
    BY <1>3, InUse
  <2>3. /\ loan' \in [Loans -> {NoLoan} \cup LoanType]
        /\ loan'[k].refs = loan[k].refs - 1
        /\ loan'[k].refs # 0 => loan'[k].state = loan[k].state /\ loan'[k].s = loan[k].s
        /\ \A j \in Loans \ {k} : loan'[j] = loan[j]
    BY <2>1, <2>2, LoanUnrefEffect DEF RefInv
  <2> HIDE DEF k
  <2>4. \A l \in Loans : loan'[l].refs - Cardinality(HolderObjs(l)') =
                         loan[l].refs - Cardinality(HolderObjs(l))
    BY <1>1, <1>2, <1>3, <2>2, <2>3, Countable DEF k
  <2> QED
    BY <2>3, <2>4
<1>4. CASE ~(obj[o].refs = 1 /\ obj[o].loan # None)
  <2>1. UNCHANGED loan
    BY <1>4 DEF Unref
  <2>2. \A l \in Loans : Cardinality(HolderObjs(l)') = Cardinality(HolderObjs(l))
    BY <1>2, <1>4, NoneAssumption, Countable
  <2> QED
    BY <1>1, <2>1, <2>2
<1> QED
  BY <1>3, <1>4

-----------------------------------------------------------------------------
\* The two halves of ReferencesExact.
Uses(o) == Count(o \in whc) + Count(o \in rhc) + Cardinality(Users(o))
ObjRefs == \A o \in Objs : obj[o].refs = Uses(o)
LoanRefs ==
  \A l \in Loans :
    loan[l].refs = Count(l \in psmx) + Cardinality(HolderObjs(l)) + Cardinality(Holds(l))

\* the two halves of ReferencesExact
LEMMA Halves == (ReferencesExact <=> ObjRefs /\ LoanRefs) /\ (ReferencesExact' <=> ObjRefs' /\ LoanRefs')
  BY DEF ReferencesExact, ObjRefs, LoanRefs, Uses

\* a new object with a reference for each cache it is put in
LEMMA NewObjRefs ==
  ASSUME RefInv, NEW o \in FreeObjs, NEW x \in ObjectType,
         obj' = [obj EXCEPT ![o] = x], UNCHANGED thread,
         rhc' \in {rhc, rhc \cup {o}}, whc' \in {whc, whc \cup {o}},
         x.refs = Count(o \in whc') + Count(o \in rhc')
  PROVE  ObjRefs'
<1> SUFFICES ASSUME NEW p \in Objs
             PROVE  obj'[p].refs = Count(p \in whc') + Count(p \in rhc') + Cardinality(Users(p)')
  BY DEF ObjRefs, Uses, Count, Users, At, Of
<1>1. /\ Users(p)' = Users(p) /\ obj'[o] = x /\ (p # o => obj'[p] = obj[p])
      /\ o \in Objs /\ Users(o) = {}
  BY NewObject, NotInUse
<1>2. obj[p].refs = Count(p \in whc) + Count(p \in rhc) + Cardinality(Users(p))
  BY DEF RefInv, ReferencesExact
<1>3. CASE p = o
  <2>1. Cardinality(Users(p)') = 0
    BY <1>1, <1>3, FS_EmptySet
  <2>2. Count(o \in whc') \in Nat /\ Count(o \in rhc') \in Nat
    BY DEF Count
  <2>3. obj'[p].refs = Count(o \in whc') + Count(o \in rhc')
    BY <1>1, <1>3
  <2> QED
    BY <1>3, <2>1, <2>2, <2>3
<1>4. CASE p # o
  <2>1. (p \in whc' <=> p \in whc) /\ (p \in rhc' <=> p \in rhc)
    BY <1>4
  <2> QED
    BY <1>1, <1>2, <1>4, <2>1 DEF Count
<1> QED
  BY <1>3, <1>4

\* a step that leaves the loans of the objects in use alone
LEMMA OnLoanKept ==
  ASSUME RefInv,
         \A u \in Threads : thread'[u].pc = "idle" \/ thread'[u].pc = "lock" \/ thread'[u] = thread[u],
         \A u \in Threads : thread'[u] = thread[u] /\ ~At(u, "idle") => obj'[Of(u)].loan = obj[Of(u)].loan
  PROVE  OnLoan'
BY DEF RefInv, OnLoan, At, Of

\* what objects are given as their data
LEMMA DataType ==
  /\ Null \in Datas /\ Part \in Datas
  /\ \A s \in Samples, enc \in Encodings \cup {Own}, key \in BOOLEAN : Whole(Content(s, enc, key)) \in Datas
<1>1. \A s \in Samples, enc \in Encodings \cup {Own}, key \in BOOLEAN : Content(s, enc, key) \in Contents
  BY DEF Contents
<1> QED
  BY <1>1 DEF Datas

\* and what a new object is
LEMMA FreshObject ==
  ASSUME NEW refs \in Nat \ {0}, NEW kind \in Kinds, NEW s \in Samples, NEW key \in {"sample", "ser"},
         NEW data \in Datas, NEW l \in Loans \cup {None}
  PROVE  LET x == Object(refs, kind, s, key, data, l)
         IN  /\ x \in ObjectType /\ x.refs = refs /\ x.loan = l /\ x.kind = kind
             /\ x.data = data /\ (data = Null /\ l = None => x.oom)
  BY DEF Object, ObjectType

\* a new object that is in no loan leaves the loans alone
LEMMA NewObjStep ==
  ASSUME RefInv, NEW o \in FreeObjs, NEW x \in ObjectType, x.loan = None,
         obj' = [obj EXCEPT ![o] = x], rhc' = rhc \cup {o}, whc' \in {whc, whc \cup {o}},
         x.refs = Count(o \in whc') + Count(o \in rhc'),
         UNCHANGED <<topic, is_loaning_available, loan, serialize_lock, thread, psmx, held>>
  PROVE  RefInv'
<1>1. o \in Objs /\ o \notin rhc /\ o \notin whc
  BY NotInUse
<1>2. ObjRefs'
  BY NewObjRefs
<1>3. /\ obj' \in [Objs -> {NoObject} \cup ObjectType] /\ obj'[o] = x
      /\ \A p \in Objs \ {o} : obj'[p] = obj[p]
      /\ \A l \in Loans : Cardinality(HolderObjs(l)') = Cardinality(HolderObjs(l)) + IF l = x.loan THEN 1 ELSE 0
  BY NewObject
<1>4. LoanRefs'
  <2> SUFFICES ASSUME NEW l \in Loans
               PROVE  loan'[l].refs = Count(l \in psmx') + Cardinality(HolderObjs(l)') + Cardinality(Holds(l)')
    BY DEF LoanRefs
  <2>1. l # x.loan
    BY NoneAssumption
  <2>2. Cardinality(HolderObjs(l)') = Cardinality(HolderObjs(l))
    BY <1>3, <2>1, Countable
  <2>3. Holds(l)' = Holds(l)
    BY DEF Holds
  <2> QED
    BY <2>2, <2>3 DEF RefInv, ReferencesExact, Count
<1>5. TypeOK'
  BY <1>1, <1>3 DEF RefInv, TypeOK
<1>6. OneKeeper'
  <2>0. \A p \in Live' : p = o \/ (p \in Live /\ obj'[p].loan = obj[p].loan)
    BY <1>1, <1>3 DEF Live
  <2>1. \A p \in rhc' : p = o \/ (p \in rhc /\ obj'[p].loan = obj[p].loan)
    BY <1>1, <1>3 DEF RefInv, TypeOK
  <2>2. obj'[o].loan = None /\ None \notin psmx /\ \A h \in held : h.l # None
    BY <1>3, NoneAssumption DEF RefInv, TypeOK, HoldType
  <2> QED
    BY <2>0, <2>1, <2>2 DEF OneKeeper, RefInv
<1>7. OnLoan'
  <2>1. \A u \in Threads : ~At(u, "idle") => Of(u) \in Objs \ {o}
    BY InUse DEF Live, FreeObjs
  <2> QED
    BY <1>3, <2>1, OnLoanKept
<1> QED
  BY <1>2, <1>4, <1>5, <1>6, <1>7, Halves DEF RefInv

\* a step that only changes what calls are at and what objects contain
LEMMA QuietStep ==
  ASSUME RefInv,
         obj' \in [Objs -> {NoObject} \cup ObjectType],
         thread' \in [Threads -> {Idle} \cup CallType],
         serialize_lock' \in Threads \cup {Nobody},
         \A p \in Objs : obj'[p].refs = obj[p].refs /\ (p \in Live => obj'[p].loan = obj[p].loan),
         \A t \in Threads : (thread'[t].pc = "idle" <=> thread[t].pc = "idle")
                            /\ (thread[t].pc # "idle" => thread'[t].o = thread[t].o),
         OnLoan',
         UNCHANGED <<topic, is_loaning_available, loan, rhc, whc, psmx, held>>
  PROVE  RefInv'
<1>1. TypeOK'
  BY DEF RefInv, TypeOK
<1>2. \A p \in Objs : Users(p)' = Users(p)
  BY DEF Users, At, Of
<1>3. Live' = Live
  BY DEF Live
<1>4. \A l \in Loans : HolderObjs(l)' = HolderObjs(l)
  BY <1>3 DEF HolderObjs, Live
<1>5. ObjRefs'
  BY <1>2 DEF ObjRefs, Uses, RefInv, ReferencesExact, Count
<1>6. LoanRefs'
  BY <1>4 DEF LoanRefs, RefInv, ReferencesExact, Count, Holds
<1>7. \A p \in rhc : obj'[p].loan = obj[p].loan
  BY InUse DEF RefInv, TypeOK
<1>8. OneKeeper'
  BY <1>3, <1>7 DEF OneKeeper, RefInv, Live
<1> QED
  BY <1>1, <1>5, <1>6, <1>8, Halves DEF RefInv

\* a call that goes on
LEMMA CallStep ==
  ASSUME RefInv, NEW t \in Threads, ~At(t, "idle"),
         NEW c \in CallType, c.o = Of(t), thread' = [thread EXCEPT ![t] = c]
  PROVE  /\ thread' \in [Threads -> {Idle} \cup CallType]
         /\ \A u \in Threads : (thread'[u].pc = "idle" <=> thread[u].pc = "idle")
                               /\ (thread[u].pc # "idle" => thread'[u].o = thread[u].o)
  BY DEF RefInv, TypeOK, CallType, Idle, At, Of

\* a cache or a call drops its reference to an object
LEMMA DropRefs ==
  ASSUME RefInv, NEW o \in Live, obj' = ObjectUnref(o),
         rhc' \subseteq rhc, whc' \subseteq whc,
         Uses(o)' = Uses(o) - 1, \A p \in Objs \ {o} : Uses(p)' = Uses(p),
         \A u \in Threads : thread'[u] = Idle \/ thread'[u] = thread[u]
  PROVE  ObjRefs' /\ OnLoan' /\ rhc' \subseteq Live'
<1>1. /\ obj'[o].refs = obj[o].refs - 1
      /\ \A p \in Objs \ {o} : obj'[p] = obj[p]
      /\ \A p \in Live' : p \in Live /\ obj'[p].loan = obj[p].loan
  BY ObjectUnrefEffect
<1>2. ObjRefs'
  <2>1. \A p \in Objs : obj[p].refs = Uses(p)
    BY DEF RefInv, ReferencesExact, Uses
  <2> QED
    BY <1>1, <2>1 DEF ObjRefs
<1>3. ASSUME NEW p \in Objs
      PROVE  /\ obj'[p].refs = Count(p \in whc') + Count(p \in rhc') + Cardinality(Users(p)')
             /\ Count(p \in whc') \in Nat /\ Count(p \in rhc') \in Nat
             /\ IsFiniteSet(Users(p)') /\ Cardinality(Users(p)') \in Nat
  <2>1. Users(p)' \subseteq Threads
    BY DEF Users
  <2> QED
    BY <1>2, <2>1, FiniteAssumption, FS_Subset, FS_CardinalityType DEF ObjRefs, Uses, Count
<1>4. ASSUME NEW p \in rhc' PROVE p \in Live'
  <2>1. p \in Objs
    BY DEF RefInv, TypeOK
  <2>2. Count(p \in rhc') = 1
    BY DEF Count
  <2>3. obj'[p].refs > 0
    BY <1>3, <2>1, <2>2
  <2> QED
    BY <2>1, <2>3 DEF Live
<1>5. OnLoan'
  <2> SUFFICES ASSUME NEW u \in Threads, thread'[u] = thread[u], ~At(u, "idle")
               PROVE  obj'[Of(u)].loan = obj[Of(u)].loan
    BY OnLoanKept DEF Idle
  <2>1. PICK p \in Objs : p = Of(u)
    BY InUse DEF Live
  <2>2. u \in Users(p)'
    BY <2>1 DEF Users, At, Of
  <2>3. Cardinality(Users(p)') # 0
    BY <1>3, <2>2, FS_EmptySet
  <2>4. obj'[p].refs > 0
    BY <1>3, <2>3
  <2> QED
    BY <1>1, <2>1, <2>4 DEF Live
<1> QED
  BY <1>2, <1>4, <1>5

\* what is left to show of such a step: nothing new is kept or counted
LEMMA UnrefStep ==
  ASSUME RefInv, NEW o \in Live, Unref(o),
         rhc' \subseteq rhc, whc' \subseteq whc,
         thread' \in [Threads -> {Idle} \cup CallType],
         Uses(o)' = Uses(o) - 1, \A p \in Objs \ {o} : Uses(p)' = Uses(p),
         \A u \in Threads : thread'[u] = Idle \/ thread'[u] = thread[u],
         UNCHANGED <<topic, is_loaning_available, serialize_lock, psmx, held>>
  PROVE  RefInv'
<1>1. /\ obj' \in [Objs -> {NoObject} \cup ObjectType]
      /\ \A p \in Live' : p \in Live /\ obj'[p].loan = obj[p].loan
  BY ObjectUnrefEffect DEF Unref
<1>2. /\ loan' \in [Loans -> {NoLoan} \cup LoanType]
      /\ \A l \in Loans : loan'[l].refs - Cardinality(HolderObjs(l)') =
                          loan[l].refs - Cardinality(HolderObjs(l))
  BY UnrefEffect
<1>3. ObjRefs' /\ OnLoan' /\ rhc' \subseteq Live'
  BY DropRefs DEF Unref
<1>4. TypeOK'
  BY <1>1, <1>2 DEF RefInv, TypeOK
<1>5. LoanRefs'
  <2> SUFFICES ASSUME NEW l \in Loans
               PROVE  loan'[l].refs = Count(l \in psmx) + Cardinality(HolderObjs(l)') + Cardinality(Holds(l))
    BY DEF LoanRefs, Holds, Count
  <2>1. loan[l].refs = Count(l \in psmx) + Cardinality(HolderObjs(l)) + Cardinality(Holds(l))
    BY DEF RefInv, ReferencesExact
  <2>2. loan'[l].refs \in Nat
    BY <1>2 DEF NoLoan, LoanType
  <2>3. HolderObjs(l)' \subseteq HolderObjs(l)
    BY <1>1 DEF HolderObjs
  <2>4. Cardinality(HolderObjs(l)') \in Nat
    BY <2>3, Countable, FS_Subset, FS_CardinalityType
  <2>5. /\ Count(l \in psmx) \in Nat
        /\ Cardinality(HolderObjs(l)) \in Nat /\ Cardinality(Holds(l)) \in Nat
    BY Countable DEF Count
  <2>6. loan'[l].refs - Cardinality(HolderObjs(l)') = loan[l].refs - Cardinality(HolderObjs(l))
    BY <1>2
  <2>7. loan[l].refs \in Nat
    BY DEF RefInv, TypeOK, NoLoan, LoanType
  <2> QED
    BY <2>1, <2>2, <2>4, <2>5, <2>6, <2>7
<1>6. OneKeeper'
  BY <1>1, <1>3 DEF OneKeeper, RefInv
<1> QED
  BY <1>3, <1>4, <1>5, <1>6, Halves DEF RefInv

-----------------------------------------------------------------------------
\* One lemma for each action.

\* rmw_publish
LEMMA PublishStep == ASSUME RefInv, NEW o \in FreeObjs, NEW s \in Samples, Publish(o, s) PROVE RefInv'
<1> PICK data \in {Whole(Content(s, Own, FALSE)), Null} :
      Written(o, Object(2, "DATA", s, "sample", data, None))
  BY DEF Publish
<1> DEFINE x == Object(2, "DATA", s, "sample", data, None)
<1>1. data \in Datas
  BY DataType
<1>2. x \in ObjectType /\ x.loan = None /\ x.refs = 2
  BY <1>1, FreshObject DEF Kinds
<1>3. obj' = [obj EXCEPT ![o] = x] /\ rhc' = rhc \cup {o} /\ whc' = whc \cup {o}
  BY DEF Written
<1>4. Count(o \in whc') = 1 /\ Count(o \in rhc') = 1
  BY <1>3 DEF Count
<1> HIDE DEF x
<1>5. x.refs = Count(o \in whc') + Count(o \in rhc')
  BY <1>2, <1>4
<1> QED
  BY <1>2, <1>3, <1>5, NewObjStep DEF Publish

\* rmw_publish_serialized_message
LEMMA PublishSerializedStep ==
  ASSUME RefInv, NEW o \in FreeObjs, NEW s \in Samples, NEW enc \in Encodings \cup {Own},
         PublishSerialized(o, s, enc)
  PROVE  RefInv'
<1> DEFINE d == Whole(Content(s, enc, FALSE))
           x == Object(2, "DATA", s, "ser", d, None)
<1>1. d \in Datas
  BY DataType
<1> HIDE DEF d
<1>2. x \in ObjectType /\ x.loan = None /\ x.refs = 2
  BY <1>1, FreshObject DEF Kinds
<1>3. obj' = [obj EXCEPT ![o] = x] /\ rhc' = rhc \cup {o} /\ whc' = whc \cup {o}
  BY DEF PublishSerialized, Written, d
<1>4. Count(o \in whc') = 1 /\ Count(o \in rhc') = 1
  BY <1>3 DEF Count
<1> HIDE DEF x
<1>5. x.refs = Count(o \in whc') + Count(o \in rhc')
  BY <1>2, <1>4
<1> QED
  BY <1>2, <1>3, <1>5, NewObjStep DEF PublishSerialized

\* serdata_rmw_from_ser
LEMMA FromSerStep ==
  ASSUME RefInv, NEW o \in FreeObjs, NEW s \in Samples, NEW enc \in Encodings \cup {Own},
         NEW key \in BOOLEAN, FromSer(o, s, enc, key)
  PROVE  RefInv'
<1> DEFINE x == Object(1, IF key THEN "KEY" ELSE "DATA", s, "ser", Whole(Content(s, enc, key)), None)
<1>1. Whole(Content(s, enc, key)) \in Datas
  BY DataType
<1>2. x \in ObjectType /\ x.loan = None /\ x.refs = 1
  BY <1>1, FreshObject DEF Kinds
<1>3. o \notin whc
  BY NotInUse
<1>4. /\ obj' = [obj EXCEPT ![o] = x] /\ rhc' = rhc \cup {o} /\ whc' = whc
      /\ x.refs = Count(o \in whc') + Count(o \in rhc')
  BY <1>2, <1>3 DEF FromSer, Received, Count
<1> HIDE DEF x
<1> QED
  BY <1>2, <1>4, NewObjStep DEF FromSer

\* Every reader has acknowledged the sample.
LEMMA AckStep == ASSUME RefInv, NEW o \in Objs, Ack(o) PROVE RefInv'
<1>1. o \in whc /\ o \in Live /\ Unref(o)
  BY InUse DEF Ack
<1>2. \A p \in Objs : Users(p)' = Users(p)
  BY DEF Ack, Users, At, Of
<1>3. \A p \in Objs \ {o} : Uses(p)' = Uses(p)
  BY <1>2 DEF Uses, Ack, Count
<1>4. Uses(o)' = Uses(o) - 1
  <2>1. Count(o \in whc) = 1 /\ Count(o \in whc') = 0 /\ Count(o \in rhc') = Count(o \in rhc)
    BY <1>1 DEF Ack, Count
  <2>2. Count(o \in rhc) \in Nat /\ Cardinality(Users(o)) \in Nat
    BY Countable DEF Count
  <2> QED
    BY <1>2, <2>1, <2>2 DEF Uses
<1>5. rhc' \subseteq rhc /\ whc' \subseteq whc /\ thread' \in [Threads -> {Idle} \cup CallType]
  BY DEF Ack, RefInv, TypeOK
<1> QED
  BY <1>1, <1>3, <1>4, <1>5, UnrefStep DEF Ack

\* The loops of the takes drop a sample without valid data.
LEMMA SkipInvalidStep == ASSUME RefInv, NEW o \in rhc, SkipInvalid(o) PROVE RefInv'
<1>1. o \in Live /\ Unref(o)
  BY InUse DEF SkipInvalid
<1>2. \A p \in Objs : Users(p)' = Users(p)
  BY DEF SkipInvalid, Users, At, Of
<1>3. \A p \in Objs \ {o} : Uses(p)' = Uses(p)
  BY <1>2 DEF Uses, SkipInvalid, Count
<1>4. Uses(o)' = Uses(o) - 1
  <2>1. Count(o \in rhc) = 1 /\ Count(o \in rhc') = 0 /\ Count(o \in whc') = Count(o \in whc)
    BY DEF SkipInvalid, Count
  <2>2. o \in Objs
    BY <1>1 DEF Live
  <2>3. Count(o \in whc) \in Nat /\ Cardinality(Users(o)) \in Nat
    BY <2>2, Countable DEF Count
  <2> QED
    BY <1>2, <2>1, <2>2, <2>3 DEF Uses
<1>5. rhc' \subseteq rhc /\ whc' \subseteq whc /\ thread' \in [Threads -> {Idle} \cup CallType]
  BY DEF SkipInvalid, RefInv, TypeOK
<1> QED
  BY <1>1, <1>3, <1>4, <1>5, UnrefStep DEF SkipInvalid

\* the end of a call
LEMMA EndCall ==
  ASSUME RefInv, NEW t \in Threads, ~At(t, "idle"), NEW o \in Objs, o = Of(t), Unref(o),
         thread' = [thread EXCEPT ![t] = Idle],
         UNCHANGED <<topic, is_loaning_available, serialize_lock, rhc, whc, psmx, held>>
  PROVE  RefInv'
<1>1. o \in Live
  BY InUse
<1>2. /\ thread' \in [Threads -> {Idle} \cup CallType]
      /\ thread'[t] = Idle /\ \A u \in Threads \ {t} : thread'[u] = thread[u]
  BY DEF RefInv, TypeOK
<1>3. Users(o)' = Users(o) \ {t} /\ t \in Users(o)
  BY <1>2 DEF Users, At, Of, Idle
<1>4. \A p \in Objs \ {o} : Users(p)' = Users(p)
  BY <1>2 DEF Users, At, Of, Idle
<1>5. Cardinality(Users(o)') = Cardinality(Users(o)) - 1
  <2>1. IsFiniteSet(Users(o))
    BY Countable
  <2>2. Cardinality(Users(o) \ {t}) = Cardinality(Users(o)) - 1
    BY <1>3, <2>1, FS_RemoveElement
  <2> QED
    BY <1>3, <2>2
<1>6. Uses(o)' = Uses(o) - 1
  <2>1. Count(o \in rhc') = Count(o \in rhc) /\ Count(o \in whc') = Count(o \in whc)
    BY DEF Count
  <2>2. Count(o \in rhc) \in Nat /\ Count(o \in whc) \in Nat /\ Cardinality(Users(o)) \in Nat
    BY <1>1, Countable DEF Count
  <2> QED
    BY <1>5, <2>1, <2>2 DEF Uses
<1>7. \A p \in Objs \ {o} : Uses(p)' = Uses(p)
  BY <1>4 DEF Uses, Count
<1> QED
  BY <1>1, <1>2, <1>6, <1>7, UnrefStep

\* the start of a call, which becomes a user of its object
LEMMA NewCall ==
  ASSUME RefInv, NEW t \in Threads, At(t, "idle"), NEW o \in Objs,
         NEW op \in {"to_ser_ref", "size", "to_ser", "to_sample"}, Call(t, o, op)
  PROVE  /\ thread' \in [Threads -> {Idle} \cup CallType]
         /\ Cardinality(Users(o)') = Cardinality(Users(o)) + 1
         /\ \A p \in Objs \ {o} : Users(p)' = Users(p)
<1> DEFINE c == [pc |-> "lock", op |-> op, o |-> o, got |-> Null]
<1>1. c \in CallType /\ c.pc = "lock" /\ c.o = o
  BY DataType DEF CallType
<1>2. thread' = [thread EXCEPT ![t] = c] /\ thread \in [Threads -> {Idle} \cup CallType]
  BY DEF Call, RefInv, TypeOK
<1> HIDE DEF c
<1>3. /\ thread' \in [Threads -> {Idle} \cup CallType]
      /\ thread'[t] = c /\ \A u \in Threads \ {t} : thread'[u] = thread[u]
  BY <1>1, <1>2
<1>4. Users(o)' = Users(o) \cup {t} /\ t \notin Users(o)
  BY <1>1, <1>3 DEF Users, At, Of
<1>5. \A p \in Objs \ {o} : Users(p)' = Users(p)
  BY <1>1, <1>3 DEF Users, At, Of
<1>6. IsFiniteSet(Users(o))
  BY Countable
<1>7. Cardinality(Users(o) \cup {t}) = Cardinality(Users(o)) + 1
  BY <1>4, <1>6, FS_AddElement
<1> QED
  BY <1>3, <1>4, <1>5, <1>7

\* Cyclone sends what the writer's cache has.
LEMMA SendStep == ASSUME RefInv, NEW t \in Threads, NEW o \in whc, Send(t, o) PROVE RefInv'
<1>1. o \in Objs /\ obj[o] \in ObjectType
  BY InUse DEF RefInv, TypeOK
<1> DEFINE x == [obj[o] EXCEPT !.refs = @ + 1]
<1>2. x \in ObjectType /\ x.refs = obj[o].refs + 1 /\ x.loan = obj[o].loan
  BY <1>1 DEF ObjectType
<1>3. obj' = [obj EXCEPT ![o] = x]
  BY DEF Send
<1> HIDE DEF x
<1>4. /\ obj' \in [Objs -> {NoObject} \cup ObjectType]
      /\ obj'[o] = x /\ \A p \in Objs \ {o} : obj'[p] = obj[p]
  BY <1>1, <1>2, <1>3 DEF RefInv, TypeOK
<1>5. /\ thread' \in [Threads -> {Idle} \cup CallType]
      /\ Cardinality(Users(o)') = Cardinality(Users(o)) + 1
      /\ \A p \in Objs \ {o} : Users(p)' = Users(p)
  BY <1>1, NewCall DEF Send
<1>6. TypeOK'
  BY <1>4, <1>5 DEF Send, RefInv, TypeOK
<1>7. obj[o].refs \in Nat \ {0}
  BY <1>1 DEF ObjectType
<1>8. Live' = Live
  BY <1>2, <1>4, <1>7 DEF Live
<1>9. \A p \in Live : obj'[p].loan = obj[p].loan
  BY <1>2, <1>4 DEF Live
<1>10. ObjRefs'
  <2>1. \A p \in Objs : obj[p].refs = Uses(p)
    BY DEF RefInv, ReferencesExact, Uses
  <2>2. \A p \in Objs \ {o} : Uses(p)' = Uses(p)
    BY <1>5 DEF Uses, Count, Send
  <2>3. Count(o \in rhc') = Count(o \in rhc) /\ Count(o \in whc') = Count(o \in whc)
    BY DEF Count, Send
  <2>4. Count(o \in rhc) \in Nat /\ Count(o \in whc) \in Nat /\ Cardinality(Users(o)) \in Nat
    BY <1>1, Countable DEF Count
  <2>5. Uses(o)' = Uses(o) + 1
    BY <1>5, <2>3, <2>4 DEF Uses
  <2> QED
    BY <1>2, <1>4, <2>1, <2>2, <2>5 DEF ObjRefs
<1>11. \A l \in Loans : HolderObjs(l)' = HolderObjs(l)
  BY <1>8, <1>9 DEF HolderObjs
<1>12. LoanRefs'
  BY <1>11 DEF LoanRefs, Holds, Count, Send, RefInv, ReferencesExact
<1>13. OneKeeper'
  BY <1>8, <1>9, InUse DEF OneKeeper, RefInv, Send
<1>14. OnLoan'
  <2>1. \A u \in Threads : thread'[u].pc = "lock" \/ thread'[u] = thread[u]
    BY DEF Send, Call, RefInv, TypeOK
  <2> QED
    BY <1>9, <2>1, InUse, OnLoanKept
<1> QED
  BY <1>6, <1>10, <1>12, <1>13, <1>14, Halves DEF RefInv, Send

\* The taker takes over the reference of the reader's cache.
LEMMA TakeStep ==
  ASSUME RefInv, NEW t \in Threads, NEW o \in rhc, NEW op \in {"to_sample", "size"}, Take(t, o, op)
  PROVE  RefInv'
<1>1. o \in Objs
  BY DEF RefInv, TypeOK
<1>2. /\ thread' \in [Threads -> {Idle} \cup CallType]
      /\ Cardinality(Users(o)') = Cardinality(Users(o)) + 1
      /\ \A p \in Objs \ {o} : Users(p)' = Users(p)
  BY <1>1, NewCall DEF Take
<1>3. TypeOK'
  BY <1>2 DEF Take, RefInv, TypeOK
<1>4. ObjRefs'
  <2>1. \A p \in Objs : obj[p].refs = Uses(p)
    BY DEF RefInv, ReferencesExact, Uses
  <2>2. \A p \in Objs \ {o} : Uses(p)' = Uses(p)
    BY <1>2 DEF Uses, Count, Take
  <2>3. Count(o \in rhc') = 0 /\ Count(o \in rhc) = 1 /\ Count(o \in whc') = Count(o \in whc)
    BY DEF Count, Take
  <2>4. Count(o \in whc) \in Nat /\ Cardinality(Users(o)) \in Nat
    BY <1>1, Countable DEF Count
  <2>5. Uses(o)' = Uses(o)
    BY <1>2, <2>3, <2>4 DEF Uses
  <2> QED
    BY <2>1, <2>2, <2>5 DEF ObjRefs, Take
<1>5. LoanRefs'
  BY DEF LoanRefs, HolderObjs, Live, Holds, Count, Take, RefInv, ReferencesExact
<1>6. OneKeeper'
  BY DEF OneKeeper, RefInv, Take, Live
<1>7. OnLoan'
  <2>1. \A u \in Threads : thread'[u].pc = "lock" \/ thread'[u] = thread[u]
    BY DEF Take, Call, RefInv, TypeOK
  <2> QED
    BY <2>1, OnLoanKept DEF Take
<1> QED
  BY <1>3, <1>4, <1>5, <1>6, <1>7, Halves DEF RefInv, Take

\* A call ends after its size did not fit, or with what it has.
LEMMA NoRoomStep == ASSUME RefInv, NEW t \in Threads, NoRoom(t) PROVE RefInv'
<1>1. ~At(t, "idle")
  BY DEF NoRoom, At
<1>2. PICK o \in Objs : o = Of(t)
  BY <1>1, InUse DEF Live
<1> QED
  BY <1>1, <1>2, EndCall DEF NoRoom

\* to_ser_unref, or the unref of what was taken
LEMMA FinishStep == ASSUME RefInv, NEW t \in Threads, Finish(t) PROVE RefInv'
<1>1. ~At(t, "idle")
  BY DEF Finish, At
<1>2. PICK o \in Objs : o = Of(t)
  BY <1>1, InUse DEF Live
<1> QED
  BY <1>1, <1>2, EndCall DEF Finish

\* serialize_into_on_demand and the operations that read changes no reference.
LEMMA OnDemandStep == ASSUME RefInv, NEW t \in Threads, OnDemand(t) PROVE RefInv'
<1>1. ~At(t, "idle") /\ Of(t) \in Live /\ thread[t] \in CallType
  BY InUse DEF OnDemand, Lock, Check, Resize, Fill, At
<1>2. /\ obj[Of(t)] \in ObjectType /\ Of(t) \in Objs
      /\ obj \in [Objs -> {NoObject} \cup ObjectType] /\ serialize_lock \in Threads \cup {Nobody}
  BY <1>1, InUse DEF Live, RefInv, TypeOK
<1>3. \A pc \in {"check", "resize", "fill", "use"} :
        /\ [thread[t] EXCEPT !.pc = pc] \in CallType /\ [thread[t] EXCEPT !.pc = pc].o = Of(t)
  BY <1>1 DEF CallType, Of
<1>4. \A pc \in {"check", "resize", "fill", "use"} : Goto(t, pc) =>
        thread' = [thread EXCEPT ![t] = [thread[t] EXCEPT !.pc = pc]]
  BY DEF Goto
<1>5. \E c \in CallType : c.o = Of(t) /\ thread' = [thread EXCEPT ![t] = c]
  BY <1>3, <1>4 DEF OnDemand, Lock, Check, Resize, Fill
<1>6. /\ obj' \in [Objs -> {NoObject} \cup ObjectType]
      /\ \A p \in Objs : obj'[p].refs = obj[p].refs /\ (p \in Live => obj'[p].loan = obj[p].loan)
  <2>1. CASE UNCHANGED obj
    BY <1>2, <2>1
  <2>2. ASSUME NEW x \in ObjectType, x.refs = obj[Of(t)].refs, x.loan = obj[Of(t)].loan,
               obj' = [obj EXCEPT ![Of(t)] = x]
        PROVE  <1>6
    BY <1>2, <2>2
  <2>3. CASE Resize(t)
    <3>1. CASE obj' = [obj EXCEPT ![Of(t)].data = Part]
      <4> DEFINE x == [obj[Of(t)] EXCEPT !.data = Part]
      <4>1. x \in ObjectType /\ x.refs = obj[Of(t)].refs /\ x.loan = obj[Of(t)].loan
        BY <1>2, DataType DEF ObjectType
      <4> QED
        BY <2>2, <3>1, <4>1
    <3>2. CASE obj' = [obj EXCEPT ![Of(t)].oom = TRUE]
      <4> DEFINE x == [obj[Of(t)] EXCEPT !.oom = TRUE]
      <4>1. x \in ObjectType /\ x.refs = obj[Of(t)].refs /\ x.loan = obj[Of(t)].loan
        BY <1>2 DEF ObjectType
      <4> QED
        BY <2>2, <3>2, <4>1
    <3> QED
      BY <2>3, <3>1, <3>2 DEF Resize
  <2>4. CASE Fill(t)
    <3> DEFINE l == obj[Of(t)].loan
               d == Whole(Content(loan[l].s, Own, obj[Of(t)].kind = "KEY"))
               x == [obj[Of(t)] EXCEPT !.data = d]
    <3>1. l # None
      BY <2>4 DEF Fill, At, Of, RefInv, OnLoan
    <3>2. loan[l].s \in Samples
      BY <1>1, <3>1, InUse DEF LoanType
    <3>3. d \in Datas
      BY <3>2, DataType
    <3>4. obj' = [obj EXCEPT ![Of(t)].data = d]
      BY <2>4 DEF Fill
    <3> HIDE DEF d
    <3>5. x \in ObjectType /\ x.refs = obj[Of(t)].refs /\ x.loan = obj[Of(t)].loan
      BY <1>2, <3>3 DEF ObjectType
    <3> QED
      BY <2>2, <3>4, <3>5
  <2> QED
    BY <2>1, <2>3, <2>4 DEF OnDemand, Lock, Check
<1>7. serialize_lock' \in Threads \cup {Nobody}
  BY <1>2 DEF OnDemand, Lock, Check, Resize, Fill
<1>8. /\ thread' \in [Threads -> {Idle} \cup CallType]
      /\ \A u \in Threads : (thread'[u].pc = "idle" <=> thread[u].pc = "idle")
                            /\ (thread[u].pc # "idle" => thread'[u].o = thread[u].o)
  BY <1>1, <1>5, CallStep
<1>9. OnLoan'
  <2> SUFFICES ASSUME NEW u \in Threads, thread'[u].pc \in {"resize", "fill"}
               PROVE  obj'[thread'[u].o].loan # None
    BY DEF OnLoan
  <2>1. thread'[u].o = Of(u) /\ ~At(u, "idle")
    BY <1>8 DEF Of, At
  <2>2. Of(u) \in Live /\ Of(u) \in Objs
    BY <2>1, InUse DEF Live
  <2>3. obj'[Of(u)].loan = obj[Of(u)].loan
    BY <1>6, <2>2
  <2>4. CASE u # t
    <3>1. thread'[u] = thread[u]
      BY <1>5, <2>4 DEF RefInv, TypeOK
    <3> QED
      BY <2>1, <2>3, <3>1 DEF RefInv, OnLoan, Of
  <2>5. CASE u = t
    <3>0. \A pc \in {"check", "resize", "fill", "use"} : Goto(t, pc) => thread'[t].pc = pc
      BY <1>1, <1>4 DEF CallType, RefInv, TypeOK
    <3>1. CASE Check(t)
      <4>1. Goto(t, "resize")
        BY <2>5, <3>0, <3>1 DEF Check
      <4>2. obj[Of(t)].loan # None
        BY <2>5, <3>0, <3>1, <4>1 DEF Check
      <4> QED
        BY <2>1, <2>3, <2>5, <4>2
    <3>2. CASE Resize(t)
      BY <2>1, <2>3, <2>5, <3>2 DEF Resize, At, Of, RefInv, OnLoan
    <3>3. CASE Lock(t) \/ Fill(t)
      BY <2>5, <3>0, <3>3 DEF Lock, Fill
    <3> QED
      BY <3>1, <3>2, <3>3 DEF OnDemand
  <2> QED
    BY <2>4, <2>5
<1> QED
  BY <1>6, <1>7, <1>8, <1>9, QuietStep DEF OnDemand, Lock, Check, Resize, Fill

\* to_ser_ref, size, to_ser and to_sample
LEMMA ReadStep ==
  ASSUME RefInv, NEW t \in Threads, ToSerRef(t) \/ Size(t) \/ Copy(t) PROVE RefInv'
<1>1. ~At(t, "idle") /\ Of(t) \in Live /\ thread[t] \in CallType
  BY InUse DEF ToSerRef, Size, Copy, At
<1>2. obj[Of(t)].data \in Datas
  BY <1>1, InUse DEF ObjectType
<1> DEFINE OK(c) == c \in CallType /\ c.o = Of(t) /\ c.pc \in {"lock", "sending", "took"}
<1>3. PICK c : OK(c) /\ thread' = [thread EXCEPT ![t] = c]
  <2>1. CASE ToSerRef(t)
    <3> DEFINE c == [thread[t] EXCEPT !.pc = "sending", !.got = obj[Of(t)].data]
    <3>1. OK(c)
      BY <1>1, <1>2 DEF CallType, Of
    <3> QED
      BY <2>1, <3>1 DEF ToSerRef
  <2>2. CASE Size(t)
    <3> DEFINE c == [thread[t] EXCEPT !.pc = "lock", !.op = "to_ser", !.got = obj[Of(t)].data]
    <3>1. OK(c)
      BY <1>1, <1>2 DEF CallType, Of
    <3> QED
      BY <2>2, <3>1 DEF Size
  <2>3. CASE Copy(t)
    <3> DEFINE d == IF thread[t].op = "to_ser" /\ thread[t].got = Null THEN Null ELSE obj[Of(t)].data
               c == [thread[t] EXCEPT !.pc = "took", !.got = d]
    <3>1. d \in Datas
      BY <1>2, DataType
    <3>2. thread' = [thread EXCEPT ![t] = c]
      BY <2>3 DEF Copy
    <3> HIDE DEF d
    <3>3. OK(c)
      BY <1>1, <3>1 DEF CallType, Of
    <3> QED
      BY <3>2, <3>3
  <2> QED
    BY <2>1, <2>2, <2>3
<1>4. /\ thread' \in [Threads -> {Idle} \cup CallType]
      /\ \A u \in Threads : (thread'[u].pc = "idle" <=> thread[u].pc = "idle")
                            /\ (thread[u].pc # "idle" => thread'[u].o = thread[u].o)
  BY <1>1, <1>3, CallStep
<1>5. UNCHANGED <<topic, is_loaning_available, obj, loan, serialize_lock, rhc, whc, psmx, held>>
  BY DEF ToSerRef, Size, Copy
<1>6. OnLoan'
  BY <1>3, <1>5 DEF RefInv, TypeOK, OnLoan
<1> QED
  BY <1>4, <1>5, <1>6, QuietStep DEF RefInv, TypeOK

\* A step on loans alone: the application or the plugin gets or gives one back.
LEMMA LoanStep ==
  ASSUME RefInv, loan' \in [Loans -> {NoLoan} \cup LoanType],
         psmx' \subseteq Loans, held' \subseteq HoldType, IsFiniteSet(held'),
         \A l \in Loans : loan'[l].refs =
           Count(l \in psmx') + Cardinality(HolderObjs(l)) + Cardinality(Holds(l)'),
         OneKeeper',
         UNCHANGED <<topic, is_loaning_available, obj, serialize_lock, thread, rhc, whc>>
  PROVE  RefInv'
<1>1. TypeOK'
  BY DEF RefInv, TypeOK
<1>2. \A l \in Loans : HolderObjs(l)' = HolderObjs(l)
  BY DEF HolderObjs, Live
<1>3. LoanRefs'
  BY <1>2 DEF LoanRefs, Count, Holds
<1>4. ObjRefs'
  BY DEF RefInv, ReferencesExact, ObjRefs, Uses, Users, At, Of, Count
<1>5. OnLoan'
  BY DEF RefInv, OnLoan
<1> QED
  BY <1>1, <1>3, <1>4, <1>5, Halves DEF RefInv

\* rmw_borrow_loaned_message
LEMMA BorrowStep == ASSUME RefInv, NEW l \in Loans, NEW s \in Samples, Borrow(l, s) PROVE RefInv'
<1> DEFINE x == Loan("UNINITIALIZED", s)
           g == Hold(l, "publisher", s)
<1>1. x \in LoanType /\ x.refs = 1
  BY DEF Loan, LoanType, States
<1>2. g \in HoldType /\ g.l = l /\ g.by = "publisher"
  BY DEF Hold, HoldType
<1>3. loan' = [loan EXCEPT ![l] = x] /\ held' = held \cup {g} /\ psmx' = psmx
  BY DEF Borrow
<1> HIDE DEF x, g
<1>4. l \notin psmx /\ HolderObjs(l) = {} /\ Holds(l) = {}
  BY NotInUse DEF Borrow
<1>5. loan \in [Loans -> {NoLoan} \cup LoanType] /\ psmx \subseteq Loans /\ held \subseteq HoldType
  BY DEF RefInv, TypeOK
<1>6. IsFiniteSet(held')
  BY <1>3, FS_AddElement DEF RefInv
<1>7. ASSUME NEW k \in Loans
      PROVE  loan'[k].refs = Count(k \in psmx') + Cardinality(HolderObjs(k)) + Cardinality(Holds(k)')
  <2>1. CASE k = l
    <3>1. Holds(k)' = {g}
      BY <1>2, <1>3, <1>4, <2>1 DEF Holds
    <3>2. Cardinality(Holds(k)') = 1 /\ Cardinality(HolderObjs(k)) = 0
      BY <1>4, <2>1, <3>1, FS_Singleton, FS_EmptySet
    <3>3. Count(k \in psmx') = 0 /\ loan'[k].refs = 1
      BY <1>1, <1>3, <1>4, <1>5, <2>1 DEF Count
    <3> QED
      BY <3>2, <3>3
  <2>2. CASE k # l
    <3>1. Holds(k)' = Holds(k)
      BY <1>2, <1>3, <2>2 DEF Holds
    <3>2. loan'[k] = loan[k]
      BY <1>3, <1>5, <2>2
    <3> QED
      BY <1>3, <3>1, <3>2 DEF RefInv, ReferencesExact
  <2> QED
    BY <2>1, <2>2
<1>8. OneKeeper'
  <2>1. \A o \in Live : obj[o].loan # l
    BY <1>4 DEF HolderObjs
  <2>2. \A h \in held : h.l # l
    BY <1>4 DEF Holds
  <2>3. \A o \in rhc : o \in Live
    BY InUse
  <2> QED
    BY <1>2, <1>3, <1>4, <2>1, <2>2, <2>3 DEF RefInv, OneKeeper, Borrow, Live
<1>9. loan' \in [Loans -> {NoLoan} \cup LoanType] /\ psmx' \subseteq Loans /\ held' \subseteq HoldType
  BY <1>1, <1>2, <1>3, <1>5
<1> QED
  BY <1>6, <1>7, <1>8, <1>9, LoanStep DEF Borrow

\* Another process puts a sample into the plugin.
LEMMA FromElsewhereStep ==
  ASSUME RefInv, NEW l \in Loans, NEW s \in Samples, NEW state \in States, FromElsewhere(l, s, state)
  PROVE  RefInv'
<1> DEFINE x == Loan(state, s)
<1>1. x \in LoanType /\ x.refs = 1
  BY DEF Loan, LoanType
<1>2. loan' = [loan EXCEPT ![l] = x] /\ psmx' = psmx \cup {l} /\ held' = held
  BY DEF FromElsewhere
<1> HIDE DEF x
<1>3. l \notin psmx /\ HolderObjs(l) = {} /\ Holds(l) = {}
  BY NotInUse DEF FromElsewhere
<1>4. loan \in [Loans -> {NoLoan} \cup LoanType] /\ psmx \subseteq Loans /\ held \subseteq HoldType
  BY DEF RefInv, TypeOK
<1>5. ASSUME NEW k \in Loans
      PROVE  loan'[k].refs = Count(k \in psmx') + Cardinality(HolderObjs(k)) + Cardinality(Holds(k)')
  <2>1. Holds(k)' = Holds(k)
    BY <1>2 DEF Holds
  <2>2. CASE k = l
    <3>1. Cardinality(Holds(k)') = 0 /\ Cardinality(HolderObjs(k)) = 0
      BY <1>3, <2>1, <2>2, FS_EmptySet
    <3>2. Count(k \in psmx') = 1 /\ loan'[k].refs = 1
      BY <1>1, <1>2, <1>4, <2>2 DEF Count
    <3> QED
      BY <3>1, <3>2
  <2>3. CASE k # l
    <3>1. loan'[k] = loan[k] /\ Count(k \in psmx') = Count(k \in psmx)
      BY <1>2, <1>4, <2>3 DEF Count
    <3> QED
      BY <2>1, <3>1 DEF RefInv, ReferencesExact
  <2> QED
    BY <2>2, <2>3
<1>6. OneKeeper'
  <2>1. \A o \in Live : obj[o].loan # l
    BY <1>3 DEF HolderObjs
  <2>2. \A h \in held : h.l # l
    BY <1>3 DEF Holds
  <2>3. \A o \in rhc : o \in Live
    BY InUse
  <2> QED
    BY <1>2, <1>3, <2>1, <2>2, <2>3 DEF RefInv, OneKeeper, FromElsewhere, Live
<1>7. loan' \in [Loans -> {NoLoan} \cup LoanType] /\ psmx' \subseteq Loans
  BY <1>1, <1>2, <1>4
<1> QED
  BY <1>2, <1>4, <1>5, <1>6, <1>7, LoanStep DEF FromElsewhere, RefInv

\* rmw_return_loaned_message_from_publisher and _from_subscription, and a loan
\* taken back
LEMMA GiveBackStep == ASSUME RefInv, NEW h \in held, GiveBack(h) PROVE RefInv'
<1>1. h \in HoldType /\ loan[h.l] \in LoanType /\ h.l \in Loans
  BY InUse DEF HoldType
<1> DEFINE l == h.l
<1>2. /\ loan' \in [Loans -> {NoLoan} \cup LoanType]
      /\ loan'[l].refs = loan[l].refs - 1
      /\ \A k \in Loans \ {l} : loan'[k] = loan[k]
  BY <1>1, LoanUnrefEffect DEF GiveBack, RefInv
<1> HIDE DEF l
<1>3. held' = held \ {h} /\ psmx' = psmx /\ held' \subseteq HoldType /\ psmx' \subseteq Loans
  BY DEF GiveBack, RefInv, TypeOK
<1>4. IsFiniteSet(held')
  BY <1>3, FS_RemoveElement DEF RefInv
<1>5. ASSUME NEW k \in Loans
      PROVE  loan'[k].refs = Count(k \in psmx') + Cardinality(HolderObjs(k)) + Cardinality(Holds(k)')
  <2>1. loan[k].refs = Count(k \in psmx) + Cardinality(HolderObjs(k)) + Cardinality(Holds(k))
    BY DEF RefInv, ReferencesExact
  <2>2. Count(k \in psmx) \in Nat /\ Cardinality(HolderObjs(k)) \in Nat /\ Cardinality(Holds(k)) \in Nat
    BY Countable DEF Count
  <2>3. CASE k = l
    <3>1. Holds(k)' = Holds(k) \ {h} /\ h \in Holds(k)
      BY <1>3, <2>3 DEF Holds, l
    <3>2. Cardinality(Holds(k)') = Cardinality(Holds(k)) - 1
      BY <3>1, Countable, FS_RemoveElement
    <3> QED
      BY <1>2, <1>3, <2>1, <2>2, <2>3, <3>2
  <2>4. CASE k # l
    <3>1. Holds(k)' = Holds(k)
      BY <1>3, <2>4 DEF Holds, l
    <3> QED
      BY <1>2, <1>3, <2>1, <2>4, <3>1
  <2> QED
    BY <2>3, <2>4
<1>6. OneKeeper'
  BY <1>3 DEF RefInv, OneKeeper, GiveBack, Live
<1> QED
  BY <1>2, <1>3, <1>4, <1>5, <1>6, LoanStep DEF GiveBack

\* The loan stays where it is.
LEMMA LeaveLoanStep == ASSUME RefInv, NEW h \in held, LeaveLoan(h) PROVE RefInv'
<1> DEFINE g == Hold(h.l, "left", h.s)
<1>1. h \in HoldType /\ h.l \in Loans /\ held \subseteq HoldType
  BY DEF RefInv, TypeOK, HoldType
<1>2. g \in HoldType /\ g.l = h.l /\ g.by = "left"
  BY <1>1 DEF Hold, HoldType
<1>3. held' = (held \ {h}) \cup {g} /\ loan' = loan /\ psmx' = psmx
  BY DEF LeaveLoan
<1> HIDE DEF g
<1>4. IsFiniteSet(held')
  <2>1. IsFiniteSet(held \ {h})
    BY FS_RemoveElement DEF RefInv
  <2> QED
    BY <1>3, <2>1, FS_AddElement
<1>5. ASSUME NEW k \in Loans PROVE Cardinality(Holds(k)') = Cardinality(Holds(k))
  <2>1. CASE k = h.l
    <3>1. Holds(k) = {h} /\ Holds(k)' = {g}
      BY <1>2, <1>3, <2>1 DEF RefInv, OneKeeper, Holds
    <3> QED
      BY <3>1, FS_Singleton
  <2>2. CASE k # h.l
    <3>1. Holds(k)' = Holds(k)
      BY <1>2, <1>3, <2>2 DEF Holds
    <3> QED
      BY <3>1
  <2> QED
    BY <2>1, <2>2
<1>6. \A k \in Loans : loan'[k].refs =
        Count(k \in psmx') + Cardinality(HolderObjs(k)) + Cardinality(Holds(k)')
  BY <1>3, <1>5 DEF RefInv, ReferencesExact
<1>7. OneKeeper'
  <2>1. \A i \in held' : \E j \in held : i.l = j.l /\ (i # g => i = j)
    BY <1>2, <1>3
  <2>2. \A i \in held' : i # g => i \in held /\ i.l # h.l
    BY <1>3 DEF RefInv, OneKeeper
  <2> QED
    BY <1>2, <1>3, <2>1, <2>2 DEF RefInv, OneKeeper, LeaveLoan, Live
<1>8. loan' \in [Loans -> {NoLoan} \cup LoanType] /\ psmx' \subseteq Loans /\ held' \subseteq HoldType
  BY <1>1, <1>2, <1>3 DEF RefInv, TypeOK
<1> QED
  BY <1>4, <1>6, <1>7, <1>8, LoanStep DEF LeaveLoan

\* rmw_publish_loaned_message: the loan goes from the application to the object
\* and to the plugin.
LEMMA PublishLoanedStep ==
  ASSUME RefInv, NEW o \in FreeObjs, NEW h \in held, NEW cdr \in BOOLEAN, PublishLoaned(o, h, cdr)
  PROVE  RefInv'
<1>1. h \in HoldType /\ h.l \in Loans /\ h.s \in Samples /\ h.by = "publisher"
  BY DEF RefInv, TypeOK, HoldType, PublishLoaned
<1>2. PICK l \in Loans : l = h.l
  BY <1>1
<1>3. PICK data \in Datas : obj' = [obj EXCEPT ![o] = Object(1, "DATA", h.s, "sample", data, h.l)]
  <2>1. Whole(Content(h.s, Own, FALSE)) \in Datas /\ Null \in Datas
    BY <1>1, DataType
  <2> QED
    BY <2>1 DEF PublishLoaned
<1> DEFINE x == Object(1, "DATA", h.s, "sample", data, l)
           y == [refs |-> 2, state |-> "RAW_DATA", s |-> h.s]
<1>4. x \in ObjectType /\ x.refs = 1 /\ x.loan = l
  BY <1>1, FreshObject DEF Kinds
<1>5. y \in LoanType /\ y.refs = 2
  BY <1>1 DEF LoanType, States
<1>6. /\ obj' = [obj EXCEPT ![o] = x] /\ loan' = [loan EXCEPT ![l] = y]
      /\ whc' = whc \cup {o} /\ psmx' = psmx \cup {l} /\ held' = held \ {h}
      /\ UNCHANGED <<topic, is_loaning_available, serialize_lock, thread, rhc>>
  BY <1>2, <1>3 DEF PublishLoaned
<1> HIDE DEF x, y
<1>7. /\ obj' \in [Objs -> {NoObject} \cup ObjectType]
      /\ obj'[o] = x /\ \A p \in Objs \ {o} : obj'[p] = obj[p]
      /\ \A k \in Loans : Cardinality(HolderObjs(k)') =
           Cardinality(HolderObjs(k)) + IF k = x.loan THEN 1 ELSE 0
  BY <1>4, <1>6, NewObject
<1>8. o \in Objs /\ o \notin whc /\ o \notin rhc
  BY NotInUse
<1>9. TypeOK'
  BY <1>5, <1>6, <1>7, <1>8 DEF RefInv, TypeOK
<1>10. IsFiniteSet(held')
  BY <1>6, FS_RemoveElement DEF RefInv
<1>11. ObjRefs'
  <2>1. Count(o \in whc') = 1 /\ Count(o \in rhc') = 0
    BY <1>6, <1>8 DEF Count
  <2>2. x.refs = Count(o \in whc') + Count(o \in rhc')
    BY <1>4, <2>1
  <2> QED
    BY <1>4, <1>6, <2>2, NewObjRefs
<1>12. /\ l \notin psmx /\ HolderObjs(l) = {} /\ Holds(l) = {h}
  BY <1>1, <1>2 DEF RefInv, OneKeeper, HolderObjs, Holds
<1>13. LoanRefs'
  <2> SUFFICES ASSUME NEW k \in Loans
               PROVE  loan'[k].refs = Count(k \in psmx') + Cardinality(HolderObjs(k)') + Cardinality(Holds(k)')
    BY DEF LoanRefs
  <2>1. loan \in [Loans -> {NoLoan} \cup LoanType]
    BY DEF RefInv, TypeOK
  <2>2. CASE k = l
    <3>1. Holds(k)' = {}
      BY <1>6, <1>12, <2>2 DEF Holds
    <3>2. Cardinality(Holds(k)') = 0 /\ Cardinality(HolderObjs(k)) = 0
      BY <1>12, <2>2, <3>1, FS_EmptySet
    <3>3. Cardinality(HolderObjs(k)') = 1
      BY <1>4, <1>7, <2>2, <3>2
    <3>4. Count(k \in psmx') = 1 /\ loan'[k].refs = 2
      BY <1>5, <1>6, <2>1, <2>2 DEF Count
    <3> QED
      BY <3>2, <3>3, <3>4
  <2>3. CASE k # l
    <3>1. Holds(k)' = Holds(k)
      BY <1>2, <1>6, <2>3 DEF Holds
    <3>2. Cardinality(HolderObjs(k)') = Cardinality(HolderObjs(k))
      BY <1>4, <1>7, <2>3, Countable
    <3>3. loan'[k] = loan[k] /\ Count(k \in psmx') = Count(k \in psmx)
      BY <1>6, <2>1, <2>3 DEF Count
    <3> QED
      BY <3>1, <3>2, <3>3 DEF RefInv, ReferencesExact
  <2> QED
    BY <2>2, <2>3
<1>14. OneKeeper'
  <2>1. \A p \in rhc : p \in Live /\ p # o /\ obj'[p].loan = obj[p].loan
    BY <1>7, <1>8, InUse DEF Live
  <2>2. \A p \in Live' : p = o \/ (p \in Live /\ obj'[p].loan = obj[p].loan)
    BY <1>7, <1>8 DEF Live
  <2>3. \A g \in held' : g \in held /\ g.l # l
    BY <1>2, <1>6 DEF RefInv, OneKeeper
  <2>4. \A p \in rhc : obj[p].loan # l
    BY <1>2 DEF RefInv, OneKeeper
  <2>5. obj'[o].loan = l
    BY <1>4, <1>7
  <2> QED
    BY <1>6, <2>1, <2>2, <2>3, <2>4, <2>5 DEF RefInv, OneKeeper
<1>15. OnLoan'
  <2>1. \A u \in Threads : ~At(u, "idle") => Of(u) \in Objs \ {o}
    BY InUse DEF Live, FreeObjs
  <2> QED
    BY <1>6, <1>7, <2>1, OnLoanKept
<1> QED
  BY <1>9, <1>10, <1>11, <1>13, <1>14, <1>15, Halves DEF RefInv

\* serdata_rmw_from_psmx: the object takes the place of the plugin at a raw
\* loan; a serialized one is copied and given back.
LEMMA FromPsmxStep ==
  ASSUME RefInv, NEW o \in FreeObjs, NEW l \in psmx, FromPsmx(o, l)
  PROVE  RefInv'
<1> DEFINE state == loan[l].state
           s == loan[l].s
           raw == state \in {"RAW_DATA", "RAW_KEY"}
           d == Whole(Content(s, Own, Kind(state) = "KEY"))
<1>1. l \in Loans /\ loan[l] \in LoanType /\ s \in Samples /\ Kind(state) \in Kinds
  BY InUse DEF RefInv, TypeOK, LoanType, Kind, Kinds
<1>2. d \in Datas /\ Null \in Datas
  BY <1>1, DataType
<1>3. /\ rhc' = rhc \cup {o} /\ psmx' = psmx \ {l}
      /\ UNCHANGED <<topic, is_loaning_available, serialize_lock, thread, whc, held>>
  BY DEF FromPsmx, Received
<1>4. PICK x \in ObjectType :
        /\ obj' = [obj EXCEPT ![o] = x] /\ x.refs = 1
        /\ \/ x.loan = l /\ UNCHANGED loan
           \/ x.loan = None /\ loan' = LoanUnref(l)
  <2>1. CASE raw
    <3> DEFINE z == Object(1, Kind(state), s, "sample", Null, l)
    <3>1. z \in ObjectType /\ z.refs = 1 /\ z.loan = l
      BY <1>1, <1>2, FreshObject
    <3>2. obj' = [obj EXCEPT ![o] = z] /\ UNCHANGED loan
      BY <2>1 DEF FromPsmx, Received
    <3> QED
      BY <3>1, <3>2
  <2>2. CASE ~raw
    <3> DEFINE z == Object(1, Kind(state), s, "ser", d, None)
    <3>1. obj' = [obj EXCEPT ![o] = z] /\ loan' = LoanUnref(l)
      BY <2>2 DEF FromPsmx, Received
    <3> HIDE DEF d
    <3>2. z \in ObjectType /\ z.refs = 1 /\ z.loan = None
      BY <1>1, <1>2, FreshObject
    <3> QED
      BY <3>1, <3>2
  <2> QED
    BY <2>1, <2>2
<1>5. /\ obj' \in [Objs -> {NoObject} \cup ObjectType]
      /\ obj'[o] = x /\ \A p \in Objs \ {o} : obj'[p] = obj[p]
      /\ \A k \in Loans : Cardinality(HolderObjs(k)') =
           Cardinality(HolderObjs(k)) + IF k = x.loan THEN 1 ELSE 0
  BY <1>3, <1>4, NewObject
<1>6. o \in Objs /\ o \notin whc /\ o \notin rhc
  BY NotInUse
<1>7. /\ loan' \in [Loans -> {NoLoan} \cup LoanType]
      /\ \A k \in Loans \ {l} : loan'[k] = loan[k]
      /\ x.loan = l => loan'[l].refs = loan[l].refs
      /\ x.loan # l => loan'[l].refs = loan[l].refs - 1
      /\ x.loan \in {l, None}
  BY <1>1, <1>4, LoanUnrefEffect, NoneAssumption DEF RefInv, TypeOK
<1>8. TypeOK'
  BY <1>3, <1>5, <1>6, <1>7 DEF RefInv, TypeOK
<1>9. ObjRefs'
  <2>1. Count(o \in whc') = 0 /\ Count(o \in rhc') = 1
    BY <1>3, <1>6 DEF Count
  <2>2. x.refs = Count(o \in whc') + Count(o \in rhc')
    BY <1>4, <2>1
  <2> QED
    BY <1>3, <1>4, <2>2, NewObjRefs
<1>10. LoanRefs'
  <2> SUFFICES ASSUME NEW k \in Loans
               PROVE  loan'[k].refs = Count(k \in psmx') + Cardinality(HolderObjs(k)') + Cardinality(Holds(k)')
    BY DEF LoanRefs
  <2>1. Holds(k)' = Holds(k)
    BY <1>3 DEF Holds
  <2>2. loan[k].refs = Count(k \in psmx) + Cardinality(HolderObjs(k)) + Cardinality(Holds(k))
    BY DEF RefInv, ReferencesExact
  <2>3. Cardinality(HolderObjs(k)) \in Nat /\ Cardinality(Holds(k)) \in Nat
    BY Countable
  <2>4. CASE k = l
    <3>1. Count(k \in psmx) = 1 /\ Count(k \in psmx') = 0
      BY <1>3, <2>4 DEF Count
    <3>2. CASE x.loan = l
      <4>1. Cardinality(HolderObjs(k)') = Cardinality(HolderObjs(k)) + 1
        BY <1>5, <2>4, <3>2
      <4> QED
        BY <1>7, <2>1, <2>2, <2>3, <2>4, <3>1, <3>2, <4>1
    <3>3. CASE x.loan # l
      <4>1. Cardinality(HolderObjs(k)') = Cardinality(HolderObjs(k))
        BY <1>5, <2>3, <2>4, <3>3
      <4> QED
        BY <1>7, <2>1, <2>2, <2>3, <2>4, <3>1, <3>3, <4>1
    <3> QED
      BY <3>2, <3>3
  <2>5. CASE k # l
    <3>1. Count(k \in psmx') = Count(k \in psmx)
      BY <1>3, <2>5 DEF Count
    <3>2. Cardinality(HolderObjs(k)') = Cardinality(HolderObjs(k))
      BY <1>5, <1>7, <2>3, <2>5, NoneAssumption
    <3> QED
      BY <1>7, <2>1, <2>2, <2>5, <3>1, <3>2
  <2> QED
    BY <2>4, <2>5
<1>11. OneKeeper'
  <2>1. \A p \in rhc : p \in Live /\ p # o /\ obj'[p].loan = obj[p].loan /\ obj[p].loan # l
    BY <1>5, <1>6, InUse DEF Live, RefInv, OneKeeper
  <2>2. \A p \in Live' : p = o \/ (p \in Live /\ obj'[p].loan = obj[p].loan)
    BY <1>5, <1>6 DEF Live
  <2>3. \A h \in held : h.l # l /\ h.l # None
    BY NoneAssumption DEF RefInv, OneKeeper, TypeOK, HoldType
  <2>4. obj'[o].loan \in {l, None} /\ None \notin psmx
    BY <1>5, <1>7, NoneAssumption DEF RefInv, TypeOK
  <2> QED
    BY <1>3, <2>1, <2>2, <2>3, <2>4 DEF RefInv, OneKeeper
<1>12. OnLoan'
  <2>1. \A u \in Threads : ~At(u, "idle") => Of(u) \in Objs \ {o}
    BY InUse DEF Live, FreeObjs
  <2> QED
    BY <1>3, <1>5, <2>1, OnLoanKept
<1> QED
  BY <1>3, <1>8, <1>9, <1>10, <1>11, <1>12, Halves DEF RefInv

\* rmw_take_loan_int: the application, or its pointer, gets the loan of the
\* sample, or a new one the sample is copied to.
LEMMA TakeLoanStep ==
  ASSUME RefInv, NEW o \in rhc, NEW l \in Loans, TakeLoan(o, l) PROVE RefInv'
<1> DEFINE g == Hold(l, IF obj[o].kind = "DATA" THEN "subscription" ELSE "pointer", obj[o].s)
<1>1. /\ o \in Live /\ o \in Objs /\ obj[o] \in ObjectType
      /\ obj[o].refs \in Nat \ {0} /\ obj[o].loan \in Loans \cup {None} /\ obj[o].data \in Datas
  BY InUse DEF Live, ObjectType
<1>2. /\ rhc' = rhc \ {o} /\ obj' = ObjectUnref(o) /\ held' = held \cup {g}
      /\ UNCHANGED <<topic, is_loaning_available, serialize_lock, thread, whc, psmx>>
  BY DEF TakeLoan
<1>3. g \in HoldType /\ g.l = l /\ g.by # "publisher"
  BY <1>1 DEF Hold, HoldType, ObjectType
<1> HIDE DEF g
<1>4. /\ obj' \in [Objs -> {NoObject} \cup ObjectType]
      /\ \A p \in Live' : p \in Live /\ obj'[p].loan = obj[p].loan
      /\ \A k \in Loans : Cardinality(HolderObjs(k)') = Cardinality(HolderObjs(k))
           - IF obj[o].refs = 1 /\ obj[o].loan = k THEN 1 ELSE 0
  BY <1>1, <1>2, ObjectUnrefEffect
<1>5. ObjRefs' /\ OnLoan' /\ rhc' \subseteq Live'
  <2>1. \A p \in Objs : Users(p)' = Users(p)
    BY <1>2 DEF Users, At, Of
  <2>2. \A p \in Objs \ {o} : Uses(p)' = Uses(p)
    BY <1>2, <2>1 DEF Uses, Count
  <2>3. Count(o \in rhc) = 1 /\ Count(o \in rhc') = 0 /\ Count(o \in whc') = Count(o \in whc)
    BY <1>2 DEF Count
  <2>4. Count(o \in whc) \in Nat /\ Cardinality(Users(o)) \in Nat
    BY <1>1, Countable DEF Count
  <2>5. Uses(o)' = Uses(o) - 1
    BY <1>1, <2>1, <2>3, <2>4 DEF Uses
  <2> QED
    BY <1>1, <1>2, <2>2, <2>5, DropRefs
<1>6. loan \in [Loans -> {NoLoan} \cup LoanType] /\ psmx \subseteq Loans /\ held \subseteq HoldType
  BY DEF RefInv, TypeOK
\* the two ways to come by the loan
<1>7. /\ l \notin psmx /\ Holds(l) = {}
      /\ \A p \in rhc : p # o => obj[p].loan # l
      /\ \E y \in LoanType :
           /\ loan' = [loan EXCEPT ![l] = y]
           /\ y.refs = Cardinality(HolderObjs(l)') + 1
      /\ \A k \in Loans \ {l} : Cardinality(HolderObjs(k)') = Cardinality(HolderObjs(k))
  <2>1. CASE obj[o].loan # None
    <3>1. l = obj[o].loan /\ loan[l] \in LoanType /\ loan[l].refs \in Nat \ {0}
      BY <1>1, <2>1, InUse DEF TakeLoan, LoanType
    <3>2. l \notin psmx /\ Holds(l) = {} /\ \A p \in rhc : p # o => obj[p].loan # l
      BY <2>1, <3>1 DEF RefInv, OneKeeper, Holds
    <3>3. loan[l].refs = Cardinality(HolderObjs(l))
      <4>1. loan[l].refs = Count(l \in psmx) + Cardinality(HolderObjs(l)) + Cardinality(Holds(l))
        BY DEF RefInv, ReferencesExact
      <4>2. Count(l \in psmx) = 0 /\ Cardinality(Holds(l)) = 0
        BY <3>2, FS_EmptySet DEF Count
      <4> QED
        BY <4>1, <4>2, Countable
    <3> DEFINE n == IF obj[o].refs = 1 THEN loan[l].refs ELSE loan[l].refs + 1
               y == [loan[l] EXCEPT !.refs = n]
    <3>4. loan' = [loan EXCEPT ![l] = y]
      BY <2>1 DEF TakeLoan
    <3>5. n \in Nat \ {0}
      BY <3>1
    <3>6. n = Cardinality(HolderObjs(l)') + 1
      <4>1. CASE obj[o].refs = 1
        <5>1. Cardinality(HolderObjs(l)') = Cardinality(HolderObjs(l)) - 1
          BY <1>4, <3>1, <4>1
        <5> QED
          BY <3>1, <3>3, <4>1, <5>1
      <4>2. CASE obj[o].refs # 1
        <5>1. Cardinality(HolderObjs(l)') = Cardinality(HolderObjs(l))
          BY <1>4, <4>2, Countable
        <5> QED
          BY <3>3, <4>2, <5>1
      <4> QED
        BY <4>1, <4>2
    <3> HIDE DEF n
    <3>7. y \in LoanType /\ y.refs = n
      BY <3>1, <3>5 DEF LoanType
    <3>8. \A k \in Loans \ {l} : Cardinality(HolderObjs(k)') = Cardinality(HolderObjs(k))
      BY <1>4, <3>1, Countable
    <3> HIDE DEF y
    <3> QED
      BY <3>2, <3>4, <3>6, <3>7, <3>8
  <2>2. CASE obj[o].loan = None
    <3>1. l \in FreeLoans /\ obj[o].data.st = "whole"
      BY <2>2 DEF TakeLoan
    <3>2. l \notin psmx /\ Holds(l) = {} /\ HolderObjs(l) = {}
      BY <3>1, NotInUse
    <3>3. \A p \in rhc : obj[p].loan # l
      BY <3>2, InUse DEF HolderObjs
    <3>4. obj[o].data.c.s \in Samples
      BY <1>1, <3>1 DEF Datas, Whole, Contents, Content, Null, Part
    <3> DEFINE y == Loan(IF obj[o].kind = "DATA" THEN "RAW_DATA" ELSE "RAW_KEY", obj[o].data.c.s)
    <3>5. y \in LoanType /\ y.refs = 1
      BY <3>4 DEF Loan, LoanType, States
    <3>6. loan' = [loan EXCEPT ![l] = y]
      BY <2>2 DEF TakeLoan
    <3>7. \A k \in Loans : Cardinality(HolderObjs(k)') = Cardinality(HolderObjs(k))
      BY <1>4, <2>2, NoneAssumption, Countable
    <3>8. Cardinality(HolderObjs(l)') = 0
      BY <3>2, <3>7, FS_EmptySet
    <3>9. y.refs = Cardinality(HolderObjs(l)') + 1
      BY <3>5, <3>8
    <3> HIDE DEF y
    <3> QED
      BY <3>2, <3>3, <3>5, <3>6, <3>7, <3>9
  <2> QED
    BY <2>1, <2>2
<1>8. PICK y \in LoanType : loan' = [loan EXCEPT ![l] = y] /\ y.refs = Cardinality(HolderObjs(l)') + 1
  BY <1>7
<1>9. TypeOK'
  BY <1>2, <1>3, <1>4, <1>6, <1>8 DEF RefInv, TypeOK
<1>10. IsFiniteSet(held')
  BY <1>2, FS_AddElement DEF RefInv
<1>11. LoanRefs'
  <2> SUFFICES ASSUME NEW k \in Loans
               PROVE  loan'[k].refs = Count(k \in psmx') + Cardinality(HolderObjs(k)') + Cardinality(Holds(k)')
    BY DEF LoanRefs
  <2>1. CASE k = l
    <3>1. Holds(k)' = {g}
      BY <1>2, <1>3, <1>7, <2>1 DEF Holds
    <3>2. Cardinality(Holds(k)') = 1 /\ Count(k \in psmx') = 0
      BY <1>2, <1>7, <2>1, <3>1, FS_Singleton DEF Count
    <3>3. loan'[k].refs = Cardinality(HolderObjs(k)') + 1
      BY <1>6, <1>8, <2>1
    <3>4. Cardinality(HolderObjs(k)') \in Int
      BY <1>8, <2>1, Countable, <1>4
    <3> QED
      BY <3>2, <3>3, <3>4
  <2>2. CASE k # l
    <3>1. Holds(k)' = Holds(k)
      BY <1>2, <1>3, <2>2 DEF Holds
    <3>2. loan'[k] = loan[k]
      BY <1>6, <1>8, <2>2
    <3>3. Cardinality(HolderObjs(k)') = Cardinality(HolderObjs(k))
      BY <1>7, <2>2
    <3> QED
      BY <1>2, <3>1, <3>2, <3>3 DEF RefInv, ReferencesExact, Count
  <2> QED
    BY <2>1, <2>2
<1>12. OneKeeper'
  <2>1. \A p \in rhc' : p \in rhc /\ p # o /\ p \in Live' /\ obj'[p].loan = obj[p].loan
    BY <1>2, <1>4, <1>5
  <2>2. \A h \in held : h.l # l
    BY <1>7 DEF Holds
  <2> QED
    BY <1>2, <1>3, <1>4, <1>7, <2>1, <2>2 DEF RefInv, OneKeeper
<1> QED
  BY <1>5, <1>9, <1>10, <1>11, <1>12, Halves DEF RefInv

-----------------------------------------------------------------------------
(***************************************************************************)
(* At the start nothing exists, and every step keeps the books.            *)
(***************************************************************************)
Empty ==
  /\ TypeOK
  /\ obj = [o \in Objs |-> NoObject] /\ loan = [l \in Loans |-> NoLoan]
  /\ thread = [t \in Threads |-> Idle]
  /\ rhc = {} /\ whc = {} /\ psmx = {} /\ held = {}

LEMMA RefEmpty == Empty => RefInv
<1> SUFFICES ASSUME Empty PROVE RefInv
  OBVIOUS
<1>1. TypeOK
  BY DEF Empty
<1>2. IsFiniteSet(held)
  BY FS_EmptySet DEF Empty
<1>3. \A o \in Objs : Users(o) = {}
  BY DEF Empty, Users, At, Idle
<1>4. Live = {}
  BY DEF Empty, Live, NoObject
<1>5. \A l \in Loans : HolderObjs(l) = {} /\ Holds(l) = {}
  BY <1>4 DEF Empty, HolderObjs, Holds
<1>6. ReferencesExact
  <2>1. \A o \in Objs : obj[o].refs = 0 /\ o \notin whc /\ o \notin rhc
    BY DEF Empty, NoObject
  <2>2. \A l \in Loans : loan[l].refs = 0 /\ l \notin psmx
    BY DEF Empty, NoLoan
  <2>3. Cardinality({}) = 0
    BY FS_EmptySet
  <2>4. \A o \in Objs : Count(o \in whc) = 0 /\ Count(o \in rhc) = 0
    BY <2>1 DEF Count
  <2>5. \A l \in Loans : Count(l \in psmx) = 0
    BY <2>2 DEF Count
  <2>6. \A o \in Objs : Cardinality(Users(o)) = 0
    BY <1>3, <2>3
  <2>7. \A l \in Loans : Cardinality(HolderObjs(l)) = 0 /\ Cardinality(Holds(l)) = 0
    BY <1>5, <2>3
  <2>8. ObjRefs
    BY <2>1, <2>4, <2>6 DEF ObjRefs, Uses
  <2>9. LoanRefs
    BY <2>2, <2>5, <2>7 DEF LoanRefs
  <2> QED
    BY <2>8, <2>9, Halves
<1>7. OneKeeper /\ OnLoan
  BY DEF Empty, OneKeeper, OnLoan, Idle
<1> QED
  BY <1>1, <1>2, <1>6, <1>7 DEF RefInv

LEMMA EmptyInit == Init => Empty
  BY CodecAssumption DEF Init, Empty, TypeOK

LEMMA RefInit == Init => RefInv
  BY EmptyInit, RefEmpty

\* The process ends where memory for a serialized message is refused.
LEMMA EmptyAfter == ASSUME RefInv, PublishSerializedFails PROVE Empty'
<1>1. TypeOK'
  BY DEF RefInv, TypeOK, PublishSerializedFails
<1> QED
  BY <1>1 DEF Empty, PublishSerializedFails

LEMMA PublishSerializedFailsStep == ASSUME RefInv, PublishSerializedFails PROVE RefInv'
<1>1. Empty' => RefInv'
  BY RefEmpty, PTL
<1> QED
  BY <1>1, EmptyAfter

\* one case for each action
LEMMA RefNext == RefInv /\ [Next]_vars => RefInv'
<1> SUFFICES ASSUME RefInv, [Next]_vars PROVE RefInv'
  OBVIOUS
<1>1. SamplesOf \subseteq Samples
  BY CodecAssumption DEF RefInv, TypeOK, SamplesOf, C
<1>2. CASE \E s \in SamplesOf : Arriving(s)
  <2>1. PICK s \in Samples : Arriving(s)
    BY <1>1, <1>2
  <2>2. CASE \E o \in FreeObjs : Publish(o, s)
    BY <2>2, PublishStep
  <2>3. CASE \E o \in FreeObjs, enc \in Encodings \cup {Own} : PublishSerialized(o, s, enc)
    BY <2>3, PublishSerializedStep
  <2>4. CASE \E o \in FreeObjs, enc \in Encodings \cup {Own}, key \in BOOLEAN : FromSer(o, s, enc, key)
    BY <2>4, FromSerStep
  <2>5. CASE \E l \in Loans : Borrow(l, s)
    BY <2>5, BorrowStep
  <2>6. CASE \E l \in Loans, state \in States : FromElsewhere(l, s, state)
    BY <2>6, FromElsewhereStep
  <2> QED
    BY <2>1, <2>2, <2>3, <2>4, <2>5, <2>6 DEF Arriving
<1>3. CASE Passing
  <2>1. CASE \E h \in held : ReturnLoan(h) \/ TakeBack(h)
    BY <2>1, GiveBackStep DEF ReturnLoan, TakeBack
  <2>2. CASE \E h \in held : LeaveLoan(h)
    BY <2>2, LeaveLoanStep
  <2>3. CASE \E o \in FreeObjs, h \in held, cdr \in BOOLEAN : PublishLoaned(o, h, cdr)
    BY <2>3, PublishLoanedStep
  <2>4. CASE \E o \in FreeObjs, l \in psmx : FromPsmx(o, l)
    BY <2>4, FromPsmxStep
  <2> QED
    BY <1>3, <2>1, <2>2, <2>3, <2>4 DEF Passing
<1>4. CASE \E t \in Threads : MayWork(t) /\ Using(t)
  <2>1. PICK t \in Threads : Using(t)
    BY <1>4
  <2>2. CASE \E o \in whc : Send(t, o)
    BY <2>2, SendStep
  <2>3. CASE \E o \in rhc, op \in {"to_sample", "size"} : Take(t, o, op)
    BY <2>3, TakeStep
  <2>4. CASE OnDemand(t)
    BY <2>4, OnDemandStep
  <2>5. CASE ToSerRef(t) \/ Size(t) \/ Copy(t)
    BY <2>5, ReadStep
  <2>6. CASE NoRoom(t)
    BY <2>6, NoRoomStep
  <2>7. CASE Finish(t)
    BY <2>7, FinishStep
  <2> QED
    BY <2>1, <2>2, <2>3, <2>4, <2>5, <2>6, <2>7 DEF Using
<1>5. CASE \E o \in Objs : Ack(o)
  BY <1>5, AckStep
<1>6. CASE \E o \in rhc : SkipInvalid(o)
  BY <1>6, SkipInvalidStep
<1>7. CASE \E o \in rhc, l \in Loans : TakeLoan(o, l)
  BY <1>7, TakeLoanStep
<1>8. CASE PublishSerializedFails
  BY <1>8, PublishSerializedFailsStep
<1>9. CASE UNCHANGED vars
  <2>1. UNCHANGED <<topic, is_loaning_available, obj, loan, serialize_lock, thread, rhc, whc, psmx, held>>
    BY <1>9 DEF vars
  <2>2. TypeOK' /\ IsFiniteSet(held') /\ OneKeeper' /\ OnLoan'
    BY <2>1 DEF RefInv, TypeOK, OneKeeper, OnLoan, Live
  <2>3. ReferencesExact'
    BY <2>1 DEF RefInv, ReferencesExact, Users, HolderObjs, Holds, Live, At, Of, Count
  <2> QED
    BY <2>2, <2>3 DEF RefInv
<1> QED
  BY <1>2, <1>3, <1>4, <1>5, <1>6, <1>7, <1>8, <1>9 DEF Next

\* Every variable keeps its type; with the reference counts as natural numbers
\* no object or loan is freed twice.
THEOREM SerdataTypeCorrect == Spec => []TypeOK
<1>1. RefInv => TypeOK
  BY DEF RefInv
<1> QED
  BY <1>1, RefInit, RefNext, PTL DEF Spec

\* An object and a loan exist for exactly as long as somebody refers to them
\* (serdata_rmw_from_loaned_sample, serdata_rmw_from_psmx, serdata_rmw_free).
THEOREM ReferencesAlwaysExact == Spec => []ReferencesExact
<1>1. RefInv => ReferencesExact
  BY DEF RefInv
<1> QED
  BY <1>1, RefInit, RefNext, PTL DEF Spec
=============================================================================
