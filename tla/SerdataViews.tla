---------------------------- MODULE SerdataViews ----------------------------
(***************************************************************************)
(* What is proved about Serdata beyond its references: the data given out  *)
(* by to_ser_ref is whole and stays as it is, however many threads         *)
(* serialize the object on demand; what is taken is what was published, if *)
(* the codec by itself brings back what it serialized; and on a topic that *)
(* the codec makes faithful keys for, objects agree in their keys as their *)
(* samples do.                                                             *)
(***************************************************************************)
EXTENDS SerdataProofs

(***************************************************************************)
(* The serialize_lock belongs to the one thread between the test of data() *)
(* and the end of serialize, so that what is null at the test stays null   *)
(* until this thread fills it, and nobody else sees the unfilled buffer.   *)
(* An object without a loan has its data from the start, unless memory was *)
(* refused; only objects of kind DATA are sent and taken, and their loans  *)
(* hold data.                                                              *)
(***************************************************************************)
Of1(t) == obj[thread[t].o]
Locked == \A t \in Threads : thread[t].pc \in {"check", "resize", "fill"} => serialize_lock = t
Filling ==
  /\ \A t \in Threads : thread[t].pc = "resize" => Of1(t).data = Null
  /\ \A t \in Threads : thread[t].pc = "fill" => Of1(t).data = Part
  /\ \A o \in Live : obj[o].data = Part => \E t \in Threads : thread[t].pc = "fill" /\ thread[t].o = o
Filled ==
  /\ \A t \in Threads : thread[t].pc = "use" => Of1(t).data.st = "whole" \/ Of1(t).oom
  /\ \A t \in Threads : thread[t].pc = "sending" =>
       IF thread[t].got.st = "whole" THEN Of1(t).data = thread[t].got ELSE Of1(t).oom
HasData ==
  /\ \A o \in Live : obj[o].data = Null /\ obj[o].loan = None => obj[o].oom
  /\ \A o \in Live : obj[o].kind = "DATA" /\ obj[o].loan # None =>
       loan[obj[o].loan].state \in {"RAW_DATA", "SERIALIZED_DATA"}
  /\ \A o \in whc : obj[o].kind = "DATA"
  /\ \A t \in Threads : thread[t].pc # "idle" => Of1(t).kind = "DATA"

ViewInv == Locked /\ Filling /\ Filled /\ HasData

-----------------------------------------------------------------------------
(***************************************************************************)
(* Steps that are not of a serialization on demand.  Each object that is   *)
(* there after the step is as before, apart from its references, or new.   *)
(***************************************************************************)
Kept(p) ==
  /\ p \in Live
  /\ obj'[p].data = obj[p].data /\ obj'[p].kind = obj[p].kind
  /\ obj'[p].loan = obj[p].loan /\ obj'[p].oom = obj[p].oom
  /\ obj[p].loan # None => loan'[obj[p].loan].state = loan[obj[p].loan].state
Fresh(p) ==
  /\ p \notin Live /\ obj'[p].data # Part
  /\ obj'[p].data = Null /\ obj'[p].loan = None => obj'[p].oom
  /\ obj'[p].kind = "DATA" /\ obj'[p].loan # None =>
       loan'[obj'[p].loan].state \in {"RAW_DATA", "SERIALIZED_DATA"}

\* whatever is in use exists, also after the step
InUseExists ==
  /\ \A t \in Threads : thread[t].pc # "idle" => thread[t].o \in Live
  /\ \A o \in whc : o \in Live
  /\ \A o \in Live : obj[o].loan # None => obj[o].loan \in Loans /\ loan[obj[o].loan].refs # 0
  /\ \A h \in held : h.l \in Loans /\ loan[h.l].refs # 0
\* (a lemma, because RefInv' cannot be expanded)
LEMMA InUseAfter == RefInv' => InUseExists'
<1>1. RefInv => InUseExists
  BY InUse DEF At, Of, LoanType, HoldType, InUseExists
<1> QED
  BY <1>1, PTL

\* such a step keeps ViewInv, if nobody comes to the places under the lock
LEMMA ViewKept ==
  ASSUME RefInv, RefInv', ViewInv, UNCHANGED serialize_lock,
         \A u \in Threads :
           \/ thread'[u] = thread[u] \/ thread'[u].pc = "idle"
           \/ thread'[u].pc \in {"lock", "took"} /\ obj'[thread'[u].o].kind = "DATA",
         \A u \in Threads : thread[u].pc = "fill" => thread'[u] = thread[u],
         \A p \in Live' : Kept(p) \/ Fresh(p),
         \A p \in whc' : p \in whc \/ obj'[p].kind = "DATA"
  PROVE  ViewInv'
<1>1. ASSUME NEW u \in Threads, thread'[u] = thread[u], thread[u].pc # "idle"
      PROVE  Kept(thread[u].o)
  <2>1. thread[u].o \in Live /\ thread[u].o \in Live'
    BY <1>1, InUse, InUseAfter DEF At, Of, InUseExists
  <2> QED
    BY <2>1 DEF Fresh
<1>2. \A o \in whc' : o \in Live'
  BY InUseAfter DEF InUseExists
<1>3. Locked'
  BY DEF ViewInv, Locked
<1>4. Filling'
  <2>1. \A t \in Threads : thread'[t].pc \in {"resize", "fill"} => thread'[t] = thread[t]
    OBVIOUS
  <2>2. ASSUME NEW o \in Live', obj'[o].data = Part
        PROVE  \E t \in Threads : thread'[t].pc = "fill" /\ thread'[t].o = o
    <3>1. Kept(o)
      BY <2>2 DEF Fresh
    <3>2. PICK t \in Threads : thread[t].pc = "fill" /\ thread[t].o = o
      BY <2>2, <3>1 DEF Kept, ViewInv, Filling
    <3> QED
      BY <3>2
  <2> QED
    BY <1>1, <2>1, <2>2 DEF ViewInv, Filling, Of1, Kept
<1>5. Filled'
  <2>1. \A t \in Threads : thread'[t].pc \in {"use", "sending"} => thread'[t] = thread[t]
    OBVIOUS
  <2> QED
    BY <1>1, <2>1 DEF ViewInv, Filled, Of1, Kept
<1>6. HasData'
  <2>1. ASSUME NEW o \in Live'
        PROVE  /\ obj'[o].data = Null /\ obj'[o].loan = None => obj'[o].oom
               /\ obj'[o].kind = "DATA" /\ obj'[o].loan # None =>
                    loan'[obj'[o].loan].state \in {"RAW_DATA", "SERIALIZED_DATA"}
    BY DEF Kept, Fresh, ViewInv, HasData
  <2>2. \A o \in whc' : obj'[o].kind = "DATA"
    <3> SUFFICES ASSUME NEW o \in whc', o \in whc PROVE obj'[o].kind = "DATA"
      OBVIOUS
    <3>1. o \in Live' /\ o \in Live
      BY <1>2, InUse
    <3> QED
      BY <3>1 DEF Kept, Fresh, ViewInv, HasData
  <2>3. \A t \in Threads : thread'[t].pc # "idle" => obj'[thread'[t].o].kind = "DATA"
    BY <1>1 DEF Kept, ViewInv, HasData, Of1
  <2> QED
    BY <2>1, <2>2, <2>3 DEF HasData, Of1
<1> QED
  BY <1>3, <1>4, <1>5, <1>6 DEF ViewInv

\* a new object
LEMMA NewKept ==
  ASSUME RefInv, RefInv', ViewInv, NEW o \in FreeObjs, NEW x,
         obj' = [obj EXCEPT ![o] = x], x.data # Part,
         x.data = Null /\ x.loan = None => x.oom,
         x.kind = "DATA" /\ x.loan # None => loan'[x.loan].state \in {"RAW_DATA", "SERIALIZED_DATA"},
         whc' \subseteq whc \cup {o}, x.kind = "DATA" \/ whc' = whc,
         \A p \in Live : obj[p].loan # None => loan'[obj[p].loan].state = loan[obj[p].loan].state,
         UNCHANGED <<thread, serialize_lock>>
  PROVE  ViewInv'
<1>1. o \in Objs /\ o \notin Live /\ obj \in [Objs -> {NoObject} \cup ObjectType]
  BY NotInUse DEF FreeObjs, RefInv, TypeOK
<1>2. obj'[o] = x /\ \A p \in Objs \ {o} : obj'[p] = obj[p]
  BY <1>1
<1>3. ASSUME NEW p \in Live' PROVE Kept(p) \/ Fresh(p)
  <2>1. p \in Objs /\ (p # o => p \in Live)
    BY <1>2 DEF Live
  <2>2. CASE p = o
    BY <1>1, <1>2, <2>2 DEF Fresh
  <2>3. CASE p # o
    BY <1>2, <2>1, <2>3 DEF Kept
  <2> QED
    BY <2>2, <2>3
<1>4. \A p \in whc' : p \in whc \/ obj'[p].kind = "DATA"
  BY <1>2
<1> QED
  BY <1>3, <1>4, ViewKept

\* rmw_publish, rmw_publish_serialized_message, serdata_rmw_from_ser
LEMMA PublishViews ==
  ASSUME RefInv, RefInv', ViewInv, NEW o \in FreeObjs, NEW s \in Samples,
         \/ Publish(o, s) \/ \E enc \in Encodings \cup {Own} : PublishSerialized(o, s, enc)
         \/ \E enc \in Encodings \cup {Own}, key \in BOOLEAN : FromSer(o, s, enc, key)
  PROVE  ViewInv'
<1>1. PICK kind \in Kinds, key \in {"sample", "ser"}, data \in Datas, refs \in {1, 2} :
        /\ obj' = [obj EXCEPT ![o] = Object(refs, kind, s, key, data, None)]
        /\ data # Part /\ whc' \subseteq whc \cup {o}
        /\ kind = "DATA" \/ whc' = whc
  <2>1. /\ \A enc \in Encodings \cup {Own}, key \in BOOLEAN :
             /\ Whole(Content(s, enc, key)) \in Datas /\ Whole(Content(s, enc, key)) # Part
        /\ Null \in Datas /\ Null # Part
    BY DataType DEF Whole, Null, Part
  <2>2. CASE Publish(o, s)
    BY <2>1, <2>2 DEF Publish, Written, Kinds
  <2>3. CASE \E enc \in Encodings \cup {Own} : PublishSerialized(o, s, enc)
    <3>1. PICK enc \in Encodings \cup {Own} : PublishSerialized(o, s, enc)
      BY <2>3
    <3> DEFINE d == Whole(Content(s, enc, FALSE))
    <3>2. d \in Datas /\ d # Part
      BY <2>1
    <3>3. obj' = [obj EXCEPT ![o] = Object(2, "DATA", s, "ser", d, None)] /\ whc' = whc \cup {o}
      BY <3>1 DEF PublishSerialized, Written
    <3> HIDE DEF d
    <3> QED
      BY <3>2, <3>3 DEF Kinds
  <2>4. CASE \E enc \in Encodings \cup {Own}, key \in BOOLEAN : FromSer(o, s, enc, key)
    <3>1. PICK enc \in Encodings \cup {Own}, key \in BOOLEAN : FromSer(o, s, enc, key)
      BY <2>4
    <3> DEFINE d == Whole(Content(s, enc, key))
               kind == IF key THEN "KEY" ELSE "DATA"
    <3>2. d \in Datas /\ d # Part /\ kind \in Kinds
      BY <2>1 DEF Kinds
    <3>3. obj' = [obj EXCEPT ![o] = Object(1, kind, s, "ser", d, None)] /\ whc' = whc
      BY <3>1 DEF FromSer, Received
    <3> HIDE DEF d, kind
    <3> QED
      BY <3>2, <3>3
  <2> QED
    BY <2>2, <2>3, <2>4
<1> DEFINE x == Object(refs, kind, s, key, data, None)
<1>2. /\ x \in ObjectType /\ x.loan = None /\ x.kind = kind
      /\ x.data = data /\ (data = Null => x.oom)
  <2>1. refs \in Nat \ {0} /\ None \in Loans \cup {None}
    OBVIOUS
  <2> QED
    BY <2>1, FreshObject
<1>3. UNCHANGED <<thread, serialize_lock, loan>>
  BY DEF Publish, PublishSerialized, FromSer
<1>4. obj' = [obj EXCEPT ![o] = x]
  BY <1>1
<1> HIDE DEF x
<1> QED
  BY <1>1, <1>2, <1>3, <1>4, NewKept

\* a step on loans alone, which leaves those in objects
LEMMA LoanViews ==
  ASSUME RefInv, RefInv', ViewInv,
         \/ \E l \in Loans, s \in Samples : Borrow(l, s)
         \/ \E l \in Loans, s \in Samples, state \in States : FromElsewhere(l, s, state)
         \/ \E h \in held : GiveBack(h)
  PROVE  ViewInv'
<1>1. UNCHANGED <<obj, serialize_lock, thread, whc>>
  BY DEF Borrow, FromElsewhere, GiveBack
<1>2. ASSUME NEW p \in Live, obj[p].loan # None
      PROVE  loan'[obj[p].loan].state = loan[obj[p].loan].state
  <2>1. PICK k \in Loans : k = obj[p].loan /\ p \in HolderObjs(k)
    BY <1>2, InUse DEF HolderObjs
  <2>2. k \notin FreeLoans
    BY <2>1, NotInUse
  <2>3. CASE \E l \in Loans, s \in Samples : Borrow(l, s)
    BY <2>1, <2>2, <2>3 DEF Borrow, RefInv, TypeOK
  <2>4. CASE \E l \in Loans, s \in Samples, state \in States : FromElsewhere(l, s, state)
    BY <2>1, <2>2, <2>4 DEF FromElsewhere, RefInv, TypeOK
  <2>5. CASE \E h \in held : GiveBack(h)
    <3>1. PICK h \in held : GiveBack(h)
      BY <2>5
    <3>2. loan' = LoanUnref(h.l) /\ h.l \in Loans /\ loan[h.l] \in LoanType /\ TypeOK
      BY <3>1, InUse DEF GiveBack, HoldType, RefInv
    <3>3. /\ loan'[h.l].refs # 0 => loan'[h.l].state = loan[h.l].state
          /\ \A j \in Loans \ {h.l} : loan'[j] = loan[j]
      BY <3>2, LoanUnrefEffect
    <3>4. p \in Live'
      BY <1>1 DEF Live
    <3>5. loan'[k].refs # 0
      BY <1>1, <1>2, <2>1, <3>4, InUseAfter DEF InUseExists
    <3> QED
      BY <2>1, <3>3, <3>5
  <2> QED
    BY <2>3, <2>4, <2>5
<1>3. \A p \in Live' : Kept(p)
  BY <1>1, <1>2 DEF Kept, Live
<1> QED
  BY <1>1, <1>3, ViewKept

\* rmw_publish_loaned_message
LEMMA PublishLoanedViews ==
  ASSUME RefInv, RefInv', ViewInv, NEW o \in FreeObjs, NEW h \in held, NEW cdr \in BOOLEAN,
         PublishLoaned(o, h, cdr)
  PROVE  ViewInv'
<1>1. h \in HoldType /\ h.l \in Loans /\ h.s \in Samples /\ h.by = "publisher"
  BY DEF RefInv, TypeOK, HoldType, PublishLoaned
<1>2. PICK data \in Datas :
        data # Part /\ obj' = [obj EXCEPT ![o] = Object(1, "DATA", h.s, "sample", data, h.l)]
  <2>1. /\ Whole(Content(h.s, Own, FALSE)) \in Datas /\ Null \in Datas
        /\ Whole(Content(h.s, Own, FALSE)) # Part /\ Null # Part
    BY <1>1, DataType DEF Whole, Null, Part
  <2> QED
    BY <2>1 DEF PublishLoaned
<1> DEFINE x == Object(1, "DATA", h.s, "sample", data, h.l)
<1>3. x \in ObjectType /\ x.loan = h.l /\ x.kind = "DATA" /\ x.data = data
  BY <1>1, FreshObject DEF Kinds, Object
<1>4. /\ loan' = [loan EXCEPT ![h.l] = [refs |-> 2, state |-> "RAW_DATA", s |-> h.s]]
      /\ whc' = whc \cup {o} /\ UNCHANGED <<thread, serialize_lock>>
  BY DEF PublishLoaned
<1>5. loan'[h.l].state = "RAW_DATA" /\ \A k \in Loans \ {h.l} : loan'[k] = loan[k]
  BY <1>1, <1>4 DEF RefInv, TypeOK
<1>6. \A p \in Live : obj[p].loan # None => loan'[obj[p].loan].state = loan[obj[p].loan].state
  BY <1>1, <1>5, InUse DEF RefInv, OneKeeper
<1>7. h.l # None
  BY <1>1, NoneAssumption
<1>8. obj' = [obj EXCEPT ![o] = x]
  BY <1>2
<1> HIDE DEF x
<1> QED
  BY <1>2, <1>3, <1>4, <1>5, <1>6, <1>7, <1>8, NewKept

\* serdata_rmw_from_psmx
LEMMA FromPsmxViews ==
  ASSUME RefInv, RefInv', ViewInv, NEW o \in FreeObjs, NEW l \in psmx, FromPsmx(o, l)
  PROVE  ViewInv'
<1> DEFINE state == loan[l].state
           s == loan[l].s
           raw == state \in {"RAW_DATA", "RAW_KEY"}
           d == Whole(Content(s, Own, Kind(state) = "KEY"))
<1>1. l \in Loans /\ loan[l] \in LoanType /\ s \in Samples /\ Kind(state) \in Kinds /\ l # None
  BY InUse, NoneAssumption DEF RefInv, TypeOK, LoanType, Kind, Kinds
<1>2. d \in Datas /\ Null \in Datas /\ d # Part /\ Null # Part /\ d # Null
  BY <1>1, DataType DEF Whole, Null, Part
<1>3. whc' = whc /\ UNCHANGED <<thread, serialize_lock>>
  BY DEF FromPsmx, Received
<1>4. CASE raw
  <2> DEFINE x == Object(1, Kind(state), s, "sample", Null, l)
  <2>1. x.loan = l /\ x.kind = Kind(state) /\ x.data = Null
    BY DEF Object
  <2>2. obj' = [obj EXCEPT ![o] = x] /\ UNCHANGED loan
    BY <1>4 DEF FromPsmx, Received
  <2>3. Kind(state) = "DATA" => state = "RAW_DATA"
    BY <1>4 DEF Kind
  <2> HIDE DEF x
  <2> QED
    BY <1>1, <1>2, <1>3, <2>1, <2>2, <2>3, NewKept
<1>5. CASE ~raw
  <2> DEFINE x == Object(1, Kind(state), s, "ser", d, None)
  <2>1. obj' = [obj EXCEPT ![o] = x] /\ loan' = LoanUnref(l)
    BY <1>5 DEF FromPsmx, Received
  <2> HIDE DEF d
  <2>2. x.loan = None /\ x.data = d
    BY DEF Object
  <2> HIDE DEF x
  <2>3. /\ loan'[l].refs # 0 => loan'[l].state = loan[l].state
        /\ \A k \in Loans \ {l} : loan'[k] = loan[k]
    BY <1>1, <2>1, LoanUnrefEffect DEF RefInv
  <2>4. ASSUME NEW p \in Live, obj[p].loan # None
        PROVE  loan'[obj[p].loan].state = loan[obj[p].loan].state
    <3>1. p \in Live' /\ obj'[p].loan = obj[p].loan
      BY <2>1 DEF Live, FreeObjs
    <3>2. obj[p].loan \in Loans /\ loan'[obj[p].loan].refs # 0
      BY <2>4, <3>1, InUseAfter DEF InUseExists
    <3> QED
      BY <2>3, <3>2
  <2> QED
    BY <1>2, <1>3, <2>1, <2>2, <2>4, NewKept
<1> QED
  BY <1>4, <1>5

\* a cache or a call drops its reference to an object
LEMMA UnrefViews ==
  ASSUME RefInv, RefInv', ViewInv, NEW o \in Live, Unref(o), whc' \subseteq whc,
         UNCHANGED serialize_lock,
         \A u \in Threads : thread'[u] = thread[u] \/ (thread'[u].pc = "idle" /\ thread[u].pc # "fill")
  PROVE  ViewInv'
<1>1. /\ obj'[o].refs # 0 => obj'[o] = [obj[o] EXCEPT !.refs = @ - 1]
      /\ \A p \in Objs \ {o} : obj'[p] = obj[p]
      /\ \A p \in Live' : p \in Live
  BY ObjectUnrefEffect DEF Unref
<1>2. \A l \in Loans : loan'[l].refs # 0 => loan'[l].state = loan[l].state
  BY UnrefEffect
<1>3. ASSUME NEW p \in Live' PROVE Kept(p)
  <2>1. p \in Live /\ obj[p] \in ObjectType /\ p \in Objs /\ obj'[p].refs # 0
    BY <1>1, InUse DEF Live
  <2>2. /\ obj'[p].data = obj[p].data /\ obj'[p].kind = obj[p].kind
        /\ obj'[p].loan = obj[p].loan /\ obj'[p].oom = obj[p].oom
    BY <1>1, <2>1 DEF ObjectType
  <2>3. obj[p].loan # None => obj[p].loan \in Loans /\ loan'[obj[p].loan].refs # 0
    BY <2>2, InUseAfter DEF InUseExists
  <2> QED
    BY <1>2, <2>1, <2>2, <2>3 DEF Kept
<1> QED
  BY <1>3, ViewKept

\* the steps that do so
LEMMA DropViews ==
  ASSUME RefInv, RefInv', ViewInv,
         \/ \E o \in Objs : Ack(o)
         \/ \E o \in rhc : SkipInvalid(o)
         \/ \E t \in Threads : NoRoom(t) \/ Finish(t)
  PROVE  ViewInv'
<1>1. CASE \E o \in Objs : Ack(o)
  <2>1. PICK o \in whc : Ack(o)
    BY <1>1 DEF Ack
  <2>2. o \in Live /\ Unref(o) /\ whc' \subseteq whc /\ UNCHANGED <<serialize_lock, thread>>
    BY <2>1, InUse DEF Ack
  <2>3. \A u \in Threads : thread'[u] = thread[u]
    BY <2>2
  <2> QED
    BY <2>2, <2>3, UnrefViews
<1>2. CASE \E o \in rhc : SkipInvalid(o)
  <2>1. PICK o \in rhc : SkipInvalid(o)
    BY <1>2
  <2>2. o \in Live /\ Unref(o) /\ whc' \subseteq whc /\ UNCHANGED <<serialize_lock, thread>>
    BY <2>1, InUse DEF SkipInvalid
  <2>3. \A u \in Threads : thread'[u] = thread[u]
    BY <2>2
  <2> QED
    BY <2>2, <2>3, UnrefViews
<1>3. CASE \E t \in Threads : NoRoom(t) \/ Finish(t)
  <2>1. PICK t \in Threads : NoRoom(t) \/ Finish(t)
    BY <1>3
  <2>2. thread[t].pc \in {"use", "sending", "took"}
    BY <2>1 DEF NoRoom, Finish, At
  <2>3. PICK o \in Live : o = Of(t)
    BY <2>2, InUse DEF At
  <2>4. /\ Unref(o) /\ whc' \subseteq whc /\ UNCHANGED serialize_lock
        /\ thread' = [thread EXCEPT ![t] = Idle]
    BY <2>1, <2>3 DEF NoRoom, Finish
  <2>5. \A u \in Threads : thread'[u] = thread[u] \/ (thread'[u].pc = "idle" /\ thread[u].pc # "fill")
    BY <2>2, <2>4 DEF RefInv, TypeOK, Idle
  <2> QED
    BY <2>4, <2>5, UnrefViews
<1> QED
  BY <1>1, <1>2, <1>3

\* a call starts, asks again or takes
LEMMA CallViews ==
  ASSUME RefInv, RefInv', ViewInv, NEW t \in Threads,
         \/ \E o \in whc : Send(t, o)
         \/ \E o \in rhc, op \in {"to_sample", "size"} : Take(t, o, op)
         \/ Size(t) \/ Copy(t)
  PROVE  ViewInv'
<1>1. UNCHANGED <<loan, serialize_lock, whc>> /\ thread[t].pc # "fill"
  BY DEF Send, Take, Size, Copy, At
<1>2. thread \in [Threads -> {Idle} \cup CallType] /\ obj \in [Objs -> {NoObject} \cup ObjectType]
  BY DEF RefInv, TypeOK
<1>3. ASSUME NEW p \in Live
      PROVE  /\ obj'[p].data = obj[p].data /\ obj'[p].kind = obj[p].kind
             /\ obj'[p].loan = obj[p].loan /\ obj'[p].oom = obj[p].oom
  <2>1. obj[p] \in ObjectType
    BY InUse
  <2>2. CASE UNCHANGED obj
    BY <2>2
  <2>3. CASE \E o \in whc : Send(t, o)
    BY <1>2, <2>1, <2>3 DEF Send, ObjectType
  <2> QED
    BY <2>2, <2>3 DEF Take, Size, Copy
<1>4. \A p \in Live' : p \in Live
  <2>1. CASE UNCHANGED obj
    BY <2>1 DEF Live
  <2>2. CASE \E o \in whc : Send(t, o)
    BY <1>2, <2>2, InUse DEF Send, Live
  <2> QED
    BY <2>1, <2>2 DEF Take, Size, Copy
<1>5. \A p \in Live' : Kept(p)
  BY <1>1, <1>3, <1>4 DEF Kept
<1>6. \A u \in Threads \ {t} : thread'[u] = thread[u]
  BY <1>2 DEF Send, Take, Size, Copy, Call
<1>7. thread'[t].pc \in {"lock", "took"} /\ obj'[thread'[t].o].kind = "DATA"
  <2>1. CASE \E o \in whc : Send(t, o)
    <3>1. PICK o \in whc : Send(t, o)
      BY <2>1
    <3>2. thread'[t].pc = "lock" /\ thread'[t].o = o
      BY <1>2, <3>1 DEF Send, Call
    <3>3. o \in Live /\ obj[o].kind = "DATA"
      BY InUse DEF ViewInv, HasData
    <3> QED
      BY <1>3, <3>2, <3>3
  <2>2. CASE \E o \in rhc, op \in {"to_sample", "size"} : Take(t, o, op)
    <3>1. PICK o \in rhc, op \in {"to_sample", "size"} : Take(t, o, op)
      BY <2>2
    <3>2. thread'[t].pc = "lock" /\ thread'[t].o = o /\ obj[o].kind = "DATA" /\ UNCHANGED obj
      BY <1>2, <3>1 DEF Take, Call
    <3> QED
      BY <3>2
  <2>3. CASE Size(t) \/ Copy(t)
    <3>1. thread[t].pc = "use" /\ thread[t] \in CallType
      BY <2>3, InUse DEF Size, Copy, At
    <3>2. thread'[t].pc \in {"lock", "took"} /\ thread'[t].o = thread[t].o /\ UNCHANGED obj
      BY <1>2, <2>3, <3>1 DEF Size, Copy, CallType
    <3> QED
      BY <3>1, <3>2 DEF ViewInv, HasData, Of1
  <2> QED
    BY <2>1, <2>2, <2>3
<1> QED
  BY <1>1, <1>5, <1>6, <1>7, ViewKept

\* rmw_take_loan_int
LEMMA TakeLoanViews ==
  ASSUME RefInv, RefInv', ViewInv, NEW o \in rhc, NEW l \in Loans, TakeLoan(o, l)
  PROVE  ViewInv'
<1>1. o \in Live /\ obj[o] \in ObjectType
  BY InUse
<1>2. obj' = ObjectUnref(o) /\ UNCHANGED <<serialize_lock, thread, whc>>
  BY DEF TakeLoan
<1>3. /\ obj'[o].refs # 0 => obj'[o] = [obj[o] EXCEPT !.refs = @ - 1]
      /\ \A p \in Objs \ {o} : obj'[p] = obj[p]
      /\ \A p \in Live' : p \in Live
  BY <1>1, <1>2, ObjectUnrefEffect
<1>4. ASSUME NEW p \in Live, obj[p].loan # None
      PROVE  loan'[obj[p].loan].state = loan[obj[p].loan].state
  <2>1. PICK k \in Loans : k = obj[p].loan /\ p \in HolderObjs(k) /\ loan[k] \in LoanType
    BY <1>4, InUse DEF HolderObjs
  <2>2. loan \in [Loans -> {NoLoan} \cup LoanType]
    BY DEF RefInv, TypeOK
  <2>3. CASE obj[o].loan # None
    <3> DEFINE n == IF obj[o].refs = 1 THEN loan[l].refs ELSE loan[l].refs + 1
    <3>1. loan' = [loan EXCEPT ![l].refs = n]
      BY <2>3 DEF TakeLoan
    <3> HIDE DEF n
    <3> QED
      BY <2>1, <2>2, <3>1 DEF LoanType
  <2>4. CASE obj[o].loan = None
    <3>1. l \in FreeLoans /\ k \notin FreeLoans
      BY <2>1, <2>4, NotInUse DEF TakeLoan
    <3>2. \A j \in Loans \ {l} : loan'[j] = loan[j]
      BY <2>2, <2>4 DEF TakeLoan
    <3> QED
      BY <2>1, <3>1, <3>2
  <2> QED
    BY <2>3, <2>4
<1>5. ASSUME NEW p \in Live' PROVE Kept(p)
  <2>1. p \in Live /\ obj[p] \in ObjectType /\ p \in Objs /\ obj'[p].refs # 0
    BY <1>3, InUse DEF Live
  <2>2. /\ obj'[p].data = obj[p].data /\ obj'[p].kind = obj[p].kind
        /\ obj'[p].loan = obj[p].loan /\ obj'[p].oom = obj[p].oom
    BY <1>3, <2>1 DEF ObjectType
  <2> QED
    BY <1>4, <2>1, <2>2 DEF Kept
<1> QED
  BY <1>2, <1>5, ViewKept
-----------------------------------------------------------------------------
(***************************************************************************)
(* The serialization on demand.  Under the lock a thread finds the data    *)
(* whole, or null: then it fills it, and whoever went on without the lock  *)
(* had been refused memory.                                                *)
(***************************************************************************)
\* t goes on to pc with the same object, of which x becomes
Step(t, pc, x) ==
  /\ \A u \in Threads \ {t} : thread'[u] = thread[u]
  /\ thread'[t].pc = pc /\ thread'[t].o = thread[t].o /\ thread[t].pc # "idle"
  /\ thread[t].o \in Live /\ obj'[thread[t].o] = x
  /\ x.kind = Of1(t).kind /\ x.loan = Of1(t).loan /\ x.refs = Of1(t).refs
  /\ Of1(t).oom => x.oom
  /\ x.data = Null => Of1(t).data = Null
  /\ Of1(t).data.st = "whole" => x.data = Of1(t).data
  /\ \A p \in Objs \ {thread[t].o} : obj'[p] = obj[p]
  /\ UNCHANGED <<loan, whc>>

\* the thread with the lock is alone with the unserialized objects
LEMMA Alone ==
  ASSUME ViewInv, NEW t \in Threads, thread[t].pc \in {"check", "resize", "fill"}
  PROVE  /\ serialize_lock = t
         /\ \A u \in Threads \ {t} : thread[u].pc \notin {"check", "resize", "fill"}
         /\ \A o \in Live : obj[o].data = Part => thread[t].pc = "fill" /\ thread[t].o = o
  BY DEF ViewInv, Locked, Filling

\* it keeps the objects there are
LEMMA LiveKept ==
  ASSUME NEW t \in Threads, NEW pc, NEW x, Step(t, pc, x)
  PROVE  Live' = Live
<1>1. \A p \in Objs : obj'[p].refs = obj[p].refs
  BY DEF Step, Of1
<1> QED
  BY <1>1 DEF Live

\* what every such step keeps
LEMMA StepHasData ==
  ASSUME RefInv, ViewInv, NEW t \in Threads, NEW pc, NEW x, Step(t, pc, x)
  PROVE  HasData'
<1>1. Live' = Live /\ whc' = whc /\ loan' = loan
  BY LiveKept DEF Step
<1>2. \A o \in Objs : obj'[o].kind = obj[o].kind /\ obj'[o].loan = obj[o].loan
  BY DEF Step, Of1
<1>3. \A o \in Objs : /\ obj'[o].data = Null => obj[o].data = Null
                      /\ obj[o].oom => obj'[o].oom
  BY DEF Step, Of1
<1>4. /\ \A o \in Live : o \in Objs
      /\ \A o \in whc : o \in Objs
      /\ \A u \in Threads : thread[u].pc # "idle" => thread[u].o \in Objs
  BY InUse DEF Live, At, Of
<1>5. \A u \in Threads : thread'[u].pc # "idle" => thread[u].pc # "idle" /\ thread'[u].o = thread[u].o
  BY DEF Step
<1> QED
  BY <1>1, <1>2, <1>3, <1>4, <1>5 DEF ViewInv, HasData, Of1

\* and when t goes on to use or to give out what it found or filled
LEMMA StepFilled ==
  ASSUME RefInv, ViewInv, NEW t \in Threads, NEW pc, NEW x, Step(t, pc, x),
         pc = "use" => x.data.st = "whole" \/ x.oom,
         pc = "sending" => IF thread'[t].got.st = "whole" THEN x.data = thread'[t].got ELSE x.oom
  PROVE  Filled'
<1>1. ASSUME NEW u \in Threads, u # t, thread[u].pc # "idle"
      PROVE  /\ thread'[u] = thread[u]
             /\ Of1(u).oom => Of1(u)'.oom
             /\ Of1(u).data.st = "whole" => Of1(u)'.data = Of1(u).data
  <2>1. thread'[u] = thread[u] /\ thread[u].o \in Objs
    BY <1>1, InUse DEF Step, Live, At, Of
  <2>2. CASE thread[u].o = thread[t].o
    BY <2>1, <2>2 DEF Step, Of1
  <2>3. CASE thread[u].o # thread[t].o
    BY <2>1, <2>3 DEF Step, Of1
  <2> QED
    BY <2>1, <2>2, <2>3
<1>2. ASSUME NEW u \in Threads, thread'[u].pc = "use"
      PROVE  Of1(u)'.data.st = "whole" \/ Of1(u)'.oom
  <2>1. CASE u = t
    BY <1>2, <2>1 DEF Step, Of1
  <2>2. CASE u # t
    <3>1. thread[u].pc = "use"
      BY <1>2, <2>2 DEF Step
    <3>2. Of1(u).data.st = "whole" \/ Of1(u).oom
      BY <3>1 DEF ViewInv, Filled
    <3> QED
      BY <1>1, <2>2, <3>1, <3>2
  <2> QED
    BY <2>1, <2>2
<1>3. ASSUME NEW u \in Threads, thread'[u].pc = "sending"
      PROVE  IF thread'[u].got.st = "whole" THEN Of1(u)'.data = thread'[u].got ELSE Of1(u)'.oom
  <2>1. CASE u = t
    BY <1>3, <2>1 DEF Step, Of1
  <2>2. CASE u # t
    <3>1. thread[u].pc = "sending" /\ thread'[u] = thread[u]
      BY <1>3, <2>2 DEF Step
    <3>2. IF thread[u].got.st = "whole" THEN Of1(u).data = thread[u].got ELSE Of1(u).oom
      BY <3>1 DEF ViewInv, Filled
    <3> QED
      BY <1>1, <2>2, <3>1, <3>2
  <2> QED
    BY <2>1, <2>2
<1> QED
  BY <1>2, <1>3 DEF Filled

\* a thread comes to one of the places under the lock
LEMMA StepFilling ==
  ASSUME RefInv, ViewInv, NEW t \in Threads, NEW pc, NEW x, Step(t, pc, x),
         \A u \in Threads \ {t} : thread[u].pc \notin {"check", "resize", "fill"},
         \A o \in Live : obj[o].data = Part => thread[t].o = o,
         pc = "resize" => x.data = Null,
         x.data = Part <=> pc = "fill"
  PROVE  Filling'
<1>1. Live' = Live /\ thread[t].o \in Objs
  BY LiveKept DEF Step, Live
<1>2. \A u \in Threads : thread'[u].pc \in {"resize", "fill"} => u = t
  BY DEF Step
<1>3. ASSUME NEW o \in Live, obj'[o].data = Part
      PROVE  o = thread[t].o /\ pc = "fill"
  <2>1. CASE o = thread[t].o
    BY <1>3, <2>1 DEF Step
  <2>2. CASE o # thread[t].o
    BY <1>3, <2>2 DEF Step, Live
  <2> QED
    BY <2>1, <2>2
<1>4. thread'[t].pc = pc /\ thread'[t].o = thread[t].o /\ obj'[thread[t].o] = x
  BY DEF Step
<1> QED
  BY <1>1, <1>2, <1>3, <1>4 DEF Filling, Of1

\* Steps that leave the objects alone.
LEMMA Quiet ==
  ASSUME RefInv, NEW t \in Threads, thread[t].pc # "idle", NEW pc,
         UNCHANGED <<obj, loan, whc>>,
         \/ Goto(t, pc)
         \/ \E got : thread' = [thread EXCEPT ![t].pc = pc, ![t].got = got]
  PROVE  Step(t, pc, Of1(t))
<1>1. thread[t] \in CallType /\ thread[t].o \in Live /\ thread \in [Threads -> {Idle} \cup CallType]
  BY InUse DEF At, Of, RefInv, TypeOK
<1>2. /\ thread'[t].pc = pc /\ thread'[t].o = thread[t].o
      /\ \A u \in Threads \ {t} : thread'[u] = thread[u]
  BY <1>1 DEF Goto, CallType
<1> QED
  BY <1>1, <1>2 DEF Step, Of1

\* serialize_lock is taken
LEMMA LockViews == ASSUME RefInv, ViewInv, NEW t \in Threads, Lock(t) PROVE ViewInv'
<1>1. Step(t, "check", Of1(t))
  BY Quiet DEF Lock, At
<1>2. \A u \in Threads : thread[u].pc \notin {"check", "resize", "fill"}
  BY NobodyAssumption DEF Lock, ViewInv, Locked
<1>3. \A o \in Live : obj[o].data # Part
  BY <1>2 DEF ViewInv, Filling
<1>4. Locked'
  BY <1>1, <1>2 DEF Locked, Step, Lock
<1>5. Of1(t).data # Part
  BY <1>1, <1>3 DEF Step, Of1
<1>6. Filling'
  BY <1>1, <1>2, <1>3, <1>5, StepFilling
<1>7. Filled' /\ HasData'
  BY <1>1, StepFilled, StepHasData
<1> QED
  BY <1>4, <1>6, <1>7 DEF ViewInv

\* under it, the test whether a loan's sample is still to be serialized
LEMMA CheckViews == ASSUME RefInv, ViewInv, NEW t \in Threads, Check(t) PROVE ViewInv'
<1>1. thread[t].pc = "check" /\ thread[t].o \in Live /\ Of1(t) \in ObjectType
  BY InUse DEF Check, At, Of, Of1
<1>2. /\ serialize_lock = t
      /\ \A u \in Threads \ {t} : thread[u].pc \notin {"check", "resize", "fill"}
      /\ \A o \in Live : obj[o].data # Part
  BY <1>1, Alone
<1>3. Of1(t).data # Part /\ Of1(t).kind = "DATA"
  BY <1>1, <1>2 DEF ViewInv, HasData, Of1
<1>4. CASE Goto(t, "resize") /\ UNCHANGED serialize_lock /\ Of1(t).data = Null
  <2>1. Step(t, "resize", Of1(t))
    BY <1>1, <1>4, Quiet DEF Check
  <2>2. Locked'
    BY <1>2, <1>4, <2>1 DEF Locked, Step
  <2>3. Filling'
    BY <1>2, <1>3, <1>4, <2>1, StepFilling
  <2>4. Filled' /\ HasData'
    BY <2>1, StepFilled, StepHasData
  <2> QED
    BY <2>2, <2>3, <2>4 DEF ViewInv
<1>5. CASE Goto(t, "use") /\ (Of1(t).data.st = "whole" \/ Of1(t).oom)
  <2>1. Step(t, "use", Of1(t))
    BY <1>1, <1>5, Quiet DEF Check
  <2>2. Locked'
    BY <1>2, <2>1 DEF Locked, Step
  <2>3. Filling'
    BY <1>2, <1>3, <2>1, StepFilling
  <2>4. Filled' /\ HasData'
    BY <1>5, <2>1, StepFilled, StepHasData
  <2> QED
    BY <2>2, <2>3, <2>4 DEF ViewInv
<1>6. CASE Of1(t).data # Null
  <2>1. Of1(t).data.st = "whole"
    BY <1>1, <1>3, <1>6 DEF ObjectType, Datas, Whole
  <2>2. Goto(t, "use")
    BY <1>6 DEF Check, Of, Of1
  <2> QED
    BY <1>5, <2>1, <2>2
<1>7. CASE Of1(t).data = Null /\ Of1(t).loan = None
  <2>1. Of1(t).oom
    BY <1>1, <1>7 DEF ViewInv, HasData, Of1
  <2>2. Goto(t, "use")
    BY <1>7 DEF Check, Of, Of1
  <2> QED
    BY <1>5, <2>1, <2>2
<1>8. CASE Of1(t).data = Null /\ Of1(t).loan # None
  <2>1. loan[Of1(t).loan].state \in {"RAW_DATA", "SERIALIZED_DATA"}
    BY <1>1, <1>3, <1>8 DEF ViewInv, HasData, Of1
  <2>2. Goto(t, "resize") /\ UNCHANGED serialize_lock
    BY <1>8, <2>1 DEF Check, Of, Of1
  <2> QED
    BY <1>4, <1>8, <2>2
<1> QED
  BY <1>6, <1>7, <1>8

\* the buffer, or no memory for it
LEMMA ResizeViews == ASSUME RefInv, ViewInv, NEW t \in Threads, Resize(t) PROVE ViewInv'
<1>1. /\ thread[t].pc = "resize" /\ thread[t].o \in Live /\ Of1(t) \in ObjectType /\ thread[t] \in CallType
      /\ thread \in [Threads -> {Idle} \cup CallType] /\ obj \in [Objs -> {NoObject} \cup ObjectType]
  BY InUse DEF Resize, At, Of, Of1, RefInv, TypeOK
<1>2. /\ serialize_lock = t
      /\ \A u \in Threads \ {t} : thread[u].pc \notin {"check", "resize", "fill"}
      /\ \A o \in Live : obj[o].data # Part
  BY <1>1, Alone
<1>3. Of1(t).data = Null
  BY <1>1 DEF ViewInv, Filling
<1>4. Null # Part /\ Null.st # "whole"
  BY DEF Null, Part
<1>5. CASE /\ obj' = [obj EXCEPT ![Of(t)].data = Part]
           /\ Goto(t, "fill") /\ UNCHANGED serialize_lock
  <2> DEFINE x == [Of1(t) EXCEPT !.data = Part]
  <2>1. Step(t, "fill", x) /\ x.data = Part
    <3>1. obj'[thread[t].o] = x /\ \A p \in Objs \ {thread[t].o} : obj'[p] = obj[p]
      BY <1>1, <1>5 DEF Of, Of1, Live
    <3>2. /\ thread'[t].pc = "fill" /\ thread'[t].o = thread[t].o
          /\ \A u \in Threads \ {t} : thread'[u] = thread[u]
      BY <1>1, <1>5 DEF Goto, CallType
    <3>3. /\ x.kind = Of1(t).kind /\ x.loan = Of1(t).loan /\ x.refs = Of1(t).refs
          /\ x.oom = Of1(t).oom /\ x.data = Part
      BY <1>1 DEF ObjectType
    <3> HIDE DEF x
    <3> QED
      BY <1>1, <1>3, <1>4, <3>1, <3>2, <3>3 DEF Step, Resize
  <2> HIDE DEF x
  <2>2. Locked'
    BY <1>2, <1>5, <2>1 DEF Locked, Step
  <2>3. Filling'
    BY <1>2, <1>4, <2>1, StepFilling
  <2>4. Filled' /\ HasData'
    BY <2>1, StepFilled, StepHasData
  <2> QED
    BY <2>2, <2>3, <2>4 DEF ViewInv
<1>6. CASE /\ obj' = [obj EXCEPT ![Of(t)].oom = TRUE]
           /\ Goto(t, "use")
  <2> DEFINE x == [Of1(t) EXCEPT !.oom = TRUE]
  <2>1. Step(t, "use", x) /\ x.data = Null /\ x.oom
    <3>1. obj'[thread[t].o] = x /\ \A p \in Objs \ {thread[t].o} : obj'[p] = obj[p]
      BY <1>1, <1>6 DEF Of, Of1, Live
    <3>2. /\ thread'[t].pc = "use" /\ thread'[t].o = thread[t].o
          /\ \A u \in Threads \ {t} : thread'[u] = thread[u]
      BY <1>1, <1>6 DEF Goto, CallType
    <3>3. /\ x.kind = Of1(t).kind /\ x.loan = Of1(t).loan /\ x.refs = Of1(t).refs
          /\ x.oom /\ x.data = Of1(t).data
      BY <1>1 DEF ObjectType
    <3> HIDE DEF x
    <3> QED
      BY <1>1, <1>3, <1>4, <3>1, <3>2, <3>3 DEF Step, Resize
  <2> HIDE DEF x
  <2>2. Locked'
    BY <1>2, <2>1 DEF Locked, Step
  <2>3. Filling'
    BY <1>2, <1>4, <2>1, StepFilling
  <2>4. Filled' /\ HasData'
    BY <2>1, StepFilled, StepHasData
  <2> QED
    BY <2>2, <2>3, <2>4 DEF ViewInv
<1> QED
  BY <1>5, <1>6 DEF Resize

\* the sample is serialized into the buffer
LEMMA FillViews == ASSUME RefInv, ViewInv, NEW t \in Threads, Fill(t) PROVE ViewInv'
<1>1. /\ thread[t].pc = "fill" /\ thread[t].o \in Live /\ Of1(t) \in ObjectType /\ thread[t] \in CallType
      /\ thread \in [Threads -> {Idle} \cup CallType] /\ obj \in [Objs -> {NoObject} \cup ObjectType]
  BY InUse DEF Fill, At, Of, Of1, RefInv, TypeOK
<1>2. /\ serialize_lock = t
      /\ \A u \in Threads \ {t} : thread[u].pc \notin {"check", "resize", "fill"}
      /\ \A o \in Live : obj[o].data = Part => thread[t].o = o
  BY <1>1, Alone
<1>3. Of1(t).data = Part
  BY <1>1 DEF ViewInv, Filling
<1> DEFINE c == Content(loan[obj[Of(t)].loan].s, Own, obj[Of(t)].kind = "KEY")
           d == Whole(c)
           x == [Of1(t) EXCEPT !.data = d]
<1>4. d.st = "whole" /\ d # Part /\ d # Null /\ Part.st # "whole"
  BY DEF Whole, Part, Null
<1>5. Step(t, "use", x) /\ x.data = d
  <2>1. obj' = [obj EXCEPT ![Of(t)].data = d] /\ Goto(t, "use") /\ UNCHANGED <<loan, whc>>
    BY DEF Fill
  <2> HIDE DEF d
  <2>2. obj'[thread[t].o] = x /\ \A p \in Objs \ {thread[t].o} : obj'[p] = obj[p]
    BY <1>1, <2>1 DEF Of, Of1, Live
  <2>3. /\ thread'[t].pc = "use" /\ thread'[t].o = thread[t].o
        /\ \A u \in Threads \ {t} : thread'[u] = thread[u]
    BY <1>1, <2>1 DEF Goto, CallType
  <2>4. /\ x.kind = Of1(t).kind /\ x.loan = Of1(t).loan /\ x.refs = Of1(t).refs
        /\ x.oom = Of1(t).oom /\ x.data = d
    BY <1>1 DEF ObjectType
  <2> HIDE DEF x
  <2> QED
    BY <1>1, <1>3, <1>4, <2>1, <2>2, <2>3, <2>4 DEF Step
<1> HIDE DEF c, d, x
<1>6. Locked'
  BY <1>2, <1>5 DEF Locked, Step
<1>7. Filling'
  BY <1>2, <1>4, <1>5, StepFilling
<1>8. Filled' /\ HasData'
  BY <1>4, <1>5, StepFilled, StepHasData
<1> QED
  BY <1>6, <1>7, <1>8 DEF ViewInv

\* to_ser_ref gives the data out
LEMMA ToSerRefViews == ASSUME RefInv, ViewInv, NEW t \in Threads, ToSerRef(t) PROVE ViewInv'
<1>1. thread[t].pc = "use" /\ thread[t] \in CallType /\ thread \in [Threads -> {Idle} \cup CallType]
  BY InUse DEF ToSerRef, At, RefInv, TypeOK
<1>2. Step(t, "sending", Of1(t))
  BY <1>1, Quiet DEF ToSerRef, Of, Of1
<1>3. thread'[t].got = Of1(t).data
  BY <1>1 DEF ToSerRef, Of, Of1, CallType
<1>4. Of1(t).data.st = "whole" \/ Of1(t).oom
  BY <1>1 DEF ViewInv, Filled
<1>5. Filled'
  BY <1>2, <1>3, <1>4, StepFilled
<1>6. HasData'
  BY <1>2, StepHasData
<1>7. Locked'
  BY <1>2 DEF ToSerRef, ViewInv, Locked, Step
<1>8. Filling'
  BY <1>1, <1>2, LiveKept DEF ToSerRef, ViewInv, Filling, Step, Of1
<1> QED
  BY <1>5, <1>6, <1>7, <1>8 DEF ViewInv

-----------------------------------------------------------------------------
\* at the start nobody serializes
LEMMA ViewEmpty == Empty => ViewInv
  BY DEF Empty, ViewInv, Locked, Filling, Filled, HasData, Live, NoObject, Idle

LEMMA ViewInit == Init => ViewInv
  BY EmptyInit, ViewEmpty

\* every step, with what is proved about references
LEMMA ViewNext == RefInv /\ RefInv' /\ ViewInv /\ [Next]_vars => ViewInv'
<1> SUFFICES ASSUME RefInv, RefInv', ViewInv, [Next]_vars PROVE ViewInv'
  OBVIOUS
<1>0. CASE UNCHANGED <<obj, loan, serialize_lock, thread, whc>>
  BY <1>0 DEF ViewInv, Locked, Filling, Filled, HasData, Of1, Live
<1>1. SamplesOf \subseteq Samples
  BY CodecAssumption DEF RefInv, TypeOK, SamplesOf, C
<1>2. CASE \E s \in SamplesOf : Arriving(s)
  <2>1. PICK s \in Samples : Arriving(s)
    BY <1>1, <1>2
  <2>2. CASE \E o \in FreeObjs : Publish(o, s)
    BY <2>2, PublishViews
  <2>3. CASE \E o \in FreeObjs, enc \in Encodings \cup {Own} : PublishSerialized(o, s, enc)
    BY <2>3, PublishViews
  <2>4. CASE \E o \in FreeObjs, enc \in Encodings \cup {Own}, key \in BOOLEAN : FromSer(o, s, enc, key)
    BY <2>4, PublishViews
  <2>5. CASE \E l \in Loans : Borrow(l, s) \/ \E state \in States : FromElsewhere(l, s, state)
    BY <2>5, LoanViews
  <2> QED
    BY <2>1, <2>2, <2>3, <2>4, <2>5 DEF Arriving
<1>3. CASE Passing
  <2>1. CASE \E h \in held : ReturnLoan(h) \/ TakeBack(h)
    BY <2>1, LoanViews DEF ReturnLoan, TakeBack
  <2>2. CASE \E h \in held : LeaveLoan(h)
    BY <1>0, <2>2 DEF LeaveLoan
  <2>3. CASE \E o \in FreeObjs, h \in held, cdr \in BOOLEAN : PublishLoaned(o, h, cdr)
    BY <2>3, PublishLoanedViews
  <2>4. CASE \E o \in FreeObjs, l \in psmx : FromPsmx(o, l)
    BY <2>4, FromPsmxViews
  <2> QED
    BY <1>3, <2>1, <2>2, <2>3, <2>4 DEF Passing
<1>4. CASE \E t \in Threads : MayWork(t) /\ Using(t)
  <2>1. PICK t \in Threads : Using(t)
    BY <1>4
  <2>2. CASE \/ \E o \in whc : Send(t, o)
             \/ \E o \in rhc, op \in {"to_sample", "size"} : Take(t, o, op)
             \/ Size(t) \/ Copy(t)
    BY <2>2, CallViews
  <2>3. CASE OnDemand(t)
    BY <2>3, LockViews, CheckViews, ResizeViews, FillViews DEF OnDemand
  <2>4. CASE ToSerRef(t)
    BY <2>4, ToSerRefViews
  <2>5. CASE NoRoom(t) \/ Finish(t)
    BY <2>5, DropViews
  <2> QED
    BY <2>1, <2>2, <2>3, <2>4, <2>5 DEF Using
<1>5. CASE \E o \in Objs : Ack(o)
  BY <1>5, DropViews
<1>6. CASE \E o \in rhc : SkipInvalid(o)
  BY <1>6, DropViews
<1>7. CASE \E o \in rhc, l \in Loans : TakeLoan(o, l)
  BY <1>7, TakeLoanViews
<1>8. CASE PublishSerializedFails
  <2>1. Empty' => ViewInv'
    BY ViewEmpty, PTL
  <2> QED
    BY <1>8, <2>1, EmptyAfter
<1>9. CASE UNCHANGED vars
  BY <1>0, <1>9 DEF vars
<1> QED
  BY <1>2, <1>3, <1>4, <1>5, <1>6, <1>7, <1>8, <1>9 DEF Next

\* The data given out by to_ser_ref stays as it is until to_ser_unref, whoever
\* else serializes the object on demand: serialize_lock covers the test of
\* data() and all that follows from it (serdata.cpp, from line 166).
THEOREM ViewsAlwaysStable == Spec => []ViewsStable
<1>1. RefInv /\ ViewInv => ViewsStable
  <2> SUFFICES ASSUME RefInv, ViewInv, NEW t \in Threads, thread[t].pc = "sending"
               PROVE  /\ Of1(t).refs > 0
                      /\ IF thread[t].got.st = "whole" THEN Of1(t).data = thread[t].got ELSE Of1(t).oom
    BY DEF ViewsStable, At, Of, Of1
  <2>1. Of1(t).refs > 0
    BY InUse DEF At, Of, Of1, Live
  <2> QED
    BY <2>1 DEF ViewInv, Filled
<1> QED
  BY <1>1, RefInit, RefNext, ViewInit, ViewNext, PTL DEF Spec


-----------------------------------------------------------------------------
(***************************************************************************)
(* What is taken.  The data of an object and the loan it is in are of the  *)
(* sample that the object stands for, and the loan of the application is   *)
(* of the sample it was borrowed or taken for: nobody replaces either, and *)
(* what is serialized on demand into the data is what is in the loan.      *)
(***************************************************************************)
DataOf(x) == x.data.st = "whole" => x.data.c.s = x.s /\ (x.data.c.key <=> x.kind = "KEY")
RawOf(l, s) == loan[l].s = s /\ loan[l].state \in {"RAW_DATA", "RAW_KEY"}
ObjectsHold ==
  \A o \in Live : /\ obj[o].s \in SamplesOf /\ DataOf(obj[o])
                  /\ obj[o].loan # None => RawOf(obj[o].loan, obj[o].s)
LoansHold == \A l \in Loans : loan[l].refs # 0 => loan[l].s \in SamplesOf
HeldHold ==
  \A h \in held : loan[h.l].s = h.s /\ (h.by = "subscription" => loan[h.l].state = "RAW_DATA")

\* A take has the data, whole, of a sample; the copy of no bytes, when the size
\* was asked of an object without data, or of a buffer never filled, is only of
\* an object for which memory was refused.
TakesWhole(call, x) ==
  /\ call.op = "to_ser" /\ call.got = Null => x.oom
  /\ call.pc = "took" =>
       IF call.got.st = "whole" THEN call.got.c.s = x.s /\ ~call.got.c.key ELSE x.oom
TakesHold == \A t \in Threads : thread[t].pc # "idle" => TakesWhole(thread[t], Of1(t))

ContentInv == ObjectsHold /\ LoansHold /\ HeldHold /\ TakesHold

\* A step's part on a loan that stays, on an object that was there, and on a new one.
Stays(l) == loan'[l].s = loan[l].s /\ loan'[l].state = loan[l].state
Follows(p) ==
  /\ p \in Live /\ obj'[p].s = obj[p].s /\ obj'[p].kind = obj[p].kind /\ obj'[p].loan = obj[p].loan
  /\ obj[p].oom => obj'[p].oom
  /\ obj'[p].data = obj[p].data \/ DataOf(obj'[p])
  /\ obj[p].loan # None => Stays(obj[p].loan)
Begins(p) ==
  /\ p \notin Live /\ obj'[p].s \in SamplesOf /\ DataOf(obj'[p])
  /\ obj'[p].loan # None => /\ loan'[obj'[p].loan].s = obj'[p].s
                            /\ loan'[obj'[p].loan].state \in {"RAW_DATA", "RAW_KEY"}
\* and on what the application holds
Holding(h) ==
  \/ h \in held /\ Stays(h.l)
  \/ loan'[h.l].s = h.s /\ (h.by = "subscription" => loan'[h.l].state = "RAW_DATA")

\* a step of these parts keeps ContentInv
LEMMA ContentKept ==
  ASSUME RefInv, RefInv', ContentInv, UNCHANGED topic,
         \A p \in Live' : Follows(p) \/ Begins(p),
         \A l \in Loans : loan'[l].refs # 0 =>
           (loan[l].refs # 0 /\ loan'[l].s = loan[l].s) \/ loan'[l].s \in SamplesOf,
         \A h \in held' : Holding(h),
         \A u \in Threads :
           \/ thread'[u] = thread[u] \/ thread'[u].pc = "idle"
           \/ TakesWhole(thread'[u], obj'[thread'[u].o])
  PROVE  ContentInv'
<1>1. SamplesOf' = SamplesOf
  BY DEF SamplesOf, C
<1>2. ObjectsHold'
  <2> SUFFICES ASSUME NEW o \in Live'
               PROVE  /\ obj'[o].s \in SamplesOf /\ DataOf(obj'[o])
                      /\ obj'[o].loan # None => /\ loan'[obj'[o].loan].s = obj'[o].s
                                                /\ loan'[obj'[o].loan].state \in {"RAW_DATA", "RAW_KEY"}
    BY <1>1 DEF ObjectsHold, RawOf
  <2>1. CASE Follows(o)
    <3>1. /\ obj[o].s \in SamplesOf /\ DataOf(obj[o])
          /\ obj[o].loan # None => RawOf(obj[o].loan, obj[o].s)
      BY <2>1 DEF Follows, ContentInv, ObjectsHold
    <3>2. DataOf(obj'[o])
      BY <2>1, <3>1 DEF Follows, DataOf
    <3> QED
      BY <2>1, <3>1, <3>2 DEF Follows, Stays, RawOf
  <2>2. CASE Begins(o)
    BY <2>2 DEF Begins
  <2> QED
    BY <2>1, <2>2
<1>3. LoansHold'
  BY <1>1 DEF ContentInv, LoansHold
<1>4. HeldHold'
  BY DEF ContentInv, HeldHold, Holding, Stays
<1>5. TakesHold'
  <2> SUFFICES ASSUME NEW u \in Threads, thread'[u].pc # "idle"
               PROVE  TakesWhole(thread'[u], obj'[thread'[u].o])
    BY DEF TakesHold, Of1
  <2>1. CASE thread'[u] = thread[u]
    <3>1. thread[u].o \in Live /\ thread[u].o \in Live'
      BY <2>1, InUse, InUseAfter DEF At, Of, InUseExists
    <3>2. TakesWhole(thread[u], obj[thread[u].o])
      BY <2>1 DEF ContentInv, TakesHold, Of1
    <3>3. /\ obj'[thread[u].o].s = obj[thread[u].o].s
          /\ obj[thread[u].o].oom => obj'[thread[u].o].oom
      BY <3>1 DEF Follows, Begins
    <3> QED
      BY <2>1, <3>2, <3>3 DEF TakesWhole
  <2> QED
    BY <2>1
<1> QED
  BY <1>2, <1>3, <1>4, <1>5 DEF ContentInv

\* a new object
LEMMA NewContent ==
  ASSUME RefInv, RefInv', ContentInv, NEW o \in FreeObjs, NEW x,
         obj' = [obj EXCEPT ![o] = x], x.s \in SamplesOf, DataOf(x),
         x.loan # None => /\ loan'[x.loan].s = x.s
                          /\ loan'[x.loan].state \in {"RAW_DATA", "RAW_KEY"},
         \A p \in Live : obj[p].loan # None => Stays(obj[p].loan),
         \A l \in Loans : loan'[l].refs # 0 => loan'[l].s \in SamplesOf,
         \A h \in held' : Holding(h),
         UNCHANGED <<topic, thread>>
  PROVE  ContentInv'
<1>1. o \in Objs /\ o \notin Live /\ obj \in [Objs -> {NoObject} \cup ObjectType]
  BY NotInUse DEF FreeObjs, RefInv, TypeOK
<1>2. obj'[o] = x /\ \A p \in Objs \ {o} : obj'[p] = obj[p]
  BY <1>1
<1>3. ASSUME NEW p \in Live' PROVE Follows(p) \/ Begins(p)
  <2>1. p \in Objs /\ (p # o => p \in Live)
    BY <1>2 DEF Live
  <2>2. CASE p = o
    BY <1>1, <1>2, <2>2 DEF Begins
  <2>3. CASE p # o
    BY <1>2, <2>1, <2>3 DEF Follows
  <2> QED
    BY <2>2, <2>3
<1> QED
  BY <1>3, ContentKept

\* what the application holds stays with its loan
LEMMA HoldingStays ==
  ASSUME RefInv, ContentInv, UNCHANGED <<loan, held>>
  PROVE  /\ \A h \in held' : Holding(h)
         /\ \A l \in Loans : Stays(l) /\ (loan'[l].refs # 0 => loan'[l].s \in SamplesOf)
  BY DEF Holding, Stays, ContentInv, LoansHold

\* rmw_publish, rmw_publish_serialized_message, serdata_rmw_from_ser
LEMMA PublishContent ==
  ASSUME RefInv, RefInv', ContentInv, NEW o \in FreeObjs, NEW s \in SamplesOf,
         \/ Publish(o, s) \/ \E enc \in Encodings \cup {Own} : PublishSerialized(o, s, enc)
         \/ \E enc \in Encodings \cup {Own}, key \in BOOLEAN : FromSer(o, s, enc, key)
  PROVE  ContentInv'
<1>1. ASSUME NEW refs, NEW kind, NEW from, NEW data,
             obj' = [obj EXCEPT ![o] = Object(refs, kind, s, from, data, None)],
             data.st = "whole" => data.c.s = s /\ (data.c.key <=> kind = "KEY"),
             UNCHANGED <<topic, loan, thread, held>>
      PROVE  ContentInv'
  <2> DEFINE x == Object(refs, kind, s, from, data, None)
  <2>1. x.s = s /\ x.loan = None /\ DataOf(x)
    BY <1>1 DEF Object, DataOf
  <2>2. obj' = [obj EXCEPT ![o] = x]
    BY <1>1
  <2>3. \A p \in Live : obj[p].loan # None => Stays(obj[p].loan)
    BY <1>1 DEF Stays
  <2> HIDE DEF x
  <2> QED
    BY <1>1, <2>1, <2>2, <2>3, NewContent, HoldingStays
<1>2. CASE Publish(o, s)
  <2>1. PICK data \in {Whole(Content(s, Own, FALSE)), Null} :
          obj' = [obj EXCEPT ![o] = Object(2, "DATA", s, "sample", data, None)]
    BY <1>2 DEF Publish, Written
  <2>2. data.st = "whole" => data.c.s = s /\ (data.c.key <=> "DATA" = "KEY")
    BY DEF Whole, Content, Null
  <2>3. UNCHANGED <<topic, loan, thread, held>>
    BY <1>2 DEF Publish
  <2> QED
    BY <1>1, <2>1, <2>2, <2>3
<1>3. CASE \E enc \in Encodings \cup {Own} : PublishSerialized(o, s, enc)
  <2>1. PICK enc \in Encodings \cup {Own} : PublishSerialized(o, s, enc)
    BY <1>3
  <2>2. PICK data : data = Whole(Content(s, enc, FALSE))
    OBVIOUS
  <2>3. data.st = "whole" => data.c.s = s /\ (data.c.key <=> "DATA" = "KEY")
    BY <2>2 DEF Whole, Content
  <2>4. /\ obj' = [obj EXCEPT ![o] = Object(2, "DATA", s, "ser", data, None)]
        /\ UNCHANGED <<topic, loan, thread, held>>
    BY <2>1, <2>2 DEF PublishSerialized, Written
  <2> QED
    BY <1>1, <2>3, <2>4
<1>4. CASE \E enc \in Encodings \cup {Own}, key \in BOOLEAN : FromSer(o, s, enc, key)
  <2>1. PICK enc \in Encodings \cup {Own}, key \in BOOLEAN : FromSer(o, s, enc, key)
    BY <1>4
  <2>2. PICK data : data = Whole(Content(s, enc, key))
    OBVIOUS
  <2>3. PICK kind : kind = IF key THEN "KEY" ELSE "DATA"
    OBVIOUS
  <2>4. data.st = "whole" => data.c.s = s /\ (data.c.key <=> kind = "KEY")
    BY <2>2, <2>3 DEF Whole, Content
  <2>5. /\ obj' = [obj EXCEPT ![o] = Object(1, kind, s, "ser", data, None)]
        /\ UNCHANGED <<topic, loan, thread, held>>
    BY <2>1, <2>2, <2>3 DEF FromSer, Received
  <2> QED
    BY <1>1, <2>4, <2>5
<1> QED
  BY <1>2, <1>3, <1>4

\* loans in use stay, others may be new, until they are freed
LEMMA UsedStay ==
  ASSUME RefInv, RefInv', ContentInv,
         \A l \in Loans : loan'[l].refs # 0 =>
           (loan[l].refs # 0 /\ Stays(l)) \/ (l \in FreeLoans /\ loan'[l].s \in SamplesOf),
         \A h \in held' : h \in held \/ Holding(h)
  PROVE  /\ \A p \in Live : p \in Live' /\ obj'[p].loan = obj[p].loan /\ obj[p].loan # None =>
              Stays(obj[p].loan)
         /\ \A l \in Loans : loan'[l].refs # 0 => loan'[l].s \in SamplesOf
         /\ \A h \in held' : Holding(h)
<1>1. ASSUME NEW p \in Live, p \in Live', obj'[p].loan = obj[p].loan, obj[p].loan # None
      PROVE  Stays(obj[p].loan)
  <2>1. PICK k \in Loans : k = obj[p].loan /\ p \in HolderObjs(k)
    BY <1>1, InUse DEF HolderObjs
  <2>2. k \notin FreeLoans
    BY <2>1, NotInUse
  <2>3. loan'[k].refs # 0
    BY <1>1, <2>1, InUseAfter DEF InUseExists
  <2> QED
    BY <2>1, <2>2, <2>3
<1>2. ASSUME NEW l \in Loans, loan'[l].refs # 0 PROVE loan'[l].s \in SamplesOf
  BY <1>2 DEF ContentInv, LoansHold, Stays
<1>3. ASSUME NEW h \in held' PROVE Holding(h)
  <2>1. CASE h \in held
    <3>1. PICK k \in Loans : k = h.l /\ loan'[k].refs # 0
      BY <1>3, InUseAfter DEF InUseExists
    <3>2. h \in Holds(k)
      BY <2>1, <3>1 DEF Holds
    <3>3. k \notin FreeLoans
      BY <3>2, NotInUse
    <3> QED
      BY <2>1, <3>1, <3>3 DEF Holding
  <2> QED
    BY <2>1
<1> QED
  BY <1>1, <1>2, <1>3

\* a step on loans alone
LEMMA LoanContent ==
  ASSUME RefInv, RefInv', ContentInv, UNCHANGED topic,
         \/ \E l \in Loans, s \in SamplesOf : Borrow(l, s)
         \/ \E l \in Loans, s \in SamplesOf, state \in States : FromElsewhere(l, s, state)
         \/ \E h \in held : GiveBack(h)
  PROVE  ContentInv'
<1>1. UNCHANGED <<obj, thread>>
  BY DEF Borrow, FromElsewhere, GiveBack
<1>2. loan \in [Loans -> {NoLoan} \cup LoanType] /\ \A l \in Loans : l \in FreeLoans <=> loan[l].refs = 0
  BY DEF RefInv, TypeOK, FreeLoans
<1>3. /\ \A l \in Loans : loan'[l].refs # 0 =>
           (loan[l].refs # 0 /\ Stays(l)) \/ (l \in FreeLoans /\ loan'[l].s \in SamplesOf)
      /\ \A h \in held' : h \in held \/ Holding(h)
  <2>1. CASE \E l \in Loans, s \in SamplesOf : Borrow(l, s)
    <3>1. PICK l \in Loans, s \in SamplesOf : Borrow(l, s)
      BY <2>1
    <3>2. loan'[l].s = s /\ \A k \in Loans \ {l} : loan'[k] = loan[k]
      BY <1>2, <3>1 DEF Borrow, Loan
    <3>3. l \in FreeLoans
      BY <3>1 DEF Borrow
    <3>4. \A h \in held' : h \in held \/ Holding(h)
      BY <3>1, <3>2 DEF Borrow, Hold, Holding
    <3> QED
      BY <1>2, <3>2, <3>3, <3>4 DEF Stays
  <2>2. CASE \E l \in Loans, s \in SamplesOf, state \in States : FromElsewhere(l, s, state)
    <3>1. PICK l \in Loans, s \in SamplesOf, state \in States : FromElsewhere(l, s, state)
      BY <2>2
    <3>2. loan'[l].s = s /\ \A k \in Loans \ {l} : loan'[k] = loan[k]
      BY <1>2, <3>1 DEF FromElsewhere, Loan
    <3>3. l \in FreeLoans /\ held' = held
      BY <3>1 DEF FromElsewhere
    <3> QED
      BY <1>2, <3>2, <3>3 DEF Stays
  <2>3. CASE \E h \in held : GiveBack(h)
    <3>1. PICK h \in held : GiveBack(h)
      BY <2>3
    <3>2. PICK l \in Loans : l = h.l /\ loan[l] \in LoanType /\ loan[l].refs # 0
      BY InUse DEF HoldType, LoanType
    <3>3. loan' = LoanUnref(l) /\ held' \subseteq held
      BY <3>1, <3>2 DEF GiveBack
    <3>4. /\ loan'[l].refs # 0 => loan'[l].state = loan[l].state /\ loan'[l].s = loan[l].s
          /\ \A k \in Loans \ {l} : loan'[k] = loan[k]
      BY <3>2, <3>3, LoanUnrefEffect DEF RefInv
    <3> QED
      BY <1>2, <3>2, <3>3, <3>4 DEF Stays
  <2> QED
    BY <2>1, <2>2, <2>3
<1>4. \A p \in Live' : Follows(p)
  BY <1>1, <1>3, UsedStay DEF Follows, Live
<1>5. /\ \A l \in Loans : loan'[l].refs # 0 => loan'[l].s \in SamplesOf
      /\ \A h \in held' : Holding(h)
  BY <1>3, UsedStay
<1> QED
  BY <1>1, <1>4, <1>5, ContentKept

\* the loan stays where it is
LEMMA LeaveLoanContent ==
  ASSUME RefInv, RefInv', ContentInv, NEW h \in held, LeaveLoan(h)
  PROVE  ContentInv'
<1>1. UNCHANGED <<topic, obj, loan, thread>>
  BY DEF LeaveLoan
<1>2. \A p \in Live' : Follows(p)
  BY <1>1 DEF Follows, Stays, Live
<1>3. \A l \in Loans : loan'[l].refs # 0 => loan[l].refs # 0 /\ loan'[l].s = loan[l].s
  BY <1>1
<1>4. \A g \in held' : Holding(g)
  <2> SUFFICES ASSUME NEW g \in held', g \notin held PROVE Holding(g)
    BY <1>1 DEF Holding, Stays
  <2>1. g.l = h.l /\ g.s = h.s /\ g.by = "left"
    BY DEF LeaveLoan, Hold
  <2> QED
    BY <1>1, <2>1 DEF Holding, ContentInv, HeldHold
<1> QED
  BY <1>1, <1>2, <1>3, <1>4, ContentKept

\* rmw_publish_loaned_message: nobody else has the loan of a publisher
LEMMA PublishLoanedContent ==
  ASSUME RefInv, RefInv', ContentInv, NEW o \in FreeObjs, NEW h \in held, NEW cdr \in BOOLEAN,
         PublishLoaned(o, h, cdr)
  PROVE  ContentInv'
<1>1. PICK l \in Loans, s \in SamplesOf :
        h.l = l /\ h.s = s /\ h.by = "publisher" /\ loan[l].refs # 0 /\ loan[l].s = s /\ l # None
  <2>1. h.l \in Loans /\ loan[h.l].refs # 0 /\ h.by = "publisher" /\ h.l # None
    BY InUse, NoneAssumption DEF HoldType, LoanType, PublishLoaned
  <2>2. loan[h.l].s = h.s /\ loan[h.l].s \in SamplesOf
    BY <2>1 DEF ContentInv, HeldHold, LoansHold
  <2> QED
    BY <2>1, <2>2
<1>2. PICK data \in {Whole(Content(s, Own, FALSE)), Null} :
        obj' = [obj EXCEPT ![o] = Object(1, "DATA", s, "sample", data, l)]
  BY <1>1 DEF PublishLoaned
<1>3. data.st = "whole" => data.c.s = s /\ (data.c.key <=> "DATA" = "KEY")
  BY DEF Whole, Content, Null
<1>4. /\ loan' = [loan EXCEPT ![l] = [refs |-> 2, state |-> "RAW_DATA", s |-> s]]
      /\ held' = held \ {h} /\ UNCHANGED <<topic, thread>>
  BY <1>1 DEF PublishLoaned
<1>5. loan'[l].s = s /\ loan'[l].state = "RAW_DATA" /\ \A k \in Loans \ {l} : loan'[k] = loan[k]
  BY <1>4 DEF RefInv, TypeOK
<1>6. \A p \in Live : obj[p].loan # None => Stays(obj[p].loan)
  <2> SUFFICES ASSUME NEW p \in Live, obj[p].loan # None PROVE Stays(obj[p].loan)
    OBVIOUS
  <2>1. obj[p].loan # l /\ obj[p].loan \in Loans
    BY <1>1, InUse DEF RefInv, OneKeeper
  <2> QED
    BY <1>5, <2>1 DEF Stays
<1>7. \A g \in held' : Holding(g)
  <2> SUFFICES ASSUME NEW g \in held' PROVE Holding(g)
    OBVIOUS
  <2>1. g \in held /\ g.l # l /\ g.l \in Loans
    BY <1>1, <1>4, InUse DEF RefInv, OneKeeper, HoldType
  <2> QED
    BY <1>5, <2>1 DEF Holding, Stays
<1>8. \A k \in Loans : loan'[k].refs # 0 => loan'[k].s \in SamplesOf
  BY <1>1, <1>5 DEF ContentInv, LoansHold
<1> DEFINE x == Object(1, "DATA", s, "sample", data, l)
<1>9. x.s = s /\ x.loan = l /\ DataOf(x)
  BY <1>3 DEF Object, DataOf
<1>10. obj' = [obj EXCEPT ![o] = x]
  BY <1>2
<1> HIDE DEF x
<1> QED
  BY <1>4, <1>5, <1>6, <1>7, <1>8, <1>9, <1>10, NewContent

\* serdata_rmw_from_psmx
LEMMA FromPsmxContent ==
  ASSUME RefInv, RefInv', ContentInv, NEW o \in FreeObjs, NEW l \in psmx, FromPsmx(o, l)
  PROVE  ContentInv'
<1>1. l \in Loans /\ l # None /\ loan[l] \in LoanType /\ loan[l].refs # 0
  BY InUse, NoneAssumption DEF RefInv, TypeOK, LoanType
<1>2. PICK s \in SamplesOf, state \in States : s = loan[l].s /\ state = loan[l].state
  BY <1>1 DEF ContentInv, LoansHold, LoanType
<1>3. UNCHANGED <<topic, thread, held>>
  BY DEF FromPsmx
<1>4. CASE state \in {"RAW_DATA", "RAW_KEY"}
  <2> DEFINE x == Object(1, Kind(state), s, "sample", Null, l)
  <2>1. x.loan = l /\ x.s = s /\ DataOf(x)
    BY DEF Object, DataOf, Null
  <2>2. obj' = [obj EXCEPT ![o] = x] /\ UNCHANGED loan
    BY <1>2, <1>4 DEF FromPsmx, Received
  <2> HIDE DEF x
  <2>3. \A p \in Live : obj[p].loan # None => Stays(obj[p].loan)
    BY <2>2 DEF Stays
  <2>4. loan'[x.loan].s = x.s /\ loan'[x.loan].state \in {"RAW_DATA", "RAW_KEY"}
    BY <1>2, <1>4, <2>1, <2>2
  <2> QED
    BY <1>3, <2>1, <2>2, <2>3, <2>4, HoldingStays, NewContent
<1>5. CASE state \notin {"RAW_DATA", "RAW_KEY"}
  <2>1. PICK data : data = Whole(Content(s, Own, Kind(state) = "KEY"))
    OBVIOUS
  <2>2. data.st = "whole" /\ data.c.s = s /\ (data.c.key <=> Kind(state) = "KEY")
    BY <2>1 DEF Whole, Content
  <2>3. /\ obj' = [obj EXCEPT ![o] = Object(1, Kind(state), s, "ser", data, None)]
        /\ loan' = LoanUnref(l)
    BY <1>2, <1>5, <2>1 DEF FromPsmx, Received
  <2> DEFINE x == Object(1, Kind(state), s, "ser", data, None)
  <2>4. x.loan = None /\ x.s = s /\ DataOf(x)
    BY <2>2 DEF Object, DataOf
  <2>5. obj' = [obj EXCEPT ![o] = x]
    BY <2>3
  <2> HIDE DEF x
  <2>6. /\ loan'[l].refs # 0 => loan'[l].state = loan[l].state /\ loan'[l].s = loan[l].s
        /\ \A k \in Loans \ {l} : loan'[k] = loan[k]
    BY <1>1, <2>3, LoanUnrefEffect DEF RefInv
  <2>7. \A k \in Loans : loan'[k].refs # 0 => loan[k].refs # 0 /\ Stays(k)
    BY <1>1, <2>6 DEF Stays
  <2>8. \A p \in Live : p \in Live' /\ obj'[p].loan = obj[p].loan
    BY <2>5 DEF Live, FreeObjs
  <2>9. /\ \A p \in Live : obj[p].loan # None => Stays(obj[p].loan)
        /\ \A k \in Loans : loan'[k].refs # 0 => loan'[k].s \in SamplesOf
        /\ \A h \in held' : Holding(h)
    BY <1>3, <2>7, <2>8, UsedStay
  <2> QED
    BY <1>3, <2>4, <2>5, <2>9, NewContent
<1> QED
  BY <1>4, <1>5

\* a cache or a call drops its reference to an object
LEMMA UnrefContent ==
  ASSUME RefInv, RefInv', ContentInv, NEW o \in Live, Unref(o), UNCHANGED <<topic, held>>,
         \A u \in Threads : thread'[u] = thread[u] \/ thread'[u].pc = "idle"
  PROVE  ContentInv'
<1>1. /\ obj'[o].refs # 0 => obj'[o] = [obj[o] EXCEPT !.refs = @ - 1]
      /\ \A p \in Objs \ {o} : obj'[p] = obj[p]
      /\ \A p \in Live' : p \in Live
  BY ObjectUnrefEffect DEF Unref
<1>2. \A l \in Loans : loan'[l].refs # 0 => Stays(l)
  BY UnrefEffect DEF Stays
<1>3. \A l \in Loans : loan'[l].refs # 0 => loan[l].refs # 0
  <2>1. CASE obj[o].refs = 1 /\ obj[o].loan # None
    <3>1. PICK k \in Loans : k = obj[o].loan /\ loan[k] \in LoanType /\ loan[k].refs # 0
      BY <2>1, InUse DEF LoanType
    <3>2. loan' = LoanUnref(k)
      BY <2>1, <3>1 DEF Unref
    <3>3. \A j \in Loans \ {k} : loan'[j] = loan[j]
      BY <3>1, <3>2, LoanUnrefEffect DEF RefInv
    <3> QED
      BY <3>1, <3>3
  <2>2. CASE ~(obj[o].refs = 1 /\ obj[o].loan # None)
    BY <2>2 DEF Unref
  <2> QED
    BY <2>1, <2>2
<1>4. /\ \A p \in Live : p \in Live' /\ obj'[p].loan = obj[p].loan /\ obj[p].loan # None =>
           Stays(obj[p].loan)
      /\ \A l \in Loans : loan'[l].refs # 0 => loan'[l].s \in SamplesOf
      /\ \A h \in held' : Holding(h)
  BY <1>2, <1>3, UsedStay
<1>5. ASSUME NEW p \in Live' PROVE Follows(p)
  <2>1. p \in Live /\ obj[p] \in ObjectType /\ p \in Objs /\ obj'[p].refs # 0
    BY <1>1, InUse DEF Live
  <2>2. /\ obj'[p].data = obj[p].data /\ obj'[p].kind = obj[p].kind /\ obj'[p].s = obj[p].s
        /\ obj'[p].loan = obj[p].loan /\ obj'[p].oom = obj[p].oom
    BY <1>1, <2>1 DEF ObjectType
  <2> QED
    BY <1>4, <1>5, <2>1, <2>2 DEF Follows
<1> QED
  BY <1>4, <1>5, ContentKept

\* the steps that do so
LEMMA DropContent ==
  ASSUME RefInv, RefInv', ContentInv,
         \/ \E o \in Objs : Ack(o)
         \/ \E o \in rhc : SkipInvalid(o)
         \/ \E t \in Threads : NoRoom(t) \/ Finish(t)
  PROVE  ContentInv'
<1>1. CASE \E o \in Objs : Ack(o)
  <2>1. PICK o \in Live : Ack(o)
    BY <1>1, InUse DEF Ack
  <2>2. Unref(o) /\ UNCHANGED <<topic, held>> /\ \A u \in Threads : thread'[u] = thread[u]
    BY <2>1 DEF Ack
  <2> QED
    BY <2>2, UnrefContent
<1>2. CASE \E o \in rhc : SkipInvalid(o)
  <2>1. PICK o \in Live : SkipInvalid(o)
    BY <1>2, InUse
  <2>2. Unref(o) /\ UNCHANGED <<topic, held>> /\ \A u \in Threads : thread'[u] = thread[u]
    BY <2>1 DEF SkipInvalid
  <2> QED
    BY <2>2, UnrefContent
<1>3. CASE \E t \in Threads : NoRoom(t) \/ Finish(t)
  <2>1. PICK t \in Threads : NoRoom(t) \/ Finish(t)
    BY <1>3
  <2>2. PICK o \in Live : o = Of(t)
    BY <2>1, InUse DEF At, NoRoom, Finish
  <2>3. Unref(o) /\ UNCHANGED <<topic, held>> /\ thread' = [thread EXCEPT ![t] = Idle]
    BY <2>1, <2>2 DEF NoRoom, Finish
  <2>4. \A u \in Threads : thread'[u] = thread[u] \/ thread'[u].pc = "idle"
    BY <2>3 DEF RefInv, TypeOK, Idle
  <2> QED
    BY <2>2, <2>3, <2>4, UnrefContent
<1> QED
  BY <1>1, <1>2, <1>3

\* a step of a thread that leaves the objects, but for their references
LEMMA ReadContent ==
  ASSUME RefInv, RefInv', ContentInv, NEW t \in Threads, UNCHANGED <<topic, loan, held>>,
         UNCHANGED obj \/ \E o \in Live : obj' = [obj EXCEPT ![o].refs = @ + 1],
         \A u \in Threads \ {t} : thread'[u] = thread[u],
         TakesWhole(thread'[t], obj'[thread'[t].o])
  PROVE  ContentInv'
<1>1. \A l \in Loans : Stays(l)
  BY DEF Stays
<1>2. ASSUME NEW p \in Live' PROVE Follows(p)
  <2>1. CASE UNCHANGED obj
    <3>1. p \in Live /\ (obj[p].loan # None => Stays(obj[p].loan))
      BY <1>2, <2>1, <1>1, InUse DEF Live
    <3> QED
      BY <2>1, <3>1 DEF Follows
  <2>2. CASE \E o \in Live : obj' = [obj EXCEPT ![o].refs = @ + 1]
    <3>1. PICK o \in Live : obj' = [obj EXCEPT ![o].refs = @ + 1]
      BY <2>2
    <3>2. o \in Objs /\ obj[o] \in ObjectType /\ obj \in [Objs -> {NoObject} \cup ObjectType]
      BY InUse DEF RefInv, TypeOK, Live
    <3>3. /\ \A q \in Objs \ {o} : obj'[q] = obj[q]
          /\ obj'[o].data = obj[o].data /\ obj'[o].kind = obj[o].kind /\ obj'[o].s = obj[o].s
          /\ obj'[o].loan = obj[o].loan /\ obj'[o].oom = obj[o].oom
      BY <3>1, <3>2 DEF ObjectType
    <3>4. p \in Objs /\ p \in Live
      BY <1>2, <3>3 DEF Live
    <3>5. obj[p].loan # None => Stays(obj[p].loan)
      BY <1>1, <3>4, InUse
    <3> QED
      BY <3>3, <3>4, <3>5 DEF Follows
  <2> QED
    BY <2>1, <2>2
<1>3. \A l \in Loans : loan'[l].refs # 0 => loan'[l].s \in SamplesOf
  BY HoldingStays
<1>4. \A h \in held' : Holding(h)
  BY HoldingStays
<1> QED
  BY <1>2, <1>3, <1>4, ContentKept

\* what a call finds to use
LEMMA Found ==
  ASSUME RefInv, ViewInv, ContentInv, NEW t \in Threads, thread[t].pc = "use"
  PROVE  /\ thread[t] \in CallType /\ Of(t) \in Live /\ obj[Of(t)] = Of1(t)
         /\ IF Of1(t).data.st = "whole" THEN Of1(t).data.c.s = Of1(t).s /\ ~Of1(t).data.c.key
            ELSE Of1(t).oom
         /\ thread[t].op = "to_ser" /\ thread[t].got = Null => Of1(t).oom
<1>1. thread[t] \in CallType /\ Of(t) \in Live /\ obj[Of(t)] = Of1(t)
  BY InUse DEF At, Of, Of1
<1>2. DataOf(Of1(t)) /\ Of1(t).kind = "DATA"
  BY <1>1 DEF ContentInv, ObjectsHold, ViewInv, HasData
<1>3. Of1(t).data.st = "whole" \/ Of1(t).oom
  BY DEF ViewInv, Filled
<1>4. TakesWhole(thread[t], Of1(t))
  BY DEF ContentInv, TakesHold
<1> QED
  BY <1>1, <1>2, <1>3, <1>4 DEF DataOf, TakesWhole

\* the calls that leave objects and loans as they are
LEMMA CallContent ==
  ASSUME RefInv, RefInv', ViewInv, ContentInv, NEW t \in Threads,
         \/ \E o \in whc : Send(t, o)
         \/ \E o \in rhc, op \in {"to_sample", "size"} : Take(t, o, op)
         \/ Lock(t) \/ Check(t) \/ ToSerRef(t) \/ Size(t) \/ Copy(t)
  PROVE  ContentInv'
<1>1. UNCHANGED <<topic, loan, held>>
  BY DEF Send, Take, Lock, Check, ToSerRef, Size, Copy
<1>2. thread \in [Threads -> {Idle} \cup CallType]
  BY DEF RefInv, TypeOK
<1>3. CASE \E o \in whc : Send(t, o)
  <2>1. PICK o \in Live : Send(t, o)
    BY <1>3, InUse
  <2>2. /\ thread'[t].pc = "lock" /\ thread'[t].op = "to_ser_ref"
        /\ \A u \in Threads \ {t} : thread'[u] = thread[u]
        /\ obj' = [obj EXCEPT ![o].refs = @ + 1]
    BY <1>2, <2>1 DEF Send, Call
  <2>3. TakesWhole(thread'[t], obj'[thread'[t].o])
    BY <2>2 DEF TakesWhole
  <2> QED
    BY <1>1, <2>2, <2>3, ReadContent
<1>4. CASE \E o \in rhc, op \in {"to_sample", "size"} : Take(t, o, op)
  <2>1. PICK o \in rhc, op \in {"to_sample", "size"} : Take(t, o, op)
    BY <1>4
  <2>2. /\ thread'[t].pc = "lock" /\ thread'[t].op = op
        /\ \A u \in Threads \ {t} : thread'[u] = thread[u]
        /\ UNCHANGED obj
    BY <1>2, <2>1 DEF Take, Call
  <2>3. TakesWhole(thread'[t], obj'[thread'[t].o])
    BY <2>2 DEF TakesWhole
  <2> QED
    BY <1>1, <2>2, <2>3, ReadContent
<1>5. CASE Lock(t) \/ Check(t)
  <2>1. thread[t] \in CallType
    BY <1>5, InUse DEF Lock, Check, At
  <2>2. PICK pc \in {"check", "resize", "use"} : Goto(t, pc)
    BY <1>5 DEF Lock, Check
  <2>3. /\ thread'[t].pc # "took" /\ thread'[t].op = thread[t].op /\ thread'[t].got = thread[t].got
        /\ thread'[t].o = thread[t].o /\ \A u \in Threads \ {t} : thread'[u] = thread[u]
    BY <1>2, <2>1, <2>2 DEF Goto, CallType
  <2>4. UNCHANGED obj
    BY <1>5 DEF Lock, Check
  <2>5. TakesWhole(thread[t], obj[thread[t].o])
    BY <2>1 DEF ContentInv, TakesHold, Of1, CallType
  <2>6. TakesWhole(thread'[t], obj'[thread'[t].o])
    BY <2>3, <2>4, <2>5 DEF TakesWhole
  <2> QED
    BY <1>1, <2>3, <2>4, <2>6, ReadContent
<1>6. CASE ToSerRef(t) \/ Size(t) \/ Copy(t)
  <2>1. thread[t].pc = "use" /\ UNCHANGED obj
    BY <1>6 DEF ToSerRef, Size, Copy, At
  <2>2. thread[t] \in CallType /\ obj[Of(t)] = Of1(t)
    BY <2>1, Found
  <2>3. /\ IF Of1(t).data.st = "whole" THEN Of1(t).data.c.s = Of1(t).s /\ ~Of1(t).data.c.key
           ELSE Of1(t).oom
        /\ thread[t].op = "to_ser" /\ thread[t].got = Null => Of1(t).oom
    BY <2>1, Found
  <2>4. \A u \in Threads \ {t} : thread'[u] = thread[u]
    BY <1>2, <1>6 DEF ToSerRef, Size, Copy
  <2>5. TakesWhole(thread'[t], obj'[thread'[t].o])
    <3>1. CASE ToSerRef(t)
      <4>1. thread'[t].pc = "sending" /\ thread'[t].op = "to_ser_ref"
        BY <1>2, <2>2, <3>1 DEF ToSerRef, CallType
      <4> QED
        BY <4>1 DEF TakesWhole
    <3>2. CASE Size(t)
      <4>1. thread'[t].pc = "lock" /\ thread'[t].got = Of1(t).data /\ thread'[t].o = thread[t].o
        BY <1>2, <2>2, <3>2 DEF Size, CallType
      <4> QED
        BY <2>1, <2>3, <4>1 DEF TakesWhole, Null, Of1
    <3>3. CASE Copy(t)
      <4>1. PICK got : got = IF thread[t].op = "to_ser" /\ thread[t].got = Null THEN Null ELSE Of1(t).data
        OBVIOUS
      <4>2. /\ thread'[t].pc = "took" /\ thread'[t].op = thread[t].op /\ thread'[t].o = thread[t].o
            /\ thread'[t].got = got
        BY <1>2, <2>2, <3>3, <4>1 DEF Copy, CallType
      <4>3. IF got.st = "whole" THEN got.c.s = Of1(t).s /\ ~got.c.key ELSE Of1(t).oom
        BY <2>3, <4>1 DEF Null
      <4>4. got = Null => Of1(t).oom
        BY <4>3 DEF Null
      <4> QED
        BY <2>1, <4>2, <4>3, <4>4 DEF TakesWhole, Of1
    <3> QED
      BY <1>6, <3>1, <3>2, <3>3
  <2> QED
    BY <1>1, <2>1, <2>4, <2>5, ReadContent
<1> QED
  BY <1>3, <1>4, <1>5, <1>6

\* the buffer and the sample in it
LEMMA FillContent ==
  ASSUME RefInv, RefInv', ContentInv, NEW t \in Threads, Resize(t) \/ Fill(t)
  PROVE  ContentInv'
<1>1. /\ thread[t] \in CallType /\ Of(t) \in Live /\ Of(t) \in Objs /\ obj[Of(t)] \in ObjectType
      /\ thread \in [Threads -> {Idle} \cup CallType] /\ obj \in [Objs -> {NoObject} \cup ObjectType]
  BY InUse DEF Resize, Fill, At, RefInv, TypeOK, Live
<1>2. PICK o \in Objs : o = Of(t) /\ o = thread[t].o
  BY <1>1 DEF Of
<1>3. PICK pc \in {"fill", "use"} : Goto(t, pc)
  BY DEF Resize, Fill
<1>4. UNCHANGED <<topic, loan, held>>
  BY DEF Resize, Fill
<1>5. /\ thread'[t].pc # "took" /\ thread'[t].op = thread[t].op /\ thread'[t].got = thread[t].got
      /\ thread'[t].o = o /\ \A u \in Threads \ {t} : thread'[u] = thread[u]
  BY <1>1, <1>2, <1>3 DEF Goto, CallType
<1>6. /\ obj'[o].s = obj[o].s /\ obj'[o].kind = obj[o].kind /\ obj'[o].loan = obj[o].loan
      /\ obj'[o].refs = obj[o].refs /\ (obj[o].oom => obj'[o].oom)
      /\ obj'[o].data = obj[o].data \/ DataOf(obj'[o])
      /\ \A p \in Objs \ {o} : obj'[p] = obj[p]
  <2>1. CASE obj' = [obj EXCEPT ![o].data = Part]
    BY <1>1, <1>2, <2>1 DEF ObjectType, DataOf, Part
  <2>2. CASE obj' = [obj EXCEPT ![o].oom = TRUE]
    BY <1>1, <1>2, <2>2 DEF ObjectType
  <2>3. CASE Fill(t)
    <3>1. RawOf(obj[o].loan, obj[o].s)
      BY <1>1, <1>2, <2>3 DEF Fill, At, RefInv, OnLoan, ContentInv, ObjectsHold
    <3>2. PICK data : data = Whole(Content(loan[obj[o].loan].s, Own, obj[o].kind = "KEY"))
      OBVIOUS
    <3>3. data.c.s = obj[o].s /\ (data.c.key <=> obj[o].kind = "KEY")
      BY <3>1, <3>2 DEF RawOf, Whole, Content
    <3>4. obj' = [obj EXCEPT ![o].data = data]
      BY <1>2, <2>3, <3>2 DEF Fill
    <3> QED
      BY <1>1, <1>2, <3>3, <3>4 DEF ObjectType, DataOf
  <2> QED
    BY <1>2, <2>1, <2>2, <2>3 DEF Resize
<1>7. ASSUME NEW p \in Live' PROVE Follows(p)
  <2>1. p \in Objs /\ p \in Live
    BY <1>6 DEF Live
  <2> QED
    BY <1>4, <1>6, <2>1 DEF Follows, Stays
<1>8. TakesWhole(thread'[t], obj'[thread'[t].o])
  <2>1. TakesWhole(thread[t], obj[o])
    BY <1>1, <1>2 DEF ContentInv, TakesHold, Of1, CallType
  <2> QED
    BY <1>5, <1>6, <2>1 DEF TakesWhole
<1>9. /\ \A l \in Loans : loan'[l].refs # 0 => loan'[l].s \in SamplesOf
      /\ \A h \in held' : Holding(h)
  BY <1>4, HoldingStays
<1> QED
  BY <1>4, <1>5, <1>7, <1>8, <1>9, ContentKept

\* rmw_take_loan_int
LEMMA TakeLoanContent ==
  ASSUME RefInv, RefInv', ViewInv, ContentInv, NEW o \in rhc, NEW l \in Loans, TakeLoan(o, l)
  PROVE  ContentInv'
<1>1. o \in Live /\ obj[o] \in ObjectType /\ loan \in [Loans -> {NoLoan} \cup LoanType]
  BY InUse DEF RefInv, TypeOK
<1>2. /\ obj' = ObjectUnref(o) /\ UNCHANGED <<topic, thread>>
      /\ held' = held \cup
           {Hold(l, IF obj[o].kind = "DATA" THEN "subscription" ELSE "pointer", obj[o].s)}
  BY DEF TakeLoan
<1>3. /\ obj'[o].refs # 0 => obj'[o] = [obj[o] EXCEPT !.refs = @ - 1]
      /\ \A p \in Objs \ {o} : obj'[p] = obj[p]
      /\ \A p \in Live' : p \in Live
  BY <1>1, <1>2, ObjectUnrefEffect
<1>4. /\ obj[o].s \in SamplesOf /\ DataOf(obj[o])
      /\ obj[o].loan # None => RawOf(obj[o].loan, obj[o].s)
  BY <1>1 DEF ContentInv, ObjectsHold
<1>5. /\ \A k \in Loans : loan'[k].refs # 0 =>
           (loan[k].refs # 0 /\ Stays(k)) \/ (k \in FreeLoans /\ loan'[k].s \in SamplesOf)
      /\ loan'[l].s = obj[o].s /\ (obj[o].kind = "DATA" => loan'[l].state = "RAW_DATA")
  <2>1. CASE obj[o].loan # None
    <3>1. PICK n : loan' = [loan EXCEPT ![l].refs = n]
      BY <2>1 DEF TakeLoan
    <3>2. l = obj[o].loan /\ loan[l] \in LoanType /\ loan[l].refs # 0
      BY <1>1, <2>1, InUse DEF TakeLoan, LoanType
    <3>3. Stays(l) /\ \A k \in Loans \ {l} : loan'[k] = loan[k]
      BY <1>1, <3>1, <3>2 DEF LoanType, Stays
    <3>4. loan[l].s = obj[o].s /\ (obj[o].kind = "DATA" => loan[l].state = "RAW_DATA")
      BY <1>1, <1>2, <1>4, <2>1, <3>2 DEF RawOf, ViewInv, HasData
    <3> QED
      BY <3>2, <3>3, <3>4 DEF Stays
  <2>2. CASE obj[o].loan = None
    <3>1. l \in FreeLoans /\ obj[o].data.st = "whole"
      BY <2>2 DEF TakeLoan
    <3>2. loan' = [loan EXCEPT ![l] =
                     Loan(IF obj[o].kind = "DATA" THEN "RAW_DATA" ELSE "RAW_KEY", obj[o].s)]
      BY <1>4, <2>2, <3>1 DEF TakeLoan, DataOf
    <3>3. /\ loan'[l].s = obj[o].s /\ (obj[o].kind = "DATA" => loan'[l].state = "RAW_DATA")
          /\ \A k \in Loans \ {l} : loan'[k] = loan[k]
      BY <1>1, <3>2 DEF Loan
    <3> QED
      BY <1>4, <3>1, <3>3 DEF Stays
  <2> QED
    BY <2>1, <2>2
<1>6. \A h \in held' : h \in held \/ Holding(h)
  BY <1>2, <1>5 DEF Hold, Holding
<1>7. /\ \A p \in Live : p \in Live' /\ obj'[p].loan = obj[p].loan /\ obj[p].loan # None =>
           Stays(obj[p].loan)
      /\ \A k \in Loans : loan'[k].refs # 0 => loan'[k].s \in SamplesOf
      /\ \A h \in held' : Holding(h)
  BY <1>5, <1>6, UsedStay
<1>8. ASSUME NEW p \in Live' PROVE Follows(p)
  <2>1. p \in Live /\ obj[p] \in ObjectType /\ p \in Objs /\ obj'[p].refs # 0
    BY <1>3, InUse DEF Live
  <2>2. /\ obj'[p].data = obj[p].data /\ obj'[p].kind = obj[p].kind /\ obj'[p].s = obj[p].s
        /\ obj'[p].loan = obj[p].loan /\ obj'[p].oom = obj[p].oom
    BY <1>3, <2>1 DEF ObjectType
  <2> QED
    BY <1>7, <1>8, <2>1, <2>2 DEF Follows
<1> QED
  BY <1>2, <1>7, <1>8, ContentKept

-----------------------------------------------------------------------------
\* at the start there is nothing
LEMMA ContentEmpty == Empty => ContentInv
  BY DEF Empty, ContentInv, ObjectsHold, LoansHold, HeldHold, TakesHold, Live, NoObject, NoLoan, Idle

LEMMA ContentInit == Init => ContentInv
  BY EmptyInit, ContentEmpty

\* every step, with what is proved about references and views
LEMMA ContentNext == RefInv /\ RefInv' /\ ViewInv /\ ContentInv /\ [Next]_vars => ContentInv'
<1> SUFFICES ASSUME RefInv, RefInv', ViewInv, ContentInv, [Next]_vars PROVE ContentInv'
  OBVIOUS
<1>1. CASE \E s \in SamplesOf : Arriving(s)
  <2>1. PICK s \in SamplesOf : Arriving(s)
    BY <1>1
  <2>2. CASE \E o \in FreeObjs : Publish(o, s)
    BY <2>2, PublishContent
  <2>3. CASE \E o \in FreeObjs, enc \in Encodings \cup {Own} : PublishSerialized(o, s, enc)
    BY <2>3, PublishContent
  <2>4. CASE \E o \in FreeObjs, enc \in Encodings \cup {Own}, key \in BOOLEAN : FromSer(o, s, enc, key)
    BY <2>4, PublishContent
  <2>5. CASE \E l \in Loans : Borrow(l, s) \/ \E state \in States : FromElsewhere(l, s, state)
    <3>1. UNCHANGED topic
      BY <2>5 DEF Borrow, FromElsewhere
    <3> QED
      BY <2>5, <3>1, LoanContent
  <2> QED
    BY <2>1, <2>2, <2>3, <2>4, <2>5 DEF Arriving
<1>2. CASE Passing
  <2>1. CASE \E h \in held : ReturnLoan(h) \/ TakeBack(h)
    <3>1. PICK h \in held : GiveBack(h)
      BY <2>1 DEF ReturnLoan, TakeBack
    <3>2. UNCHANGED topic
      BY <3>1 DEF GiveBack
    <3> QED
      BY <3>1, <3>2, LoanContent
  <2>2. CASE \E h \in held : LeaveLoan(h)
    BY <2>2, LeaveLoanContent
  <2>3. CASE \E o \in FreeObjs, h \in held, cdr \in BOOLEAN : PublishLoaned(o, h, cdr)
    BY <2>3, PublishLoanedContent
  <2>4. CASE \E o \in FreeObjs, l \in psmx : FromPsmx(o, l)
    BY <2>4, FromPsmxContent
  <2> QED
    BY <1>2, <2>1, <2>2, <2>3, <2>4 DEF Passing
<1>3. CASE \E t \in Threads : MayWork(t) /\ Using(t)
  <2>1. PICK t \in Threads : Using(t)
    BY <1>3
  <2>2. CASE \/ \E o \in whc : Send(t, o)
             \/ \E o \in rhc, op \in {"to_sample", "size"} : Take(t, o, op)
             \/ Lock(t) \/ Check(t) \/ ToSerRef(t) \/ Size(t) \/ Copy(t)
    BY <2>2, CallContent
  <2>3. CASE Resize(t) \/ Fill(t)
    BY <2>3, FillContent
  <2>4. CASE NoRoom(t) \/ Finish(t)
    BY <2>4, DropContent
  <2> QED
    BY <2>1, <2>2, <2>3, <2>4 DEF Using, OnDemand
<1>4. CASE \E o \in Objs : Ack(o)
  BY <1>4, DropContent
<1>5. CASE \E o \in rhc : SkipInvalid(o)
  BY <1>5, DropContent
<1>6. CASE \E o \in rhc, l \in Loans : TakeLoan(o, l)
  BY <1>6, TakeLoanContent
<1>7. CASE PublishSerializedFails
  <2>1. Empty' => ContentInv'
    BY ContentEmpty, PTL
  <2> QED
    BY <1>7, <2>1, EmptyAfter
<1>8. CASE UNCHANGED vars
  <2>1. UNCHANGED <<topic, obj, loan, thread, held>>
    BY <1>8 DEF vars
  <2> QED
    BY <2>1 DEF ContentInv, ObjectsHold, LoansHold, HeldHold, TakesHold, Live, Of1, RawOf, SamplesOf, C
<1> QED
  BY <1>1, <1>2, <1>3, <1>4, <1>5, <1>6, <1>7, <1>8 DEF Next

-----------------------------------------------------------------------------
\* What the codec has to do for it, by itself: a serialized sample, whoever
\* serialized it, is read back as the sample, and shown as it is read
\* (serialize and deserialize of TypeSupport, print of the sertype).
RoundTrips ==
  \A tp \in Topics, c \in Contents :
    LET codec == Codec[tp]
    IN  c.s \in DOMAIN codec.sample /\ ~c.key =>
          /\ codec.taken[c].ok /\ codec.taken[c].v = codec.sample[c.s]
          /\ codec.printed[c] = codec.taken[c]

\* What the application takes is what was published: between the calls no step
\* of a publisher, of Cyclone, of the plugin or of another take puts one sample's
\* data in the place of another's, takes a key for a sample, takes a buffer before
\* it is filled, or changes a loan that is still in use (serdata.cpp, and the
\* takes of rmw_node.cpp).
THEOREM TakenIsAlwaysPublished == ASSUME RoundTrips PROVE Spec => []TakenIsPublished
<1>1. RefInv /\ ContentInv => TakenIsPublished
  <2> SUFFICES ASSUME RefInv, ContentInv PROVE TakenIsPublished
    OBVIOUS
  <2>1. ASSUME NEW t \in Threads, At(t, "took")
        PROVE  \/ Faithful(C, thread[t].got, obj[Of(t)].s)
               \/ thread[t].got.st # "whole" /\ obj[Of(t)].oom
    <3>1. Of(t) \in Live /\ thread[t].got \in Datas
      BY <2>1, InUse DEF At, CallType
    <3>2. TakesWhole(thread[t], obj[Of(t)])
      BY <2>1 DEF At, Of, ContentInv, TakesHold, Of1
    <3>3. CASE thread[t].got.st = "whole"
      <4>1. PICK c \in Contents : c = thread[t].got.c
        BY <3>1, <3>3 DEF Datas, Null, Part, Whole
      <4>2. c.s = obj[Of(t)].s /\ ~c.key /\ c.s \in DOMAIN C.sample
        BY <2>1, <3>1, <3>2, <3>3, <4>1 DEF At, TakesWhole, ContentInv, ObjectsHold, SamplesOf
      <4>3. topic \in Topics
        BY DEF RefInv, TypeOK
      <4>4. C.taken[c].ok /\ C.taken[c].v = C.sample[c.s] /\ C.printed[c] = C.taken[c]
        BY <4>2, <4>3 DEF RoundTrips, C
      <4> QED
        BY <3>3, <4>1, <4>2, <4>4 DEF Faithful
    <3>4. CASE thread[t].got.st # "whole"
      BY <2>1, <3>2, <3>4 DEF At, TakesWhole
    <3> QED
      BY <3>3, <3>4
  <2>2. ASSUME NEW h \in held, h.by = "subscription"
        PROVE  loan[h.l].refs > 0 /\ loan[h.l].state = "RAW_DATA" /\ loan[h.l].s = h.s
    BY <2>2, InUse DEF ContentInv, HeldHold, LoanType
  <2> QED
    BY <2>1, <2>2 DEF TakenIsPublished
<1> QED
  BY <1>1, RefInit, RefNext, ViewInit, ViewNext, ContentInit, ContentNext, PTL DEF Spec

-----------------------------------------------------------------------------
(***************************************************************************)
(* Keys.  An object whose key was extracted from serialized data has these *)
(* data, whole, from its start to its end, and they are of the sample that *)
(* the object stands for.                                                  *)
(***************************************************************************)
KeyedWhole(x) == x.key = "ser" => x.data.st = "whole"
KeyInv == \A o \in Live : KeyedWhole(obj[o])

\* what keeps it: the objects there were stay as they are, apart from their
\* references, and one may be new
LEMMA KeyKept ==
  ASSUME RefInv, KeyInv, NEW o \in Objs,
         \A p \in Objs \ {o} : obj'[p] = obj[p],
         \/ KeyedWhole(obj'[o])
         \/ o \in Live /\ obj'[o].key = obj[o].key /\ obj'[o].data = obj[o].data
         \/ obj'[o].refs = 0
  PROVE  KeyInv'
<1> SUFFICES ASSUME NEW p \in Live' PROVE KeyedWhole(obj'[p])
  BY DEF KeyInv
<1>1. p \in Objs /\ obj'[p].refs # 0
  BY DEF Live
<1>2. CASE p = o
  BY <1>1, <1>2 DEF KeyInv, KeyedWhole
<1>3. CASE p # o
  BY <1>1, <1>3 DEF KeyInv, Live
<1> QED
  BY <1>2, <1>3

\* an object that is new: set_key is called on a sample, or on its serialization
LEMMA KeyNew ==
  ASSUME RefInv, KeyInv, NEW o \in FreeObjs,
         \E x : obj' = [obj EXCEPT ![o] = x] /\ KeyedWhole(x)
  PROVE  KeyInv'
<1>1. o \in Objs /\ obj \in [Objs -> {NoObject} \cup ObjectType]
  BY DEF FreeObjs, RefInv, TypeOK
<1>2. PICK x : obj' = [obj EXCEPT ![o] = x] /\ KeyedWhole(x)
  OBVIOUS
<1>3. obj'[o] = x /\ \A p \in Objs \ {o} : obj'[p] = obj[p]
  BY <1>1, <1>2
<1> QED
  BY <1>1, <1>2, <1>3, KeyKept

\* objects that come from the application, from the network and from the plugin
LEMMA KeyCreated ==
  ASSUME RefInv, KeyInv, NEW o \in FreeObjs,
         \/ \E s \in SamplesOf : Publish(o, s)
         \/ \E s \in SamplesOf, enc \in Encodings \cup {Own} : PublishSerialized(o, s, enc)
         \/ \E s \in SamplesOf, enc \in Encodings \cup {Own}, key \in BOOLEAN : FromSer(o, s, enc, key)
         \/ \E h \in held, cdr \in BOOLEAN : PublishLoaned(o, h, cdr)
         \/ \E l \in psmx : FromPsmx(o, l)
  PROVE  KeyInv'
<1> SUFFICES \E x : obj' = [obj EXCEPT ![o] = x] /\ KeyedWhole(x)
  BY KeyNew
<1>1. \A refs, kind, s, data, l : KeyedWhole(Object(refs, kind, s, "sample", data, l))
  BY DEF KeyedWhole, Object
<1>2. \A refs, kind, s, c, l : KeyedWhole(Object(refs, kind, s, "ser", Whole(c), l))
  BY DEF KeyedWhole, Object, Whole
<1>3. CASE \E s \in SamplesOf : Publish(o, s)
  <2>1. PICK s, data : obj' = [obj EXCEPT ![o] = Object(2, "DATA", s, "sample", data, None)]
    BY <1>3 DEF Publish, Written
  <2> QED
    BY <1>1, <2>1
<1>4. CASE \E s \in SamplesOf, enc \in Encodings \cup {Own} : PublishSerialized(o, s, enc)
  <2>1. PICK s, enc : obj' = [obj EXCEPT ![o] =
               Object(2, "DATA", s, "ser", Whole(Content(s, enc, FALSE)), None)]
    BY <1>4 DEF PublishSerialized, Written
  <2> QED
    BY <1>2, <2>1
<1>5. CASE \E s \in SamplesOf, enc \in Encodings \cup {Own}, key \in BOOLEAN : FromSer(o, s, enc, key)
  <2>1. PICK s, enc, key : obj' = [obj EXCEPT ![o] =
               Object(1, IF key THEN "KEY" ELSE "DATA", s, "ser", Whole(Content(s, enc, key)), None)]
    BY <1>5 DEF FromSer, Received
  <2> QED
    BY <1>2, <2>1
<1>6. CASE \E h \in held, cdr \in BOOLEAN : PublishLoaned(o, h, cdr)
  <2>1. PICK h, data : obj' = [obj EXCEPT ![o] = Object(1, "DATA", h.s, "sample", data, h.l)]
    BY <1>6 DEF PublishLoaned
  <2> QED
    BY <1>1, <2>1
<1>7. CASE \E l \in psmx : FromPsmx(o, l)
  <2>1. PICK l, kind, s, c :
          \/ obj' = [obj EXCEPT ![o] = Object(1, kind, s, "sample", Null, l)]
          \/ obj' = [obj EXCEPT ![o] = Object(1, kind, s, "ser", Whole(c), None)]
    BY <1>7 DEF FromPsmx, Received
  <2> QED
    BY <1>1, <1>2, <2>1
<1> QED
  BY <1>3, <1>4, <1>5, <1>6, <1>7

\* references come and go
LEMMA KeyCounted ==
  ASSUME RefInv, KeyInv, NEW o \in Live,
         obj' = ObjectUnref(o) \/ obj' = [obj EXCEPT ![o].refs = @ + 1]
  PROVE  KeyInv'
<1>1. o \in Objs /\ obj[o] \in ObjectType /\ obj \in [Objs -> {NoObject} \cup ObjectType]
  BY InUse DEF RefInv, TypeOK, Live
<1>2. CASE obj' = ObjectUnref(o)
  <2>1. /\ obj'[o].refs # 0 => obj'[o] = [obj[o] EXCEPT !.refs = @ - 1]
        /\ \A p \in Objs \ {o} : obj'[p] = obj[p]
    BY <1>2, ObjectUnrefEffect
  <2>2. obj'[o].refs # 0 => obj'[o].key = obj[o].key /\ obj'[o].data = obj[o].data
    BY <1>1, <2>1 DEF ObjectType
  <2> QED
    BY <1>1, <2>1, <2>2, KeyKept
<1>3. CASE obj' = [obj EXCEPT ![o].refs = @ + 1]
  <2>1. /\ obj'[o].key = obj[o].key /\ obj'[o].data = obj[o].data
        /\ \A p \in Objs \ {o} : obj'[p] = obj[p]
    BY <1>1, <1>3 DEF ObjectType
  <2> QED
    BY <1>1, <2>1, KeyKept
<1> QED
  BY <1>2, <1>3

\* the buffer for a serialization on demand replaces no data, so no data that a
\* key was extracted from
LEMMA KeyFilled ==
  ASSUME RefInv, ViewInv, KeyInv, NEW t \in Threads, Resize(t) \/ Fill(t)
  PROVE  KeyInv'
<1>1. /\ Of(t) \in Live /\ obj[Of(t)] \in ObjectType /\ obj \in [Objs -> {NoObject} \cup ObjectType]
      /\ thread[t].o = Of(t)
  BY InUse DEF Resize, Fill, At, Of, RefInv, TypeOK
<1>2. PICK o \in Live : o = Of(t) /\ o \in Objs
  BY <1>1 DEF Live
<1>3. CASE Fill(t)
  <2>1. PICK data : data = Whole(Content(loan[obj[o].loan].s, Own, obj[o].kind = "KEY"))
    OBVIOUS
  <2>2. obj' = [obj EXCEPT ![o].data = data] /\ data.st = "whole"
    BY <1>2, <1>3, <2>1 DEF Fill, Whole
  <2>3. obj'[o].data = data /\ \A p \in Objs \ {o} : obj'[p] = obj[p]
    BY <1>1, <1>2, <2>2 DEF ObjectType
  <2> QED
    BY <1>2, <2>2, <2>3, KeyKept DEF KeyedWhole
<1>4. CASE Resize(t)
  <2>1. obj[o].data = Null
    BY <1>1, <1>2, <1>4 DEF Resize, At, ViewInv, Filling, Of1
  <2>2. obj[o].key # "ser"
    BY <1>2, <2>1 DEF KeyInv, KeyedWhole, Null
  <2>3. obj' = [obj EXCEPT ![o].data = Part] \/ obj' = [obj EXCEPT ![o].oom = TRUE]
    BY <1>2, <1>4 DEF Resize
  <2>4. obj'[o].key = obj[o].key /\ \A p \in Objs \ {o} : obj'[p] = obj[p]
    BY <1>1, <1>2, <2>3 DEF ObjectType
  <2> QED
    BY <1>2, <2>2, <2>4, KeyKept DEF KeyedWhole
<1> QED
  BY <1>3, <1>4

\* every step keeps it
LEMMA KeyNext == RefInv /\ ViewInv /\ KeyInv /\ [Next]_vars => KeyInv'
<1> SUFFICES ASSUME RefInv, ViewInv, KeyInv, [Next]_vars PROVE KeyInv'
  OBVIOUS
<1>1. CASE UNCHANGED obj
  BY <1>1 DEF KeyInv, KeyedWhole, Live
<1>2. CASE \E s \in SamplesOf : Arriving(s)
  <2>1. PICK s \in SamplesOf : Arriving(s)
    BY <1>2
  <2>2. CASE \E l \in Loans : Borrow(l, s) \/ \E state \in States : FromElsewhere(l, s, state)
    BY <1>1, <2>2 DEF Borrow, FromElsewhere
  <2>3. CASE \E o \in FreeObjs : Publish(o, s)
    BY <2>3, KeyCreated
  <2>4. CASE \E o \in FreeObjs, enc \in Encodings \cup {Own} : PublishSerialized(o, s, enc)
    BY <2>4, KeyCreated
  <2>5. CASE \E o \in FreeObjs, enc \in Encodings \cup {Own}, key \in BOOLEAN : FromSer(o, s, enc, key)
    BY <2>5, KeyCreated
  <2> QED
    BY <2>1, <2>2, <2>3, <2>4, <2>5 DEF Arriving
<1>3. CASE Passing
  <2>1. CASE \E h \in held : ReturnLoan(h) \/ TakeBack(h) \/ LeaveLoan(h)
    BY <1>1, <2>1 DEF ReturnLoan, TakeBack, GiveBack, LeaveLoan
  <2> QED
    BY <1>3, <2>1, KeyCreated DEF Passing
<1>4. CASE \E t \in Threads : MayWork(t) /\ Using(t)
  <2>1. PICK t \in Threads : Using(t)
    BY <1>4
  <2>2. CASE \E o \in whc : Send(t, o)
    BY <2>2, InUse, KeyCounted DEF Send
  <2>3. CASE \/ \E o \in rhc, op \in {"to_sample", "size"} : Take(t, o, op)
             \/ Lock(t) \/ Check(t) \/ ToSerRef(t) \/ Size(t) \/ Copy(t)
    BY <1>1, <2>3 DEF Take, Lock, Check, ToSerRef, Size, Copy
  <2>4. CASE Resize(t) \/ Fill(t)
    BY <2>4, KeyFilled
  <2>5. CASE NoRoom(t) \/ Finish(t)
    <3>1. Of(t) \in Live /\ obj' = ObjectUnref(Of(t))
      BY <2>5, InUse DEF NoRoom, Finish, At, Unref
    <3> QED
      BY <3>1, KeyCounted
  <2> QED
    BY <2>1, <2>2, <2>3, <2>4, <2>5 DEF Using, OnDemand
<1>5. CASE \E o \in Objs : Ack(o)
  BY <1>5, InUse, KeyCounted DEF Ack, Unref
<1>6. CASE \E o \in rhc : SkipInvalid(o) \/ \E l \in Loans : TakeLoan(o, l)
  BY <1>6, InUse, KeyCounted DEF SkipInvalid, TakeLoan, Unref
<1>7. CASE PublishSerializedFails
  BY <1>7 DEF PublishSerializedFails, KeyInv, Live, NoObject
<1>8. CASE UNCHANGED vars
  BY <1>1, <1>8 DEF vars
<1> QED
  BY <1>2, <1>3, <1>4, <1>5, <1>6, <1>7, <1>8 DEF Next

\* Two objects in this process, however they came to be and whatever became of
\* their data since, have the same key and the same hash if and only if their
\* samples agree on the key members, if the codec by itself makes faithful keys
\* for the message of the topic: no step puts another sample's data behind a key,
\* or leaves a key to be extracted from data that are not there.
THEOREM KeysAlwaysAgree == Spec => [](KeysFaithful(C) => KeysAgree)
<1>1. RefInv /\ ContentInv /\ KeyInv => (KeysFaithful(C) => KeysAgree)
  <2> SUFFICES ASSUME RefInv, ContentInv, KeyInv, KeysFaithful(C), NEW o \in Live, NEW p \in Live
               PROVE  Agree(C, obj[o], obj[p])
    BY DEF KeysAgree
  <2> DEFINE KeysOf(s) == {C.key[s]} \cup {C.serKey[c] : c \in {d \in Contents : d.s = s}}
  <2>1. ASSUME NEW q \in Live
        PROVE  obj[q].s \in DOMAIN C.sample /\ Key(C, obj[q]) \in KeysOf(obj[q].s)
    <3>1. obj[q].s \in DOMAIN C.sample /\ DataOf(obj[q])
      BY DEF ContentInv, ObjectsHold, SamplesOf
    <3>2. obj[q].key \in {"sample", "ser"} /\ obj[q].data \in Datas
      BY InUse DEF ObjectType
    <3>3. CASE obj[q].key = "sample"
      BY <3>1, <3>3 DEF Key
    <3>4. CASE obj[q].key = "ser"
      <4>1. obj[q].data.st = "whole"
        BY <3>4 DEF KeyInv, KeyedWhole
      <4>2. PICK c \in Contents : c = obj[q].data.c
        BY <3>2, <4>1 DEF Datas, Null, Part, Whole
      <4>3. c.s = obj[q].s
        BY <3>1, <4>1, <4>2 DEF DataOf
      <4>4. Key(C, obj[q]) = C.serKey[c]
        BY <3>4, <4>2 DEF Key
      <4> QED
        BY <3>1, <4>3, <4>4
    <3> QED
      BY <3>2, <3>3, <3>4
  <2>2. \A s, r \in DOMAIN C.sample : \A k \in KeysOf(s), m \in KeysOf(r) :
          LET same == C.keyValue[s] = C.keyValue[r]
          IN  /\ k = m <=> same
              /\ C.hash[k] = C.hash[m] <=> same
              /\ C.keyTaken[k].v = C.keyValue[s]
    BY DEF KeysFaithful
  <2> HIDE DEF KeysOf
  <2> QED
    BY <2>1, <2>2 DEF Agree, Untyped
<1>2. Init => KeyInv
  BY DEF Init, KeyInv, Live, NoObject
<1> QED
  BY <1>1, <1>2, RefInit, RefNext, ViewInit, ViewNext, ContentInit, ContentNext, KeyNext, PTL DEF Spec
=============================================================================
