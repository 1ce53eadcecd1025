------------------------------ MODULE Serdata ------------------------------
(***************************************************************************)
(* Serialized data objects (serdata_rmw, serdata.cpp) from the calls that  *)
(* publish to the calls that take (rmw_node.cpp), and the loans samples    *)
(* live in: who holds a reference to what, and the serialization on demand *)
(* of a sample in a loan, under the serialize_lock of its sertype.         *)
(*                                                                         *)
(* One topic, its writer and a reader in this process.  Cyclone is the     *)
(* most general caller that keeps the rules of reference counting: it      *)
(* keeps what was written until it is acknowledged, sends it any number of *)
(* times, delivers it to the local reader and to other processes through   *)
(* a PSMX plugin, and receives from them, over the network or the plugin.  *)
(* The codec is a table (Codec), filled in from module Sertype.            *)
(***************************************************************************)
EXTENDS Integers, FiniteSets, Sequences

CONSTANTS Threads,     \* of the application and of Cyclone
          Objs, Loans, \* addresses of serdata_rmw and dds_loaned_sample_t
          Topics, Samples,
          Encodings,   \* ways another process may have serialized a sample
          Own,         \* the way this one does
          Codec,       \* Codec[topic]: the operations of its sertype, as tables
          Miskeyed,    \* topics of whose messages it makes wrong keys
          Nobody, None,
          Busy         \* bound: the topics on which threads work at the same time

ASSUME NobodyAssumption == Nobody \notin Threads
ASSUME NoneAssumption == None \notin Loans
ASSUME FiniteAssumption == IsFiniteSet(Objs) /\ IsFiniteSet(Threads)
ASSUME CodecAssumption ==
  \A tp \in Topics : Codec[tp].memcpySafe \subseteq BOOLEAN /\ DOMAIN Codec[tp].sample \subseteq Samples

VARIABLES
  topic, is_loaning_available,
  obj,             \* serdata_rmw objects; refs = 0: not allocated
  loan,            \* dds_loaned_sample_t objects; likewise
  serialize_lock,
  thread,          \* what each thread is doing
  rhc, whc,        \* objects in the caches of the reader and of the writer, whose
                   \* order matters to none of this
  psmx,            \* loans on their way through the plugin
  held             \* loans outside the middleware: [l, by, s], with by the publisher or
                   \* the subscription the application has it from, the "pointer" of a
                   \* call that takes, or "left" in it by a call that took nothing

vars == <<topic, is_loaning_available, obj, loan, serialize_lock, thread, rhc, whc, psmx, held>>

C == Codec[topic]
SamplesOf == DOMAIN C.sample

\* What m_data holds: nothing, a buffer just allocated, or a serialized sample:
\* of which sample, who serialized it and whether only its key.
Content(s, enc, key) == [s |-> s, enc |-> enc, key |-> key]
Contents == {Content(s, enc, key) : s \in Samples, enc \in Encodings \cup {Own}, key \in BOOLEAN}
Null == [st |-> "null"]
Part == [st |-> "part"]
Whole(c) == [st |-> "whole", c |-> c]

States == {"UNINITIALIZED", "RAW_DATA", "RAW_KEY", "SERIALIZED_DATA", "SERIALIZED_KEY"}
KindOfKeys(state) == IF state = "RAW_KEY" THEN "KEY" ELSE state  \* (a variant that gets it wrong)
Kind(state) == IF state \in {"RAW_KEY", "SERIALIZED_KEY"} THEN "KEY" ELSE "DATA"

\* key tells how set_key was called: from the "sample" or from the serialized
\* data, "ser".  s is the sample the object stands for, oom that memory for its
\* data was once refused: bookkeeping of the model.
Object(refs, kind, s, key, data, l) ==
  [refs |-> refs, kind |-> kind, s |-> s, key |-> key, data |-> data, loan |-> l,
   oom |-> data = Null /\ l = None]
NoObject == [refs |-> 0]
NoLoan == [refs |-> 0]
Loan(state, s) == [refs |-> 1, state |-> state, s |-> s]
Idle == [pc |-> "idle"]
Hold(l, by, s) == [l |-> l, by |-> by, s |-> s]

Live == {o \in Objs : obj[o].refs > 0}
FreeObjs == Objs \ Live
FreeLoans == {l \in Loans : loan[l].refs = 0}

Kinds == {"DATA", "KEY"}
Datas == {Null, Part} \cup {Whole(c) : c \in Contents}
ObjectType == [refs : Nat \ {0}, kind : Kinds, s : Samples, key : {"sample", "ser"},
               data : Datas, loan : Loans \cup {None}, oom : BOOLEAN]
LoanType == [refs : Nat \ {0}, state : States, s : Samples]
CallType == [pc : {"lock", "check", "resize", "fill", "use", "sending", "took"},
             op : {"to_ser_ref", "size", "to_ser", "to_sample"}, o : Objs, got : Datas]
HoldType == [l : Loans, by : {"publisher", "subscription", "pointer", "left"}, s : Samples]

TypeOK ==
  /\ topic \in Topics /\ is_loaning_available \in BOOLEAN
  /\ obj \in [Objs -> {NoObject} \cup ObjectType]
  /\ loan \in [Loans -> {NoLoan} \cup LoanType]
  /\ serialize_lock \in Threads \cup {Nobody}
  /\ thread \in [Threads -> {Idle} \cup CallType]
  /\ rhc \subseteq Objs /\ whc \subseteq Objs /\ psmx \subseteq Loans
  /\ held \subseteq HoldType

Init ==
  /\ topic \in Topics
  /\ is_loaning_available \in Codec[topic].memcpySafe
  /\ obj = [o \in Objs |-> NoObject]
  /\ loan = [l \in Loans |-> NoLoan]
  /\ serialize_lock = Nobody
  /\ thread = [t \in Threads |-> Idle]
  /\ rhc = {} /\ whc = {} /\ psmx = {} /\ held = {}

-----------------------------------------------------------------------------
\* References.

LoanUnref(l) ==
  [loan EXCEPT ![l] = IF loan[l].refs = 1 THEN NoLoan
                      ELSE [loan[l] EXCEPT !.refs = @ - 1]]

\* ddsi_serdata_unref, with serdata_rmw_free
ObjectUnref(o) ==
  [obj EXCEPT ![o] = IF obj[o].refs = 1 THEN NoObject
                     ELSE [obj[o] EXCEPT !.refs = @ - 1]]
LeaksLoan(o) == obj' = ObjectUnref(o) /\ UNCHANGED loan           \* (a variant that gets it wrong)
Unref(o) ==
  /\ obj' = ObjectUnref(o)
  /\ loan' = IF obj[o].refs = 1 /\ obj[o].loan # None THEN LoanUnref(obj[o].loan) ELSE loan

\* The object is new: in the cache of the writer and of the reader.
Written(o, x) ==
  /\ o \in FreeObjs
  /\ obj' = [obj EXCEPT ![o] = x]
  /\ whc' = whc \cup {o} /\ rhc' = rhc \cup {o}
Received(o, x) ==
  /\ o \in FreeObjs
  /\ obj' = [obj EXCEPT ![o] = x]
  /\ rhc' = rhc \cup {o} /\ UNCHANGED whc

-----------------------------------------------------------------------------
\* Publishing.

\* rmw_publish: serdata_rmw_from_sample.  serialize_into swallows the exception
\* when there is no memory and leaves the object without data.
Publish(o, s) ==
  /\ \E data \in {Whole(Content(s, Own, FALSE)), Null} :
       Written(o, Object(2, "DATA", s, "sample", data, None))
  /\ UNCHANGED <<topic, is_loaning_available, loan, serialize_lock, thread, psmx, held>>

\* rmw_publish_serialized_message.  Without memory for the object
\* serdata_rmw_from_serialized_message returns a null pointer, which is used: the
\* process ends, and another starts with nothing.
PublishSerialized(o, s, enc) ==
  LET c == Content(s, enc, FALSE)
  IN  Written(o, Object(2, "DATA", s, "ser", Whole(c), None))
  /\ UNCHANGED <<topic, is_loaning_available, loan, serialize_lock, thread, psmx, held>>

PublishSerializedFails ==
  /\ obj' = [o \in Objs |-> NoObject] /\ loan' = [l \in Loans |-> NoLoan]
  /\ serialize_lock' = Nobody /\ thread' = [t \in Threads |-> Idle]
  /\ rhc' = {} /\ whc' = {} /\ psmx' = {} /\ held' = {}
  /\ UNCHANGED <<topic, is_loaning_available>>

\* rmw_borrow_loaned_message
Borrow(l, s) ==
  /\ is_loaning_available /\ l \in FreeLoans
  /\ loan' = [loan EXCEPT ![l] = Loan("UNINITIALIZED", s)]
  /\ held' = held \cup {Hold(l, "publisher", s)}
  /\ UNCHANGED <<topic, is_loaning_available, obj, serialize_lock, thread, rhc, whc, psmx>>

\* rmw_return_loaned_message_from_publisher and _from_subscription; a caller who
\* looks at the pointer may return what was left in it, too.
GiveBack(h) ==
  /\ is_loaning_available /\ h \in held
  /\ loan' = LoanUnref(h.l)
  /\ held' = held \ {h}
  /\ UNCHANGED <<topic, is_loaning_available, obj, serialize_lock, thread, rhc, whc, psmx>>
ReturnLoan(h) == h.by # "pointer" /\ GiveBack(h)

\* rmw_publish_loaned_message of a message written into a loan:
\* serdata_rmw_from_loaned_sample, which takes the loan over, and the plugin,
\* which delivers it also to the local reader.  Without the need for CDR the
\* sample is not serialized.
PublishLoaned(o, h, cdr) ==
  /\ h \in held /\ h.by = "publisher" /\ o \in FreeObjs
  /\ \E data \in IF cdr THEN {Whole(Content(h.s, Own, FALSE)), Null} ELSE {Null} :
       obj' = [obj EXCEPT ![o] = Object(1, "DATA", h.s, "sample", data, h.l)]
  /\ whc' = whc \cup {o}
  /\ loan' = [loan EXCEPT ![h.l] = [refs |-> 2, state |-> "RAW_DATA", s |-> h.s]]
  /\ psmx' = psmx \cup {h.l}
  /\ held' = held \ {h}
  /\ UNCHANGED <<topic, is_loaning_available, serialize_lock, thread, rhc>>

-----------------------------------------------------------------------------
\* Receiving.

\* serdata_rmw_from_ser: a sample, or only the key of a disposed instance
FromSer(o, s, enc, key) ==
  LET c == Content(s, enc, key)
  IN  Received(o, Object(1, IF key THEN "KEY" ELSE "DATA", s, "ser", Whole(c), None))
  /\ UNCHANGED <<topic, is_loaning_available, loan, serialize_lock, thread, psmx, held>>

\* Another process puts a sample into the plugin: raw if loans are for this
\* type, else serialized.
FromElsewhere(l, s, state) ==
  /\ l \in FreeLoans
  /\ state \in IF is_loaning_available THEN {"RAW_DATA", "RAW_KEY"}
               ELSE {"SERIALIZED_DATA", "SERIALIZED_KEY"}
  /\ loan' = [loan EXCEPT ![l] = Loan(state, s)]
  /\ psmx' = psmx \cup {l}
  /\ UNCHANGED <<topic, is_loaning_available, obj, serialize_lock, thread, rhc, whc, held>>

\* serdata_rmw_from_psmx: refers to a raw sample, copies a serialized one; then
\* the plugin's reference is dropped.
FromPsmx(o, l) ==
  LET state == loan[l].state
      s == loan[l].s
      c == Content(s, Own, Kind(state) = "KEY")
      raw == state \in {"RAW_DATA", "RAW_KEY"}
  IN  /\ l \in psmx
      /\ IF raw
         THEN /\ Received(o, Object(1, Kind(state), s, "sample", Null, l))
              /\ UNCHANGED loan   \* dds_loaned_sample_ref, and the plugin's unref
         ELSE /\ Received(o, Object(1, Kind(state), s, "ser", Whole(c), None))
              /\ loan' = LoanUnref(l)
      /\ psmx' = psmx \ {l}
      /\ UNCHANGED <<topic, is_loaning_available, serialize_lock, thread, held>>

-----------------------------------------------------------------------------
\* Using an object.  A thread in a call has a reference of its own.

Call(t, o, op) == thread' = [thread EXCEPT ![t] = [pc |-> "lock", op |-> op, o |-> o, got |-> Null]]
At(t, pc) == thread[t].pc = pc
Goto(t, pc) == thread' = [thread EXCEPT ![t].pc = pc]
Of(t) == thread[t].o

\* Cyclone sends, or sends again, what the writer's cache has.
Send(t, o) ==
  /\ At(t, "idle") /\ o \in whc
  /\ obj' = [obj EXCEPT ![o].refs = @ + 1]
  /\ Call(t, o, "to_ser_ref")
  /\ UNCHANGED <<topic, is_loaning_available, loan, serialize_lock, rhc, whc, psmx, held>>

\* Every reader has acknowledged the sample.
Ack(o) ==
  /\ o \in whc
  /\ Unref(o)
  /\ whc' = whc \ {o}
  /\ UNCHANGED <<topic, is_loaning_available, serialize_lock, thread, rhc, psmx, held>>

\* rmw_take: dds_take converts with to_sample; rmw_take_ser_int: dds_takecdr
\* hands over the object, which is asked for its size first.
Take(t, o, op) ==
  /\ At(t, "idle") /\ o \in rhc /\ obj[o].kind = "DATA"
  /\ op \in {"to_sample", "size"}
  /\ rhc' = rhc \ {o}
  /\ Call(t, o, op)
  /\ UNCHANGED <<topic, is_loaning_available, obj, loan, serialize_lock, whc, psmx, held>>

\* The loops of the takes: a sample without valid data is dropped.
SkipInvalid(o) ==
  /\ o \in rhc /\ obj[o].kind = "KEY"
  /\ Unref(o)
  /\ rhc' = rhc \ {o}
  /\ UNCHANGED <<topic, is_loaning_available, serialize_lock, thread, whc, psmx, held>>

\* rmw_take_loan_int: dds_take sets the pointer of the caller to the loan the
\* sample came in, or to one it is copied to.  Of a sample without valid data
\* the loop goes on with the pointer as it is.
TakeLoan(o, l) ==
  LET x == obj[o]
      valid == x.kind = "DATA"
      by == IF valid THEN "subscription" ELSE "pointer"
  IN  /\ is_loaning_available /\ o \in rhc
      /\ rhc' = rhc \ {o}
      /\ obj' = ObjectUnref(o)
      /\ IF x.loan # None
         THEN \* one reference more for the application, one less if the object ends
              /\ l = x.loan
              /\ loan' = [loan EXCEPT ![l].refs = IF x.refs = 1 THEN @ ELSE @ + 1]
         ELSE /\ l \in FreeLoans /\ x.data.st = "whole"
              /\ loan' = [loan EXCEPT ![l] = Loan(IF valid THEN "RAW_DATA" ELSE "RAW_KEY", x.data.c.s)]
      /\ held' = held \cup {Hold(l, by, x.s)}
      /\ UNCHANGED <<topic, is_loaning_available, serialize_lock, thread, whc, psmx>>

\* The next dds_take of the loop takes back a loan it finds in the pointer; the
\* call ends with nothing taken, and the pointer still has the loan.
TakeBack(h) == h.by = "pointer" /\ GiveBack(h)
LeaveLoan(h) ==
  /\ h \in held /\ h.by = "pointer"
  /\ held' = (held \ {h}) \cup {Hold(h.l, "left", h.s)}
  /\ UNCHANGED <<topic, is_loaning_available, obj, loan, serialize_lock, thread, rhc, whc, psmx>>

\* serdata_rmw_serialize_into_on_demand: the lock, the test, a buffer, the
\* sample into it.
LockFree(t) ==                                   \* (a variant that gets it wrong)
  /\ At(t, "lock") /\ Goto(t, "check")
  /\ UNCHANGED <<topic, is_loaning_available, obj, loan, serialize_lock, rhc, whc, psmx, held>>
Lock(t) ==
  /\ At(t, "lock") /\ serialize_lock = Nobody
  /\ serialize_lock' = t
  /\ Goto(t, "check")
  /\ UNCHANGED <<topic, is_loaning_available, obj, loan, rhc, whc, psmx, held>>

Check(t) ==
  LET x == obj[Of(t)]
      wanted == x.loan # None /\ x.data = Null
  IN  /\ At(t, "check")
      /\ IF wanted /\ loan[x.loan].state \in {"RAW_DATA", "SERIALIZED_DATA"}
         THEN Goto(t, "resize") /\ UNCHANGED serialize_lock
         ELSE Goto(t, "use") /\ serialize_lock' = Nobody
      /\ UNCHANGED <<topic, is_loaning_available, obj, loan, rhc, whc, psmx, held>>

Resize(t) ==
  /\ At(t, "resize")
  /\ \/ /\ obj' = [obj EXCEPT ![Of(t)].data = Part]
        /\ Goto(t, "fill") /\ UNCHANGED serialize_lock
     \/ /\ obj' = [obj EXCEPT ![Of(t)].oom = TRUE]   \* no memory: the exception is swallowed
        /\ Goto(t, "use") /\ serialize_lock' = Nobody
  /\ UNCHANGED <<topic, is_loaning_available, loan, rhc, whc, psmx, held>>

Fill(t) ==
  /\ At(t, "fill")
  /\ obj' = [obj EXCEPT ![Of(t)].data =
               Whole(Content(loan[obj[Of(t)].loan].s, Own, obj[Of(t)].kind = "KEY"))]
  /\ Goto(t, "use") /\ serialize_lock' = Nobody
  /\ UNCHANGED <<topic, is_loaning_available, loan, rhc, whc, psmx, held>>

\* to_ser_ref: an iovec into the data, with a reference; the call's own ends
ToSerRef(t) ==
  /\ At(t, "use") /\ thread[t].op = "to_ser_ref"
  /\ thread' = [thread EXCEPT ![t].pc = "sending", ![t].got = obj[Of(t)].data]
  /\ UNCHANGED <<topic, is_loaning_available, obj, loan, serialize_lock, rhc, whc, psmx, held>>

\* serdata_rmw_size, then rmw_take_ser_int makes room for so many bytes
Size(t) ==
  /\ At(t, "use") /\ thread[t].op = "size"
  /\ thread' = [thread EXCEPT ![t].pc = "lock", ![t].op = "to_ser", ![t].got = obj[Of(t)].data]
  /\ UNCHANGED <<topic, is_loaning_available, obj, loan, serialize_lock, rhc, whc, psmx, held>>
NoRoom(t) ==
  /\ At(t, "use") /\ thread[t].op = "size"
  /\ thread' = [thread EXCEPT ![t] = Idle]
  /\ Unref(Of(t))
  /\ UNCHANGED <<topic, is_loaning_available, serialize_lock, rhc, whc, psmx, held>>

\* serdata_rmw_to_ser copies as many bytes as the size said, to_sample reads
\* all there are
Copy(t) ==
  /\ At(t, "use") /\ thread[t].op \in {"to_ser", "to_sample"}
  /\ thread' = [thread EXCEPT ![t].pc = "took",
       ![t].got = IF thread[t].op = "to_ser" /\ thread[t].got = Null THEN Null ELSE obj[Of(t)].data]
  /\ UNCHANGED <<topic, is_loaning_available, obj, loan, serialize_lock, rhc, whc, psmx, held>>

\* to_ser_unref, or the take unrefs what it took
Finish(t) ==
  /\ thread[t].pc \in {"sending", "took"}
  /\ Unref(Of(t))
  /\ thread' = [thread EXCEPT ![t] = Idle]
  /\ UNCHANGED <<topic, is_loaning_available, serialize_lock, rhc, whc, psmx, held>>

-----------------------------------------------------------------------------
Arriving(s) ==
  \/ \E o \in FreeObjs :
       \/ Publish(o, s)
       \/ \E enc \in Encodings \cup {Own} :
            PublishSerialized(o, s, enc) \/ \E key \in BOOLEAN : FromSer(o, s, enc, key)
  \/ \E l \in Loans : Borrow(l, s) \/ \E state \in States : FromElsewhere(l, s, state)
Passing ==
  \/ \E h \in held : ReturnLoan(h) \/ TakeBack(h) \/ LeaveLoan(h)
  \/ \E o \in FreeObjs, h \in held, cdr \in BOOLEAN : PublishLoaned(o, h, cdr)
  \/ \E o \in FreeObjs, l \in psmx : FromPsmx(o, l)
OnDemand(t) == Lock(t) \/ Check(t) \/ Resize(t) \/ Fill(t)
Using(t) ==
  \/ \E o \in whc : Send(t, o)
  \/ \E o \in rhc, op \in {"to_sample", "size"} : Take(t, o, op)
  \/ OnDemand(t) \/ ToSerRef(t) \/ Size(t) \/ NoRoom(t) \/ Copy(t) \/ Finish(t)
MayWork(t) == topic \in Busy \/ \A u \in Threads \ {t} : At(u, "idle")
Next ==
  \/ (\E s \in SamplesOf : Arriving(s)) \/ PublishSerializedFails \/ Passing
  \/ \E t \in Threads : MayWork(t) /\ Using(t)
  \/ \E o \in Objs : Ack(o)
  \/ \E o \in rhc : SkipInvalid(o) \/ \E l \in Loans : TakeLoan(o, l)

Spec == Init /\ [][Next]_vars

-----------------------------------------------------------------------------
\* An iovec given out by to_ser_ref points at the data of a live object until
\* to_ser_unref: a whole serialized sample that nobody replaces or frees, though
\* other threads serialize the same object on demand; something else only when
\* memory was refused (serialize_lock and the test of data() at serdata.cpp:166).
ViewsStable ==
  \A t \in Threads : At(t, "sending") =>
    LET x == obj[Of(t)] view == thread[t].got
    IN  /\ x.refs > 0
        /\ IF view.st = "whole" THEN x.data = view ELSE x.oom

\* An object has one reference for each cache it is in and each call that uses
\* it; a loan those of the serdata it is in, of the plugin and of whoever has it
\* outside the middleware, a pointer it was left in included: each is freed when
\* the last of them goes, not before and not twice (from_loaned_sample takes a
\* reference over, from_psmx takes one of its own, free drops one).
Count(b) == IF b THEN 1 ELSE 0
Users(o) == {t \in Threads : ~At(t, "idle") /\ Of(t) = o}
HolderObjs(l) == {o \in Live : obj[o].loan = l}
Holds(l) == {h \in held : h.l = l}
ReferencesExact ==
  /\ \A o \in Objs :
       obj[o].refs = Count(o \in whc) + Count(o \in rhc) + Cardinality(Users(o))
  /\ \A l \in Loans :
       loan[l].refs = Count(l \in psmx) + Cardinality(HolderObjs(l)) + Cardinality(Holds(l))

\* What the application takes is what was published, whoever serialized it and
\* when: a copy, a serialized message or a loan, whose memory stays as it is
\* while the application has it; and it is what print shows.  Only after memory
\* was refused a take may come back with less.
Faithful(c, data, s) ==
  /\ data.st = "whole" /\ data.c.s = s
  /\ c.taken[data.c].ok /\ c.taken[data.c].v = c.sample[s]
  /\ c.printed[data.c] = c.taken[data.c]
TakenIsPublished ==
  /\ \A t \in Threads : At(t, "took") =>
       \/ Faithful(C, thread[t].got, obj[Of(t)].s)
       \/ thread[t].got.st # "whole" /\ obj[Of(t)].oom
  /\ \A h \in held : h.by = "subscription" =>
       loan[h.l].refs > 0 /\ loan[h.l].state = "RAW_DATA" /\ loan[h.l].s = h.s

\* set_key, to_untyped (the same key in an object without a type) and get_keyhash
Key(c, x) == IF x.key = "sample" THEN c.key[x.s] ELSE c.serKey[x.data.c]
Untyped(c, x) == Key(c, x)

\* Two objects have the same key and key hash exactly when their samples have
\* the same values in the key members, whether the key was taken from the
\* sample, from a serialized sample or from a serialized key, of a writer of
\* either language and byte order; and the key gives these values back.  This is
\* not so for messages that the codec alone makes wrong keys of (Miskeyed): see
\* MiskeyedAssumption for what exempts them.
Agree(c, x, y) ==
  LET same == c.keyValue[x.s] = c.keyValue[y.s]
  IN  /\ (Key(c, x) = Untyped(c, y)) <=> same
      /\ (c.hash[Key(c, x)] = c.hash[Key(c, y)]) <=> same
      /\ c.keyTaken[Untyped(c, x)].v = c.keyValue[x.s]
KeysAgree == topic \notin Miskeyed => \A o, p \in Live : Agree(C, obj[o], obj[p])

\* The keys that the codec makes of a sample and extracts from a serialization of
\* it, whole or key only, by whomever, are one key, which gives the values of the
\* key members back; samples share it, and its hash, if and only if they share
\* those values (set_key, get_keyhash).
KeysFaithful(c) ==
  LET KeysOf(s) == {c.key[s]} \cup {c.serKey[d] : d \in {e \in Contents : e.s = s}}
  IN  \A s, r \in DOMAIN c.sample : \A k \in KeysOf(s), m \in KeysOf(r) :
        LET same == c.keyValue[s] = c.keyValue[r]
        IN  /\ k = m <=> same
            /\ c.hash[k] = c.hash[m] <=> same
            /\ c.keyTaken[k].v = c.keyValue[s]
ASSUME MiskeyedAssumption == \A tp \in Topics \cap Miskeyed : ~KeysFaithful(Codec[tp])

\* A sample or key never takes more bytes than get_serialized_size announced:
\* neither the buffer of resize nor the one for the key is overrun.  A key hash
\* that is the key itself fits its 16 bytes.
Fits(c, x) ==
  /\ \A key \in BOOLEAN : c.written[x.s][key] <= c.announced[x.s][key]
  /\ LET hash == c.hash[Key(c, x)] IN hash.md5 \/ Len(hash.b) <= 16
BufferFits == \A o \in Live : Fits(C, obj[o])
=============================================================================
