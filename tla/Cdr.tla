-------------------------------- MODULE Cdr --------------------------------
(***************************************************************************)
(* The CDR codec of rmw_cyclonedds_cpp: the value types built from the     *)
(* introspection of a message (TypeSupport2), the test whether a value can *)
(* be copied as it lies in memory (trivsercache.hpp), the writer, its size *)
(* bounds and the reader with its three uses: deserialize, print and       *)
(* extractkey (Serialization.cpp).  Pure operators, no state.              *)
(*                                                                         *)
(* A byte is a triple <<v, i, n>>: the i-th of the n bytes of the scalar v *)
(* in the order of this (little-endian) machine.  Bytes that are equal in  *)
(* the code may differ here; bytes that differ never coincide.             *)
(***************************************************************************)
EXTENDS Integers, Sequences, SequencesExt

\* UINT32_MAX, scaled down: far above every length that occurs.
UMax == 1000000
\* SIZE_MAX: the answer when a type has no bound.
SizeMax == -1
\* A scalar whose bytes do not belong together, and the padding inside a struct.
Garbled == -1
Junk == <<Garbled, 0, 0>>

Native(v, n) == [i \in 1 .. n |-> <<v, i, n>>]
Scalar(bs) == IF bs = Native(bs[1][1], Len(bs)) THEN bs[1][1] ELSE Garbled
\* What align() skips to reach a multiple of n from offset p.
Padding(p, n) == (n - (p % n)) % n

-----------------------------------------------------------------------------
\* The value types.
Prim(n) == [k |-> "prim", n |-> n]

\* sizeof and alignment in memory; those of strings and sequences only place
\* what follows them.
RECURSIVE SizeofType(_), AlignofType(_)
SizeofType(t) ==
  CASE t.k = "prim" -> t.n
    [] t.k = "array" -> t.n * SizeofType(t.e)
    [] t.k = "struct" -> t.size
    [] OTHER -> 24
AlignofType(t) ==
  CASE t.k = "prim" -> t.n
    [] t.k = "array" -> AlignofType(t.e)
    [] t.k = "struct" -> Max({AlignofType(t.m[i].t) : i \in DOMAIN t.m})
    [] OTHER -> 8

\* The introspection of a message, [k |-> "msg", m |-> members], gives each
\* member its offset: the layout of the compiler.
Placed(members) ==
  LET Place(acc, m) ==
        LET off == acc.size + Padding(acc.size, AlignofType(m.t))
        IN  [m |-> Append(acc.m, [t |-> m.t, off |-> off, key |-> m.key]),
             size |-> off + SizeofType(m.t)]
      all == FoldLeft(Place, [m |-> <<>>, size |-> 0], members)
      algn == Max({AlignofType(members[i].t) : i \in DOMAIN members})
  IN  [k |-> "struct", m |-> all.m, size |-> all.size + Padding(all.size, algn)]

\* ROSIDLC_StructValueType and ROSIDLCPP_StructValueType.
RECURSIVE StructType(_, _)
StructType(msg, cpp) ==
  LET Element(b) == CASE b.k = "msg" -> StructType(b, cpp)
                      [] b.k = "bool" -> Prim(1)
                      [] OTHER -> b
      Bound(d) == IF d.n # 0 /\ d.upper THEN d.n ELSE UMax
      Value(d) ==
        CASE ~d.array -> Element(d.b)
          [] d.array /\ d.n # 0 /\ ~d.upper -> [k |-> "array", e |-> Element(d.b), n |-> d.n]
          [] d.array /\ (d.n = 0 \/ d.upper) /\ d.b.k = "bool" /\ cpp ->
               [k |-> "bools", bound |-> Bound(d)]
          [] OTHER -> [k |-> "seq", e |-> Element(d.b), bound |-> Bound(d)]
  IN  Placed([i \in DOMAIN msg.m |-> [t |-> Value(msg.m[i]), key |-> msg.m[i].key]])

HasKeys(t) == \E i \in DOMAIN t.m : t.m[i].key

\* The outcomes of is_self_contained(): the flag of an array is never written.
RECURSIVE IsSelfContained(_)
IsSelfContained(t) ==
  CASE t.k = "prim" -> {TRUE}
    [] t.k = "array" -> BOOLEAN
    [] t.k = "struct" ->
         IF \E i \in DOMAIN t.m : IsSelfContained(t.m[i].t) = {FALSE} THEN {FALSE}
         ELSE UNION {IsSelfContained(t.m[i].t) : i \in DOMAIN t.m}
    [] OTHER -> {FALSE}

-----------------------------------------------------------------------------
\* A value of type t written from an offset congruent to a (mod 8) is a copy of
\* its memory.
RECURSIVE Trivial(_, _)
Trivial(a, t) ==
  CASE t.k = "prim" -> a % t.n = 0
    [] t.k = "array" -> Trivial(a % 8, t.e) /\ Trivial((a + SizeofType(t.e)) % 8, t.e)
    [] t.k = "struct" ->
         LET end(i) == IF i = 0 THEN 0 ELSE t.m[i].off + SizeofType(t.m[i].t)
         IN  /\ \A i \in DOMAIN t.m : /\ t.m[i].off = end(i - 1)
                                      /\ Trivial((a + t.m[i].off) % 8, t.m[i].t)
             /\ end(Len(t.m)) = t.size
    [] OTHER -> FALSE

\* lookup_many_trivially_serialized: this element and the one after it.
TrivialMany(a, t) == Trivial(a % 8, t) /\ Trivial((a + SizeofType(t)) % 8, t)

\* The memory of a value, and the value in a piece of memory.
RECURSIVE Image(_, _), FromImage(_, _)
Image(t, v) ==
  CASE t.k = "prim" -> Native(v, t.n)
    [] t.k = "array" -> FlattenSeq([i \in DOMAIN v |-> Image(t.e, v[i])])
    [] t.k = "struct" ->
         LET at(j) == {i \in DOMAIN t.m : t.m[i].off < j /\ j <= t.m[i].off + SizeofType(t.m[i].t)}
         IN  [j \in 1 .. t.size |->
                IF at(j) = {} THEN Junk
                ELSE LET i == CHOOSE i \in at(j) : TRUE
                     IN  Image(t.m[i].t, v[i])[j - t.m[i].off]]
    [] OTHER -> [j \in 1 .. SizeofType(t) |-> Junk]
FromImage(t, bs) ==
  LET Piece(from, n) == SubSeq(bs, from + 1, from + n)
  IN  CASE t.k = "prim" -> Scalar(bs)
        [] t.k = "array" ->
             LET n == SizeofType(t.e)
             IN  [i \in 1 .. t.n |-> FromImage(t.e, Piece((i - 1) * n, n))]
        [] t.k = "struct" ->
             [i \in DOMAIN t.m |-> FromImage(t.m[i].t, Piece(t.m[i].off, SizeofType(t.m[i].t)))]
        [] OTHER -> <<>>

-----------------------------------------------------------------------------
\* CDRWriter.  out is what follows the encoding header: offsets count from there.
Align(out, n) == out \o [i \in 1 .. Padding(Len(out), n) |-> <<0, 1, 1>>]
PutU32(out, v) == Align(out, 4) \o Native(v, 4)

\* The members serialized: in a key of a struct that has keys, only those.
Members(t, key) ==
  SelectSeq([i \in DOMAIN t.m |-> i], LAMBDA i : ~key \/ ~HasKeys(t) \/ t.m[i].key)

RECURSIVE Serialize(_, _, _, _), SerializeMany(_, _, _, _)
Serialize(out, v, t, key) ==
  IF ~key /\ Trivial(Len(out) % 8, t) THEN out \o Image(t, v)
  ELSE CASE t.k = "prim" -> Align(out, t.n) \o Native(v, t.n)
         [] t.k = "str" ->
              PutU32(out, Len(v) + 1) \o [i \in DOMAIN v |-> <<v[i], 1, 1>>] \o Native(0, 1)
         [] t.k = "wstr" ->
              PutU32(out, 2 * Len(v)) \o FlattenSeq([i \in DOMAIN v |-> Native(v[i], 2)])
         [] t.k = "bools" -> PutU32(out, Len(v)) \o [i \in DOMAIN v |-> <<v[i], 1, 1>>]
         [] t.k = "array" -> SerializeMany(out, v, t.e, key)
         [] t.k = "seq" -> SerializeMany(PutU32(out, Len(v)), v, t.e, key)
         [] t.k = "struct" ->
              FoldLeft(LAMBDA o, i : Serialize(o, v[i], t.m[i].t, key), out, Members(t, key))
SerializeMany(out, vs, t, key) ==
  IF vs = <<>> THEN out
  ELSE LET first == Serialize(out, Head(vs), t, key)
           rest == Tail(vs)
       IN  IF rest # <<>> /\ TrivialMany(Len(first), t)
           THEN first \o FlattenSeq([i \in DOMAIN rest |-> Image(t, rest[i])])
           ELSE FoldLeft(LAMBDA o, v : Serialize(o, v, t, key), first, rest)

\* serialize_top_level: le tells the byte order in the encoding header.  The
\* sample of a request is <<guid, seq, data>>; a key has no such header.
SerializeTop(v, t, req, key) ==
  LET wrapped == req /\ ~key
      header == IF wrapped THEN Native(v[1], 8) \o Native(v[2], 8) ELSE <<>>
      data == IF wrapped THEN v[3] ELSE v
  IN  [le |-> TRUE,
       b |-> IF ~key \/ HasKeys(t) THEN Serialize(header, data, t, key) ELSE header]

\* What the same code produces on a machine of the other byte order.
OtherEndian(ser) ==
  [le |-> ~ser.le, b |-> [j \in DOMAIN ser.b |->
     <<ser.b[j][1], ser.b[j][3] + 1 - ser.b[j][2], ser.b[j][3]>>]]

-----------------------------------------------------------------------------
\* The bounds: offset after a value written at offset p, SizeMax when it is
\* larger than UMax (CheckingSizeCursor throws) or not bounded.
Advance(p, n) == IF p = SizeMax \/ UMax - p < n THEN SizeMax ELSE p + n
AlignBound(p, n) == IF p = SizeMax THEN p ELSE Advance(p, Padding(p, n))

RECURSIVE SizeBound(_, _, _, _), SizeBoundMany(_, _, _, _, _)
SizeBound(p, t, key, max) ==
  LET counted == Advance(AlignBound(p, 4), 4)
      count == IF max THEN t.bound ELSE 0
  IN  CASE t.k = "prim" -> Advance(AlignBound(p, t.n), t.n)
        [] t.k = "str" -> Advance(Advance(counted, IF max THEN UMax - 1 ELSE 0), 1)
        [] t.k = "wstr" -> Advance(counted, IF max THEN 2 * (UMax \div 2) ELSE 0)
        [] t.k = "bools" -> Advance(counted, count)
        [] t.k = "array" -> SizeBoundMany(p, t.n, t.e, key, max)
        [] t.k = "seq" -> SizeBoundMany(counted, count, t.e, key, max)
        [] t.k = "struct" ->
             FoldLeft(LAMBDA q, i : SizeBound(q, t.m[i].t, key, max), p, Members(t, key))
SizeBoundMany(p, count, t, key, max) ==
  IF count = 0 THEN p
  ELSE IF count >= UMax THEN SizeMax
  ELSE LET first == SizeBound(p, t, key, max)
           second == SizeBound(first, t, key, max)
       IN  IF count = 1 \/ first = SizeMax \/ second = SizeMax
           THEN IF count = 1 THEN first ELSE SizeMax
           \* count more elements: the two above are counted again
           ELSE Advance(second, count * (second - first))

\* get_min_serialized_size, get_max_serialized_size: with the encoding header.
NoRequestHeader(t, req, key, max) ==             \* (a variant that gets it wrong)
  LET q == IF ~key \/ HasKeys(t) THEN SizeBound(0, t, key, max) ELSE 0
  IN  IF q = SizeMax THEN SizeMax ELSE 4 + q
SizeBoundTop(t, req, key, max) ==
  LET p == IF ~key /\ req THEN 16 ELSE 0
      q == IF ~key \/ HasKeys(t) THEN SizeBound(p, t, key, max) ELSE p
  IN  IF q = SizeMax THEN SizeMax ELSE 4 + q

GetSerializedSize(v, t, req, key) ==
  LET max == SizeBoundTop(t, req, key, TRUE)
  IN  IF SizeBoundTop(t, req, key, FALSE) = max THEN max
      ELSE 4 + Len(SerializeTop(v, t, req, key).b)

-----------------------------------------------------------------------------
(***************************************************************************)
(* CDRReader.  A reading is [ok, p, v]: whether no exception was thrown,   *)
(* the offset reached and the value read.  A key reader leaves the members *)
(* that are not part of the key alone: Untouched.                          *)
(***************************************************************************)
Thrown == [ok |-> FALSE, p |-> 0, v |-> <<>>]
Reading(p, v) == [ok |-> TRUE, p |-> p, v |-> v]
Untouched == <<>>

\* Go on after a reading, unless it threw.
Then(r, next(_, _)) == IF r.ok THEN next(r.p, r.v) ELSE Thrown
Checked(ok, reading) == IF ok THEN reading ELSE Thrown

\* The n bytes at offset p; swapped when the sender has the other byte order.
GetBytes(in, p, n) == Checked(n >= 0 /\ p + n <= Len(in), Reading(p + n, SubSeq(in, p + 1, p + n)))
NeverSwapped(in, p, n, swap) ==                  \* (a variant that gets it wrong)
  Then(GetBytes(in, p + Padding(p, n), n), LAMBDA q, bs : Reading(q, Scalar(bs)))
ReadScalar(in, p, n, swap) ==
  Then(GetBytes(in, p + Padding(p, n), n),
       LAMBDA q, bs : Reading(q, Scalar(IF swap THEN Reverse(bs) ELSE bs)))
\* A length, and as many times n bytes.
ReadBlock(in, p, n, swap) ==
  Then(ReadScalar(in, p, 4, swap), LAMBDA q, size : GetBytes(in, q, n * size))

\* Read count values one after the other with op(p).
ReadEach(op(_), p, count) ==
  FoldLeft(LAMBDA acc, i : Then(acc, LAMBDA q, vs :
             Then(op(q), LAMBDA e, v : Reading(e, Append(vs, v)))),
           Reading(p, <<>>), [i \in 1 .. count |-> i])

\* A string and its terminator, a wide string: their bytes after the length.
ReadString(in, p, swap) ==
  Then(ReadBlock(in, p, 1, swap), LAMBDA q, chars :
    Checked(chars # <<>> /\ Last(chars) = <<0, 1, 1>>, Reading(q, chars)))
ReadWString(in, p, swap) ==
  Then(ReadBlock(in, p, 1, swap), LAMBDA q, chars : Checked(Len(chars) % 2 = 0, Reading(q, chars)))
WChar(bytes, i, swap) ==
  LET c == SubSeq(bytes, 2 * i - 1, 2 * i) IN IF swap THEN Reverse(c) ELSE c

\* deserialize (fast) and print (not fast: without the memory shortcuts).
RECURSIVE Deserialize(_, _, _, _, _, _), DeserializeMany(_, _, _, _, _, _, _)
Deserialize(in, p, t, key, swap, fast) ==
  IF fast /\ ~swap /\ ~key /\ Trivial(p % 8, t)
  THEN Then(GetBytes(in, p, SizeofType(t)), LAMBDA q, bs : Reading(q, FromImage(t, bs)))
  ELSE CASE t.k = "prim" -> ReadScalar(in, p, t.n, swap)
         [] t.k = "str" ->
              Then(ReadString(in, p, swap), LAMBDA q, bs :
                Reading(q, [i \in 1 .. Len(bs) - 1 |-> bs[i][1]]))
         [] t.k = "wstr" ->
              Then(ReadWString(in, p, swap), LAMBDA q, bs :
                Reading(q, [i \in 1 .. Len(bs) \div 2 |-> Scalar(WChar(bs, i, swap))]))
         [] t.k = "bools" ->
              Then(ReadBlock(in, p, 1, swap), LAMBDA q, bs :
                Reading(q, [i \in DOMAIN bs |-> IF bs[i][1] # 0 THEN 1 ELSE 0]))
         [] t.k = "array" -> DeserializeMany(in, p, t.n, t.e, key, swap, fast)
         [] t.k = "seq" ->
              Then(ReadScalar(in, p, 4, swap), LAMBDA q, count :
                Checked(count >= 0, DeserializeMany(in, q, count, t.e, key, swap, fast)))
         [] t.k = "struct" ->
              LET read == Members(t, key)
                  member(q, i) == IF Contains(read, i)
                                  THEN Deserialize(in, q, t.m[i].t, key, swap, fast)
                                  ELSE Reading(q, Untouched)
              IN  FoldLeft(LAMBDA acc, i : Then(acc, LAMBDA q, vs :
                             Then(member(q, i), LAMBDA e, v : Reading(e, Append(vs, v)))),
                           Reading(p, <<>>), [i \in DOMAIN t.m |-> i])
DeserializeMany(in, p, count, t, key, swap, fast) ==
  LET n == SizeofType(t)
      one(q) == Deserialize(in, q, t, key, swap, fast)
      Copies(v, bs) ==
        <<v>> \o [i \in 1 .. count - 1 |-> FromImage(t, SubSeq(bs, (i - 1) * n + 1, i * n))]
  IN  IF count = 0 THEN Reading(p, <<>>)
      ELSE Then(one(p), LAMBDA q, first :
             IF fast /\ ~swap /\ count > 1 /\ TrivialMany(q, t)
             THEN Then(GetBytes(in, q, (count - 1) * n), LAMBDA e, bs : Reading(e, Copies(first, bs)))
             ELSE Then(ReadEach(one, q, count - 1), LAMBDA e, vs : Reading(e, <<first>> \o vs)))

\* print walks through all members; what it writes, up to a limit, is left out.
Walk(in, p, t, key, swap) == Deserialize(in, p, t, key, swap, FALSE)

\* deserialize_top_level, print_top_level.
Joined(guid, seq, data) ==
  Checked(guid.ok /\ seq.ok /\ data.ok, Reading(data.p, <<guid.v, seq.v, data.v>>))
ReadTop(ser, t, req, key, fast) ==
  LET swap == ~ser.le
      wrapped == ~key /\ req
      p == IF wrapped THEN 16 ELSE 0
      data == IF fast THEN Deserialize(ser.b, p, t, key, swap, TRUE)
              ELSE Walk(ser.b, p, t, key, swap)
  IN  CASE wrapped -> Joined(ReadScalar(ser.b, 0, 8, swap), ReadScalar(ser.b, 8, 8, swap), data)
        [] key /\ ~HasKeys(t) -> Reading(0, Untouched)
        [] OTHER -> data

-----------------------------------------------------------------------------
(***************************************************************************)
(* extractkey: copies the key members from in to out, both from their own  *)
(* offset, swapping what was written in the other byte order (bs) and what *)
(* is to be written in it (bd).  mode is "Sample" (in is a sample), "Key"  *)
(* or "Skip".  v is the output.                                            *)
(***************************************************************************)
Copied(out, bs, swap) == out \o (IF swap THEN Reverse(bs) ELSE bs)

RECURSIVE ExtractKey(_, _, _, _, _, _, _), ExtractKeyMany(_, _, _, _, _, _, _, _)
ExtractKey(in, p, out, t, mode, bs, bd) ==
  LET skip == mode = "Skip"
      Length(n) == IF skip THEN out ELSE Copied(Align(out, 4), Native(n, 4), bd)
      \* a length, and the bytes read after it
      Counted(q, bytes) == Reading(q, IF skip THEN out ELSE Length(Len(bytes)) \o bytes)
  IN
  IF skip /\ Trivial(p % 8, t)
  THEN Then(GetBytes(in, p, SizeofType(t)), LAMBDA q, v : Reading(q, out))
  ELSE CASE t.k = "prim" ->
              Then(GetBytes(in, p + Padding(p, t.n), t.n), LAMBDA q, v :
                Reading(q, IF skip THEN out ELSE Copied(Align(out, t.n), v, bs # bd)))
         [] t.k = "str" -> Then(ReadString(in, p, bs), Counted)
         [] t.k = "wstr" ->
              Then(ReadWString(in, p, bs), LAMBDA q, v :
                Counted(q, FlattenSeq([i \in 1 .. Len(v) \div 2 |-> WChar(v, i, bs)])))
         [] t.k = "bools" -> Then(ReadBlock(in, p, 1, bs), Counted)
         [] t.k = "array" -> ExtractKeyMany(in, p, out, t.n, t.e, mode, bs, bd)
         [] t.k = "seq" ->
              Then(ReadScalar(in, p, 4, bs), LAMBDA q, count :
                Checked(count >= 0, ExtractKeyMany(in, q, Length(count), count, t.e, mode, bs, bd)))
         [] t.k = "struct" ->
              LET isKey(i) == t.m[i].key \/ ~HasKeys(t)
                  members == SelectSeq([i \in DOMAIN t.m |-> i], LAMBDA i : mode # "Key" \/ isKey(i))
              IN  FoldLeft(LAMBDA acc, i : Then(acc, LAMBDA q, o :
                             ExtractKey(in, q, o, t.m[i].t, IF isKey(i) THEN mode ELSE "Skip", bs, bd)),
                           Reading(p, out), members)
ExtractKeyMany(in, p, out, count, t, mode, bs, bd) ==
  LET one(q, o) == ExtractKey(in, q, o, t, mode, bs, bd)
  IN  IF count = 0 THEN Reading(p, out)
      ELSE Then(one(p, out), LAMBDA q, o :
             IF ~(bs \/ bd) /\ count > 1 /\ TrivialMany(q, t)
             THEN Then(GetBytes(in, q, (count - 1) * SizeofType(t)), LAMBDA e, others :
                    Reading(e, IF mode = "Skip" THEN o ELSE o \o others))
             ELSE FoldLeft(LAMBDA acc, i : Then(acc, one), Reading(q, o), [i \in 1 .. count - 1 |-> i]))

\* extractkey_top_level; be: to big-endian.  Nothing when there is no key or an
\* exception was thrown.  The 8 bytes skipped in a sample of a request are half
\* of its header.
Extracted(r) == IF r.ok THEN r.v ELSE <<>>
ExtractKeyTop(ser, t, req, key, be) ==
  [le |-> ~be,
   b |-> IF ~HasKeys(t) THEN <<>>
         ELSE Extracted(ExtractKey(ser.b, IF ~key /\ req THEN 8 ELSE 0, <<>>, t,
                                   IF key THEN "Key" ELSE "Sample", ~ser.le, be))]
=============================================================================
