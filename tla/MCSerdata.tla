----------------------------- MODULE MCSerdata -----------------------------
(***************************************************************************)
(* Small instances of Serdata: message types with samples, and the tables  *)
(* of their sertypes.  Codec is computed by module Sertype.                *)
(***************************************************************************)
EXTENDS Serdata, Sertype, TLC

\* Members of a message: plain, array, sequence and bounded sequence.
M(b, key) == [b |-> b, array |-> FALSE, n |-> 0, upper |-> FALSE, key |-> key]
Arr(b, n, key) == [b |-> b, array |-> TRUE, n |-> n, upper |-> FALSE, key |-> key]
Sequ(b, key) == [b |-> b, array |-> TRUE, n |-> 0, upper |-> FALSE, key |-> key]
Bounded(b, n, key) == [b |-> b, array |-> TRUE, n |-> n, upper |-> TRUE, key |-> key]
Msg(ms) == [k |-> "msg", m |-> ms]
Str == [k |-> "str"]
WStr == [k |-> "wstr"]
Bool == [k |-> "bool"]

Pod == Msg(<<M(Prim(1), FALSE), M(Prim(1), FALSE), M(Prim(2), FALSE)>>)
Wide == Msg(<<M(Prim(8), FALSE), M(Prim(4), FALSE), M(Prim(4), FALSE)>>)
Ragged == Msg(<<M(Prim(4), FALSE), M(Prim(1), FALSE)>>)
Keyed == Msg(<<M(Prim(4), TRUE), M(Prim(1), FALSE)>>)

Half == Msg(<<M(Prim(4), TRUE), M(Msg(<<M(Prim(4), FALSE)>>), FALSE)>>)

Messages ==
  [point |-> Msg(<<M(Prim(8), FALSE), Arr(Prim(4), 2, FALSE)>>),
   tree  |-> Msg(<<M(Keyed, TRUE), M(Prim(2), FALSE), M(Pod, TRUE), Sequ(Keyed, FALSE)>>),
   texts |-> Msg(<<M(Str, TRUE), M(Prim(2), FALSE), M(WStr, TRUE), Arr(Bool, 2, FALSE),
                   Bounded(Bool, 3, FALSE), Sequ(Bool, TRUE), M(Prim(8), TRUE)>>),
   parts |-> Msg(<<Sequ(Str, TRUE), Arr(Pod, 3, FALSE), Sequ(Ragged, FALSE), Sequ(Wide, FALSE),
                   M(Prim(1), TRUE), Sequ(Wide, TRUE)>>),
   query |-> Msg(<<M(Prim(1), FALSE), Sequ(Wide, FALSE), M(Str, FALSE)>>),
   grid  |-> Msg(<<Arr(Prim(4), 2, TRUE), M(Prim(1), FALSE)>>),
   list  |-> Msg(<<M(Prim(1), FALSE), Sequ(Half, TRUE)>>),
   call  |-> Half]

\* The code gets these keys wrong: an array of elements of a fixed size, a sequence
\* of structs without padding of which only a part is key, and a request's.
MCMiskeyed == {"grid", "list", "call"}

\* A value of type b with scalars that depend on two seeds, k in the members of
\* the key and r in the others; so does the length of a string or sequence.
Keys(msg) == {i \in DOMAIN msg.m : msg.m[i].key}
RECURSIVE Value(_, _, _)
Value(b, k, r) ==
  LET count(d, seed) == IF ~d.upper /\ d.n # 0 THEN d.n
                        ELSE IF d.upper THEN (seed + 1) % (d.n + 1) ELSE (seed + 1) % 4
      member(i) ==
        LET d == b.m[i]
            ks == IF d.key \/ Keys(b) = {} THEN k ELSE r
            rs == IF Keys(b) = {} THEN k ELSE r
        IN  IF ~d.array THEN Value(d.b, ks + 10 * i, rs + 10 * i)
            ELSE [j \in 1 .. count(d, ks) |-> Value(d.b, ks + 10 * i + j, rs + 10 * i + j)]
  IN  CASE b.k = "prim" -> k
        [] b.k = "bool" -> k % 2
        [] b.k \in {"str", "wstr"} -> [i \in 1 .. k % 3 |-> k + i]
        [] b.k = "msg" -> [i \in DOMAIN b.m |-> member(i)]

\* The values of the key members, the others untouched: what a key stands for.
RECURSIVE KeyPart(_, _)
KeyPart(b, v) ==
  IF b.k # "msg" THEN v
  ELSE IF Keys(b) = {} THEN v
  ELSE [i \in DOMAIN b.m |->
          IF ~b.m[i].key THEN Untouched
          ELSE IF b.m[i].array THEN [j \in DOMAIN v[i] |-> KeyPart(b.m[i].b, v[i][j])]
          ELSE KeyPart(b.m[i].b, v[i])]

\* Samples: the seeds of the key and of the rest.
MCSamples == {<<1, 1>>, <<1, 2>>, <<2, 2>>}
SamplesFor(msg) == IF Keys(msg) = {} THEN {<<1, 1>>, <<2, 2>>} ELSE Samples

\* A function by its values: TLC computes a table only once.
Table(f) == f @@ <<>>

\* This process uses the C++ introspection; the other way to serialize is that
\* of a C process on a machine of the other byte order.
Serialized(st, stC, c, v) ==
  IF c.enc = Own THEN SerializeInto(st, v, c.key) ELSE OtherEndian(SerializeInto(stC, v, c.key))
KeyTables(st, keys) ==
  [hash |-> Table([k \in keys |-> Keyhash(st, k)]),
   keyTaken |-> Table([k \in keys |-> ToSample(st, k, TRUE)])]
Tables(msg, st, value, ser, key, serKey) ==
  [memcpySafe |-> IsMemcpySafe(st),
   sample |-> value,
   keyValue |-> Table([s \in DOMAIN value |->
     IF Keys(msg) = {} THEN Untouched ELSE KeyPart(msg, Value(msg, s[1], s[2]))]),
   key |-> key, serKey |-> serKey,
   taken |-> Table([c \in DOMAIN ser |-> ToSample(st, ser[c], c.key)]),
   printed |-> Table([c \in DOMAIN ser |-> Printed(st, ser[c], c.key)]),
   announced |-> Table([s \in DOMAIN value |->
     Table([k \in BOOLEAN |-> GetSerializedSize(value[s], st.t, st.req, k)])]),
   written |-> Table([s \in DOMAIN value |->
     Table([k \in BOOLEAN |-> 4 + Len(SerializeTop(value[s], st.t, st.req, k).b)])])]
  @@ KeyTables(st, {key[s] : s \in DOMAIN value} \cup {serKey[c] : c \in DOMAIN ser})
WithSer(msg, st, value, ser) ==
  Tables(msg, st, value, ser, Table([s \in DOMAIN value |-> KeyFromSample(st, value[s])]),
         Table([c \in DOMAIN ser |-> KeyFromSer(st, ser[c], c.key)]))
WithValues(msg, st, stC, value) ==
  WithSer(msg, st, value, Table([c \in {d \in Contents : d.s \in DOMAIN value} |->
                                   Serialized(st, stC, c, value[c.s])]))
WithTypes(msg, st, stC) ==
  WithValues(msg, st, stC,
             Table([s \in SamplesFor(msg) |-> Wrapped(st, Value(msg, s[1], s[2]))]))
CodecOf(msg, req) == WithTypes(msg, SertypeOf(msg, TRUE, req), SertypeOf(msg, FALSE, req))
\* The topics "query" and "call" carry requests.
Codecs ==
  Table([tp \in DOMAIN Messages |-> CodecOf(Messages[tp], tp \in {"query", "call"})])
MCCodec == Codecs

MCTopics == DOMAIN Messages
MCBusy == {"point"}
Symmetry == Permutations(Threads) \cup Permutations(Objs) \cup Permutations(Loans)
=============================================================================
