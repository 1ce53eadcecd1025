------------------------------ MODULE Sertype ------------------------------
(***************************************************************************)
(* What a serdata gets from its sertype (serdata.cpp): the bytes of a      *)
(* sample, its key, the hash of the key and back.  A sertype st is         *)
(* [t, req]: the root value type and whether requests carry a header.      *)
(* Pure operators over the codec of module Cdr.                            *)
(***************************************************************************)
EXTENDS Cdr

\* create_sertype.  An array leaves its is_self_contained flag unwritten, so
\* the sertype may or may not claim that samples can be copied with memcpy.
SertypeOf(msg, cpp, req) == [t |-> StructType(msg, cpp), req |-> req]
IsMemcpySafe(st) == IsSelfContained(st.t)
ContainsKey(st) == HasKeys(st.t)

\* What rmw_publish and friends may be given by the application: a request is
\* wrapped in the header of its client.
Wrapped(st, v) == IF st.req THEN <<101, 102, v>> ELSE v

\* resize and serialize: the buffer has the announced size, rounded up to a
\* multiple of 4 with zeros; what serialize does not reach stays unwritten.
Times(n, byte) == IF n < 0 THEN <<>> ELSE [i \in 1 .. n |-> byte]
Resized(ser, size) ==
  [ser EXCEPT !.b = @ \o Times(size - 4 - Len(@), Junk) \o Times(Padding(size, 4), <<0, 1, 1>>)]
SerializeInto(st, v, key) ==
  Resized(SerializeTop(v, st.t, st.req, key), GetSerializedSize(v, st.t, st.req, key))

\* The key of a sample in a zeroed buffer of the announced size, and of the
\* serialized form.
NoKey == [le |-> TRUE, b |-> <<>>]
Zeroed(ser, size) == [ser EXCEPT !.b = @ \o Times(size - 4 - Len(@), <<0, 1, 1>>)]
KeyFromSample(st, v) ==
  IF ~ContainsKey(st) THEN NoKey
  ELSE Zeroed(SerializeTop(v, st.t, st.req, TRUE), GetSerializedSize(v, st.t, st.req, TRUE))
NativeOnly(st, ser, key) ==                      \* (a variant that gets it wrong)
  ExtractKeyTop([ser EXCEPT !.le = TRUE], st.t, st.req, key, FALSE)
KeyFromSer(st, ser, key) == ExtractKeyTop(ser, st.t, st.req, key, FALSE)

\* get_keyhash: the key in big-endian form as it is when no key of the type can
\* be longer than 16 bytes after the encoding header, else its MD5.
Fits16(max) == max # SizeMax /\ max <= 20
Keyhash(st, key) ==
  [md5 |-> ContainsKey(st) /\ ~Fits16(SizeBoundTop(st.t, st.req, TRUE, TRUE)),
   b |-> ExtractKeyTop(key, st.t, st.req, TRUE, TRUE).b]

\* to_sample and print: the sample in the serialized form, or in the key for a
\* serdata without a type.
ToSample(st, ser, key) == ReadTop(ser, st.t, st.req, key, TRUE)
Printed(st, ser, key) == ReadTop(ser, st.t, st.req, key, FALSE)
=============================================================================
