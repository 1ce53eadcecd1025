---------------------------- MODULE NamesProofs ----------------------------
(***************************************************************************)
(* What is proved about the conversions of Names for every name.           *)
(***************************************************************************)
EXTENDS Names, SequenceTheorems, TLAPS

-----------------------------------------------------------------------------
(***************************************************************************)
(* The three kinds of DDS topics.                                          *)
(***************************************************************************)
\* a sequence of one element
LEMMA One ==
  ASSUME NEW S, NEW w \in S
  PROVE  <<w>> \in Seq(S) /\ Len(<<w>>) = 1 /\ <<w>>[1] = w /\ DOMAIN <<w>> = 1..1
OBVIOUS

\* one sequence after the other
LEMMA Joined ==
  ASSUME NEW S, NEW s \in Seq(S), NEW t \in Seq(S)
  PROVE  /\ s \o t \in Seq(S) /\ Len(s \o t) = Len(s) + Len(t)
         /\ \A i \in 1..Len(s) : (s \o t)[i] = s[i]
         /\ \A i \in 1..Len(t) : (s \o t)[Len(s) + i] = t[i]
<1>1. s \o t \in Seq(S) /\ Len(s \o t) = Len(s) + Len(t)
  BY ConcatProperties
<1>2. Len(s) \in Nat /\ Len(t) \in Nat
  OBVIOUS
<1>3. ASSUME NEW i \in 1..Len(s) PROVE (s \o t)[i] = s[i]
  <2>1. i \in 1..(Len(s) + Len(t)) /\ i <= Len(s)
    BY <1>2
  <2> QED
    BY <2>1, ConcatProperties
<1>4. ASSUME NEW i \in 1..Len(t) PROVE (s \o t)[Len(s) + i] = t[i]
  <2>1. /\ Len(s) + i \in 1..(Len(s) + Len(t)) /\ ~(Len(s) + i <= Len(s))
        /\ Len(s) + i - Len(s) = i
    BY <1>2
  <2> QED
    BY <2>1, ConcatProperties
<1> QED
  BY <1>1, <1>3, <1>4

\* all tokens, the words the conversions look for named
Markers == {"rt", "rq", "rr", "Request", "Reply"}
Tokens == STRING \cup Markers
\* a qualified name is a sequence of tokens
LEMMA QualifiedType ==
  ASSUME NEW name, Qualified(name)
  PROVE  name \in Seq(Tokens) /\ name # <<>> /\ name[1] = "/"
<1>1. STRING \subseteq Tokens
  BY DEF Tokens
<1>2. Seq(STRING) \subseteq Seq(Tokens)
  BY <1>1, SeqMonotonic
<1> QED
  BY <1>2 DEF Qualified

\* the parts of a topic: the prefix, the name and the suffix
LEMMA TopicParts ==
  ASSUME NEW name, Qualified(name), NEW prefix \in Tokens, NEW suffix \in Seq(Tokens)
  PROVE  LET topic == make_fqtopic(prefix, name, suffix, FALSE) IN
         /\ topic \in Seq(Tokens) /\ Len(topic) = 1 + Len(name) + Len(suffix)
         /\ topic[1] = prefix
         /\ \A i \in 1..Len(name) : topic[i + 1] = name[i]
         /\ \A i \in 1..Len(suffix) : topic[1 + Len(name) + i] = suffix[i]
         /\ Tail(topic) = name \o suffix
<1> DEFINE p == <<prefix>> \o name
           topic == p \o suffix
<1>1. topic = make_fqtopic(prefix, name, suffix, FALSE)
  BY DEF make_fqtopic
<1>2. name \in Seq(Tokens) /\ Len(name) \in Nat /\ Len(suffix) \in Nat
  BY QualifiedType
<1>3. <<prefix>> \in Seq(Tokens) /\ Len(<<prefix>>) = 1 /\ <<prefix>>[1] = prefix
  BY One
<1>4. /\ p \in Seq(Tokens) /\ Len(p) = 1 + Len(name) /\ p[1] = prefix
      /\ \A i \in 1..Len(name) : p[i + 1] = name[i]
  BY <1>2, <1>3, Joined
<1> HIDE DEF p
<1>5. /\ topic \in Seq(Tokens) /\ Len(topic) = 1 + Len(name) + Len(suffix)
      /\ \A i \in 1..(1 + Len(name)) : topic[i] = p[i]
      /\ \A i \in 1..Len(suffix) : topic[1 + Len(name) + i] = suffix[i]
  <2>1. /\ p \o suffix \in Seq(Tokens) /\ Len(p \o suffix) = Len(p) + Len(suffix)
        /\ \A i \in 1..Len(p) : (p \o suffix)[i] = p[i]
        /\ \A i \in 1..Len(suffix) : (p \o suffix)[Len(p) + i] = suffix[i]
    <3>1. p \in Seq(Tokens)
      BY <1>4
    <3> QED
      BY <3>1, Joined
  <2>2. /\ topic \in Seq(Tokens) /\ Len(topic) = Len(p) + Len(suffix)
        /\ \A i \in 1..Len(p) : topic[i] = p[i]
        /\ \A i \in 1..Len(suffix) : topic[Len(p) + i] = suffix[i]
    BY <2>1
  <2> HIDE DEF topic
  <2> QED
    BY <1>4, <2>2
<1> HIDE DEF topic
<1>6. topic[1] = prefix /\ \A i \in 1..Len(name) : topic[i + 1] = name[i]
  <2>1. 1 \in 1..(1 + Len(name)) /\ \A i \in 1..Len(name) : i + 1 \in 1..(1 + Len(name))
    BY <1>2
  <2> QED
    BY <1>4, <1>5, <2>1
<1>7. Tail(topic) = name \o suffix
  <2>1. topic # <<>>
    BY <1>2, <1>5, EmptySeq
  <2>2. /\ Tail(topic) \in Seq(Tokens) /\ Len(Tail(topic)) = Len(name) + Len(suffix)
        /\ \A i \in 1..(Len(name) + Len(suffix)) : Tail(topic)[i] = topic[i + 1]
    BY <1>2, <1>5, <2>1, HeadTailProperties
  <2>3. /\ name \o suffix \in Seq(Tokens) /\ Len(name \o suffix) = Len(name) + Len(suffix)
        /\ \A i \in 1..Len(name) : (name \o suffix)[i] = name[i]
        /\ \A i \in 1..Len(suffix) : (name \o suffix)[Len(name) + i] = suffix[i]
    BY <1>2, Joined
  <2>4. ASSUME NEW i \in 1..(Len(name) + Len(suffix))
        PROVE  Tail(topic)[i] = (name \o suffix)[i]
    <3>1. CASE i <= Len(name)
      <4>1. i \in 1..Len(name)
        BY <1>2, <3>1
      <4> QED
        BY <1>6, <2>2, <2>3, <4>1
    <3>2. CASE i > Len(name)
      <4>1. PICK j \in 1..Len(suffix) : i = Len(name) + j
        <5>1. i - Len(name) \in 1..Len(suffix) /\ i = Len(name) + (i - Len(name))
          BY <1>2, <3>2
        <5> QED
          BY <5>1
      <4>2. i + 1 = 1 + Len(name) + j
        BY <1>2, <4>1
      <4> QED
        BY <1>5, <2>2, <2>3, <4>1, <4>2
    <3>3. i <= Len(name) \/ i > Len(name)
      BY <1>2
    <3> QED
      BY <3>1, <3>2, <3>3
  <2> QED
    BY <2>2, <2>3, <2>4, SeqEqual
<1> QED
  BY <1>1, <1>5, <1>6, <1>7

\* a topic's prefix is recognised, and only its own
LEMMA PrefixResolved ==
  ASSUME NEW name, Qualified(name), NEW p \in Tokens, NEW q \in Tokens, NEW suffix \in Seq(Tokens)
  PROVE  resolve_prefix(make_fqtopic(p, name, suffix, FALSE), q)
           = IF p = q THEN name \o suffix ELSE Nothing
<1> DEFINE topic == make_fqtopic(p, name, suffix, FALSE)
<1>1. /\ topic \in Seq(Tokens) /\ Len(topic) = 1 + Len(name) + Len(suffix) /\ topic[1] = p
      /\ \A i \in 1..Len(name) : topic[i + 1] = name[i]
      /\ Tail(topic) = name \o suffix
  BY TopicParts, ZenonT(40)
<1>2. Len(name) \in Nat \ {0} /\ Len(suffix) \in Nat /\ name[1] = "/"
  BY EmptySeq, QualifiedType
<1> HIDE DEF topic
<1>3. Len(topic) # 1 /\ topic # <<>>
  BY <1>1, <1>2, EmptySeq
<1>4. topic[2] = "/"
  <2>1. 1 \in 1..Len(name) /\ 1 + 1 = 2
    BY <1>2
  <2> QED
    BY <1>1, <1>2, <2>1
<1>5. resolve_prefix(topic, q) = IF p = q THEN name \o suffix ELSE Nothing
  BY <1>1, <1>3, <1>4 DEF resolve_prefix
<1> QED
  BY <1>5 DEF topic

\* the suffix is cut off where it is last, wherever else it may be
LEMMA SuffixCut ==
  ASSUME NEW name \in Seq(Tokens), NEW w \in Tokens
  PROVE  WithoutSuffix(name \o <<w>>, <<w>>) = name
<1> DEFINE n == name \o <<w>>
           l == Len(name)
<1>1. l \in Nat /\ <<w>> \in Seq(Tokens) /\ Len(<<w>>) = 1 /\ <<w>>[1] = w
  BY One
<1>2. /\ n \in Seq(Tokens) /\ Len(n) = l + 1 /\ DOMAIN n = 1..(l + 1)
      /\ n[l + 1] = w /\ \A i \in 1..l : n[i] = name[i]
  BY <1>1, Joined
<1> HIDE DEF n
<1>3. \A i \in 1..(l + 1) : SubSeq(n, i, i + 1 - 1) = <<n[i]>>
  <2> SUFFICES ASSUME NEW i \in 1..(l + 1) PROVE SubSeq(n, i, i + 1 - 1) = <<n[i]>>
    OBVIOUS
  <2>1. i + 1 - 1 = i /\ i \in Int /\ i - i + 1 = 1
    BY <1>1
  <2>2. \A j \in i..i : n[j] \in Tokens
    BY <1>1, <1>2, ElementOfSeq
  <2>3. /\ SubSeq(n, i, i) \in Seq(Tokens) /\ Len(SubSeq(n, i, i)) = i - i + 1
        /\ \A k \in 1..(i - i + 1) : SubSeq(n, i, i)[k] = n[i + k - 1]
    BY <2>1, <2>2, SubSeqProperties
  <2>4. Len(SubSeq(n, i, i)) = 1 /\ SubSeq(n, i, i)[1] = n[i]
    BY <2>1, <2>3
  <2>5. n[i] \in Tokens
    BY <2>1, <2>2
  <2>6. \A h \in Seq(Tokens) : Len(h) = 1 /\ h[1] = n[i] => h = <<n[i]>>
    BY <2>5, One, SeqEqual
  <2> QED
    BY <2>1, <2>3, <2>4, <2>6
<1> DEFINE S == At(n, <<w>>)
<1>4. S \subseteq 1..(l + 1)
  BY <1>2 DEF At
<1>5. l + 1 \in S
  <2>1. l + 1 \in 1..(l + 1) /\ (l + 1) + 1 - 1 <= l + 1
    BY <1>1
  <2>2. SubSeq(n, l + 1, (l + 1) + 1 - 1) = <<w>>
    BY <1>2, <1>3, <2>1
  <2> QED
    BY <1>1, <1>2, <2>1, <2>2 DEF At
<1> HIDE DEF S
<1>6. Largest(S) = l + 1
  <2>1. \A i \in 1..(l + 1) : l + 1 >= i /\ (i >= l + 1 => i = l + 1)
    BY <1>1
  <2>2. /\ \A i \in S : l + 1 >= i
        /\ \A i \in S : (\A j \in S : i >= j) => i = l + 1
    BY <1>4, <1>5, <2>1
  <2> QED
    BY <1>5, <2>2 DEF Largest
<1>7. WithoutSuffix(n, <<w>>) = SubSeq(n, 1, l)
  <2>1. /\ Largest(S) + Len(<<w>>) - 1 = Len(n) /\ S # {}
        /\ Len(n) - Len(<<w>>) = l
    BY <1>1, <1>2, <1>5, <1>6
  <2> QED
    BY <2>1 DEF WithoutSuffix, Cut, S
<1>8. SubSeq(n, 1, l) = name
  <2>1. \A i \in 1..l : n[i] \in Tokens
    BY <1>1, <1>2, ElementOfSeq
  <2>2. /\ SubSeq(n, 1, l) \in Seq(Tokens) /\ Len(SubSeq(n, 1, l)) = l
        /\ \A i \in 1..l : SubSeq(n, 1, l)[i] = n[i]
    BY <1>1, <2>1, SubSeqProperties
  <2> QED
    BY <1>2, <2>2, SeqEqual
<1> QED
  BY <1>7, <1>8 DEF n

\* what each of the three kinds of topics is demangled to
LEMMA Demangled ==
  ASSUME NEW name, Qualified(name)
  PROVE  LET topic   == make_fqtopic("rt", name, <<>>, FALSE)
             request == make_fqtopic("rq", name, <<"Request">>, FALSE)
             reply   == make_fqtopic("rr", name, <<"Reply">>, FALSE)
         IN  /\ demangle_ros_topic(topic) = name /\ demangle_request(topic) = Nothing
             /\ demangle_reply(topic) = Nothing
             /\ demangle_ros_topic(request) = Nothing /\ demangle_request(request) = name
             /\ demangle_reply(request) = Nothing
             /\ demangle_ros_topic(reply) = Nothing /\ demangle_request(reply) = Nothing
             /\ demangle_reply(reply) = name
             /\ name # Nothing
<1>1. name \in Seq(Tokens) /\ name # <<>> /\ name \o <<>> = name
  BY ConcatEmptySeq, QualifiedType
<1>2. <<>> \in Seq(Tokens) /\ <<"Request">> \in Seq(Tokens) /\ <<"Reply">> \in Seq(Tokens)
  BY EmptySeq, One DEF Markers, Tokens
<1>3. /\ resolve_prefix(make_fqtopic("rt", name, <<>>, FALSE), "rt") = name
      /\ resolve_prefix(make_fqtopic("rt", name, <<>>, FALSE), "rq") = Nothing
      /\ resolve_prefix(make_fqtopic("rt", name, <<>>, FALSE), "rr") = Nothing
  <2>1. "rt" \in Tokens /\ "rq" \in Tokens /\ "rr" \in Tokens
    BY DEF Markers, Tokens
  <2> QED
    BY <1>1, <1>2, <2>1, PrefixResolved, ZenonT(40)
<1>4. /\ resolve_prefix(make_fqtopic("rq", name, <<"Request">>, FALSE), "rq") = name \o <<"Request">>
      /\ resolve_prefix(make_fqtopic("rq", name, <<"Request">>, FALSE), "rt") = Nothing
      /\ resolve_prefix(make_fqtopic("rq", name, <<"Request">>, FALSE), "rr") = Nothing
  <2>1. <<"Request">> \in Seq(Tokens) /\ "rq" \in Tokens /\ "rt" \in Tokens /\ "rr" \in Tokens
    BY <1>2 DEF Markers, Tokens
  <2> QED
    BY <2>1, PrefixResolved
<1>5. /\ resolve_prefix(make_fqtopic("rr", name, <<"Reply">>, FALSE), "rr") = name \o <<"Reply">>
      /\ resolve_prefix(make_fqtopic("rr", name, <<"Reply">>, FALSE), "rt") = Nothing
      /\ resolve_prefix(make_fqtopic("rr", name, <<"Reply">>, FALSE), "rq") = Nothing
  <2>1. <<"Reply">> \in Seq(Tokens) /\ "rr" \in Tokens /\ "rt" \in Tokens /\ "rq" \in Tokens
    BY <1>2 DEF Markers, Tokens
  <2> QED
    BY <2>1, PrefixResolved
<1>6. \A w \in {"Request", "Reply"} : /\ name \o <<w>> \notin {Nothing, OutOfRange}
                                      /\ WithoutSuffix(name \o <<w>>, <<w>>) = name
  <2> SUFFICES ASSUME NEW w \in {"Request", "Reply"}
               PROVE  /\ name \o <<w>> \notin {Nothing, OutOfRange}
                      /\ WithoutSuffix(name \o <<w>>, <<w>>) = name
    OBVIOUS
  <2>1. Len(name) \in Nat \ {0} /\ <<w>> \in Seq(Tokens) /\ Len(<<w>>) = 1 /\ w \in Tokens
    BY <1>1, EmptySeq, One DEF Markers, Tokens
  <2>2. Len(name \o <<w>>) = Len(name) + 1
    BY <1>1, <2>1, Joined
  <2>3. Len(name \o <<w>>) >= 2
    BY <2>1, <2>2
  <2>4. Len(Nothing) = 0 /\ Len(OutOfRange) = 1
    BY EmptySeq DEF Nothing, OutOfRange
  <2>5. name \o <<w>> \notin {Nothing, OutOfRange}
    BY <2>3, <2>4
  <2>6. WithoutSuffix(name \o <<w>>, <<w>>) = name
    BY <1>1, <2>1, SuffixCut
  <2> QED
    BY <2>5, <2>6
<1> QED
  BY <1>1, <1>3, <1>4, <1>5, <1>6
     DEF demangle_ros_topic, demangle_request, demangle_reply, demangle_service, Nothing

\* make_fqtopic and demangle.cpp: every topic, service and client is listed under
\* the name it was given, and as what it is, whatever words are in the name
THEOREM EveryNameComesBack == \A name : Qualified(name) => ComesBack(name)
BY Demangled DEF ComesBack, demangle_service_from_topic

\* make_fqtopic: no two names, and no two kinds, share a topic
THEOREM TopicsApart ==
  ASSUME NEW m, Qualified(m), NEW n, Qualified(n)
  PROVE  LET rt(name) == make_fqtopic("rt", name, <<>>, FALSE)
             rq(name) == make_fqtopic("rq", name, <<"Request">>, FALSE)
             rr(name) == make_fqtopic("rr", name, <<"Reply">>, FALSE)
         IN  /\ rt(m) = rt(n) <=> m = n
             /\ rq(m) = rq(n) <=> m = n
             /\ rr(m) = rr(n) <=> m = n
             /\ rt(m) # rq(n) /\ rt(m) # rr(n) /\ rq(m) # rr(n)
BY Demangled

-----------------------------------------------------------------------------
(***************************************************************************)
(* The types.                                                              *)
(***************************************************************************)
\* all tokens, the words of the names of types named
TypeTokens == STRING \cup {"__", "::", "/", "srv", "dds_::", "_", "Request", "Response"}
\* a package and the name of a type in it; ROS has no "_" in the names of types
\* and neither "__" nor ":" in those of packages
OfAType(package, name) ==
  package \in STRING \ {"__", "::", "dds_::"} /\ name \in Seq(STRING \ {"_"})
Suffixes == {<<>>, <<"Request", "_">>, <<"Response", "_">>}

\* part of a sequence is equal to another one if the elements are
LEMMA PartEqual ==
  ASSUME NEW S, NEW n \in Seq(S), NEW s \in Seq(S), NEW i \in 1..(Len(n) + 1),
         i + Len(s) - 1 <= Len(n)
  PROVE  SubSeq(n, i, i + Len(s) - 1) = s <=> \A k \in 1..Len(s) : n[i + k - 1] = s[k]
<1> DEFINE l == Len(s)
           p == SubSeq(n, i, i + l - 1)
<1>1. l \in Nat /\ Len(n) \in Nat /\ i \in Int /\ i + l - 1 \in Int
  OBVIOUS
<1>2. \A j \in i..(i + l - 1) : n[j] \in S
  <2> SUFFICES ASSUME NEW j \in i..(i + l - 1) PROVE n[j] \in S
    OBVIOUS
  <2>1. j \in 1..Len(n)
    BY <1>1
  <2> QED
    BY <2>1, ElementOfSeq
<1>3. /\ p \in Seq(S)
      /\ Len(p) = IF i <= i + l - 1 THEN i + l - 1 - i + 1 ELSE 0
      /\ \A k \in 1..(i + l - 1 - i + 1) : p[k] = n[i + k - 1]
  BY <1>1, <1>2, SubSeqProperties
<1>4. (IF i <= i + l - 1 THEN i + l - 1 - i + 1 ELSE 0) = l /\ i + l - 1 - i + 1 = l
  BY <1>1
<1>5. p \in Seq(S) /\ Len(p) = l /\ \A k \in 1..l : p[k] = n[i + k - 1]
  BY <1>3, <1>4
<1> HIDE DEF p
<1>6. ASSUME \A k \in 1..l : n[i + k - 1] = s[k] PROVE p = s
  BY <1>5, <1>6, SeqEqual
<1>7. p = s <=> \A k \in 1..l : n[i + k - 1] = s[k]
  BY <1>5, <1>6
<1> QED
  BY <1>7 DEF p

\* where a sequence occurs in another
LEMMA Occurs ==
  ASSUME NEW S, NEW n \in Seq(S), NEW s \in Seq(S)
  PROVE  /\ At(n, s) = {i \in 1..Len(n) : i + Len(s) - 1 <= Len(n)
                                          /\ \A k \in 1..Len(s) : n[i + k - 1] = s[k]}
         /\ Ends(n, s) <=> /\ Len(n) >= Len(s)
                           /\ \A k \in 1..Len(s) : n[Len(n) - Len(s) + k] = s[k]
<1>1. DOMAIN n = 1..Len(n) /\ Len(n) \in Nat /\ Len(s) \in Nat
  OBVIOUS
<1>2. ASSUME NEW i \in 1..Len(n), i + Len(s) - 1 <= Len(n)
      PROVE  SubSeq(n, i, i + Len(s) - 1) = s <=> \A k \in 1..Len(s) : n[i + k - 1] = s[k]
  <2>1. PICK j \in 1..(Len(n) + 1) : j = i /\ j + Len(s) - 1 <= Len(n)
    <3>1. i \in 1..(Len(n) + 1)
      BY <1>1
    <3> QED
      BY <1>2, <3>1
  <2>2. SubSeq(n, j, j + Len(s) - 1) = s <=> \A k \in 1..Len(s) : n[j + k - 1] = s[k]
    BY <2>1, PartEqual
  <2> QED
    BY <2>1, <2>2
<1>3. At(n, s) = {i \in 1..Len(n) : i + Len(s) - 1 <= Len(n)
                                     /\ \A k \in 1..Len(s) : n[i + k - 1] = s[k]}
  BY <1>1, <1>2 DEF At
<1>4. ASSUME Len(n) >= Len(s)
      PROVE  SubSeq(n, Len(n) - Len(s) + 1, Len(n)) = s
               <=> \A k \in 1..Len(s) : n[Len(n) - Len(s) + k] = s[k]
  <2>1. PICK i \in 1..(Len(n) + 1) : i = Len(n) - Len(s) + 1
    <3>1. Len(n) - Len(s) + 1 \in 1..(Len(n) + 1)
      BY <1>1, <1>4
    <3> QED
      BY <3>1
  <2>2. i + Len(s) - 1 = Len(n) /\ \A k \in 1..Len(s) : i + k - 1 = Len(n) - Len(s) + k
    BY <1>1, <2>1
  <2>3. SubSeq(n, i, i + Len(s) - 1) = s <=> \A k \in 1..Len(s) : n[i + k - 1] = s[k]
    <3>1. i + Len(s) - 1 <= Len(n)
      BY <1>1, <2>2
    <3> QED
      BY <3>1, PartEqual
  <2> QED
    BY <2>1, <2>2, <2>3
<1>5. Ends(n, s) <=> /\ Len(n) >= Len(s)
                     /\ \A k \in 1..Len(s) : n[Len(n) - Len(s) + k] = s[k]
  BY <1>4 DEF Ends
<1> QED
  BY <1>3, <1>5

\* four sequences, the third of one element
HasParts(S, n, head, name, u, suffix) ==
  LET l == Len(head) + Len(name) IN
  /\ n \in Seq(S) /\ Len(n) = l + 1 + Len(suffix)
  /\ \A i \in 1..Len(head) : n[i] = head[i]
  /\ \A i \in 1..Len(name) : n[Len(head) + i] = name[i]
  /\ n[l + 1] = u
  /\ \A i \in 1..Len(suffix) : n[l + 1 + i] = suffix[i]
LEMMA FourParts ==
  ASSUME NEW S, NEW head \in Seq(S), NEW name \in Seq(S), NEW u \in S, NEW suffix \in Seq(S)
  PROVE  HasParts(S, head \o name \o <<u>> \o suffix, head, name, u, suffix)
<1> PICK h \in Nat, j \in Nat, k \in Nat : h = Len(head) /\ j = Len(name) /\ k = Len(suffix)
  OBVIOUS
<1>1. PICK a \in Seq(S) : a = head \o name
  BY ConcatProperties
<1>2. /\ Len(a) = h + j /\ \A i \in 1..h : a[i] = head[i]
      /\ \A i \in 1..j : a[h + i] = name[i]
  BY <1>1, Joined
<1>3. PICK v \in Seq(S) : v = <<u>> /\ Len(v) = 1 /\ v[1] = u
  BY One
<1>4. PICK b \in Seq(S) : b = a \o v
  BY ConcatProperties
<1>5. /\ Len(b) = h + j + 1 /\ \A i \in 1..(h + j) : b[i] = a[i]
      /\ \A i \in 1..1 : b[h + j + i] = v[i]
  <2>1. /\ Len(a \o v) = Len(a) + Len(v) /\ \A i \in 1..Len(a) : (a \o v)[i] = a[i]
        /\ \A i \in 1..Len(v) : (a \o v)[Len(a) + i] = v[i]
    BY Joined
  <2> QED
    BY <1>2, <1>3, <1>4, <2>1
<1>6. PICK c \in Seq(S) : c = b \o suffix
  BY ConcatProperties
<1>7. /\ Len(c) = h + j + 1 + k /\ \A i \in 1..(h + j + 1) : c[i] = b[i]
      /\ \A i \in 1..k : c[h + j + 1 + i] = suffix[i]
  <2>1. /\ Len(b \o suffix) = Len(b) + Len(suffix)
        /\ \A i \in 1..Len(b) : (b \o suffix)[i] = b[i]
        /\ \A i \in 1..Len(suffix) : (b \o suffix)[Len(b) + i] = suffix[i]
    BY Joined
  <2> QED
    BY <1>5, <1>6, <2>1
<1>8. /\ \A i \in 1..h : i \in 1..(h + j) /\ i \in 1..(h + j + 1)
      /\ \A i \in 1..j : h + i \in 1..(h + j) /\ h + i \in 1..(h + j + 1)
      /\ h + j + 1 \in 1..(h + j + 1) /\ 1 \in 1..1
  OBVIOUS
<1>9. /\ \A i \in 1..h : c[i] = head[i]
      /\ \A i \in 1..j : c[h + i] = name[i]
      /\ c[h + j + 1] = u
  <2>1. c[h + j + 1] = b[h + j + 1] /\ b[h + j + 1] = v[1]
    BY <1>5, <1>7, <1>8
  <2>2. \A i \in 1..h : c[i] = b[i] /\ b[i] = a[i] /\ a[i] = head[i]
    BY <1>2, <1>5, <1>7, <1>8
  <2>3. \A i \in 1..j : c[h + i] = b[h + i] /\ b[h + i] = a[h + i] /\ a[h + i] = name[i]
    BY <1>2, <1>5, <1>7, <1>8
  <2> QED
    BY <1>3, <2>1, <2>2, <2>3
<1>10. head \o name \o <<u>> \o suffix = c
  BY <1>1, <1>3, <1>4, <1>6
<1> QED
  BY <1>7, <1>9, <1>10 DEF HasParts

\* a sequence of five, put together as get_type_name does it
IsFive(S, n, a, b, c, d, e) ==
  /\ n \in Seq(S) /\ Len(n) = 5
  /\ n[1] = a /\ n[2] = b /\ n[3] = c /\ n[4] = d /\ n[5] = e
LEMMA Five ==
  ASSUME NEW S, NEW a \in S, NEW b \in S, NEW c \in S, NEW d \in S, NEW e \in S
  PROVE  IsFive(S, <<a, b, c>> \o <<d>> \o <<e>>, a, b, c, d, e)
<1>1. PICK t \in Seq(S) : t = <<a, b, c>>
  <2>1. <<a, b, c>> \in Seq(S)
    OBVIOUS
  <2> QED
    BY <2>1
<1>2. Len(t) = 3 /\ t[1] = a /\ t[2] = b /\ t[3] = c
  BY <1>1
<1>3. PICK m \in Seq(S) : m = t \o <<d>>
  BY ConcatProperties, One
<1>4. /\ Len(m) = 4 /\ m[1] = t[1] /\ m[2] = t[2] /\ m[3] = t[3] /\ m[4] = d
  <2>1. PICK v \in Seq(S) : v = <<d>> /\ Len(v) = 1 /\ v[1] = d
    BY One
  <2>2. /\ Len(t \o v) = Len(t) + Len(v) /\ \A i \in 1..Len(t) : (t \o v)[i] = t[i]
        /\ \A i \in 1..Len(v) : (t \o v)[Len(t) + i] = v[i]
    BY Joined
  <2> QED
    BY <1>2, <1>3, <2>1, <2>2
<1>5. PICK n \in Seq(S) : n = m \o <<e>>
  BY ConcatProperties, One
<1>6. /\ Len(n) = 5 /\ n[1] = m[1] /\ n[2] = m[2] /\ n[3] = m[3] /\ n[4] = m[4]
      /\ n[5] = e
  <2>1. PICK v \in Seq(S) : v = <<e>> /\ Len(v) = 1 /\ v[1] = e
    BY One
  <2>2. /\ Len(m \o v) = Len(m) + Len(v) /\ \A i \in 1..Len(m) : (m \o v)[i] = m[i]
        /\ \A i \in 1..Len(v) : (m \o v)[Len(m) + i] = v[i]
    BY Joined
  <2> QED
    BY <1>4, <1>5, <2>1, <2>2
<1>7. <<a, b, c>> \o <<d>> \o <<e>> = n
  BY <1>1, <1>3, <1>5
<1> QED
  BY <1>2, <1>4, <1>6, <1>7 DEF IsFive

\* the middle of three is exchanged
LEMMA SwapMiddle ==
  ASSUME NEW p, NEW s, NEW old, NEW new, p # old, s # old, new # old
  PROVE  /\ Swap(<<p, old, s>>, old, new) = <<p, new, s>>
         /\ Swap(<<p, new, s>>, old, new) = <<p, new, s>>
BY DEF Swap

\* the words of the names of types, as tokens
LEMMA Words ==
  /\ "__" \in TypeTokens /\ "::" \in TypeTokens /\ "/" \in TypeTokens
  /\ "srv" \in TypeTokens /\ "dds_::" \in TypeTokens /\ "_" \in TypeTokens
  /\ "Request" \in TypeTokens /\ "Response" \in TypeTokens
BY DEF TypeTokens

\* the suffixes
LEMMA SuffixType ==
  ASSUME NEW suffix \in Suffixes
  PROVE  /\ suffix \in Seq(TypeTokens)
         /\ \/ suffix = <<>> /\ Len(suffix) = 0
            \/ \E w \in {"Request", "Response"} :
                 suffix = <<w, "_">> /\ Len(suffix) = 2 /\ suffix[1] = w /\ suffix[2] = "_"
<1>1. <<>> \in Seq(TypeTokens) /\ Len(<<>>) = 0
  BY EmptySeq
<1>2. ASSUME NEW w \in {"Request", "Response"}
      PROVE  /\ <<w, "_">> \in Seq(TypeTokens) /\ Len(<<w, "_">>) = 2
             /\ <<w, "_">>[1] = w /\ <<w, "_">>[2] = "_"
  <2>1. w \in TypeTokens /\ "_" \in TypeTokens
    BY Words
  <2>2. \A S : \A x, y \in S : /\ <<x, y>> \in Seq(S) /\ Len(<<x, y>>) = 2
                               /\ <<x, y>>[1] = x /\ <<x, y>>[2] = y
    OBVIOUS
  <2> QED
    BY <2>1, <2>2, Zenon
<1>3. suffix = <<>> \/ \E w \in {"Request", "Response"} : suffix = <<w, "_">>
  BY DEF Suffixes
<1>4. CASE suffix = <<>>
  BY <1>1, <1>4
<1>5. CASE \E w \in {"Request", "Response"} : suffix = <<w, "_">>
  <2>1. PICK w \in {"Request", "Response"} : suffix = <<w, "_">>
    BY <1>5
  <2> QED
    BY <1>2, <2>1
<1> QED
  BY <1>3, <1>4, <1>5

\* package and name are of tokens
LEMMA OfATypeType ==
  ASSUME NEW package, NEW name, OfAType(package, name)
  PROVE  /\ package \in TypeTokens /\ package \notin {"__", "::", "dds_::"}
         /\ name \in Seq(TypeTokens)
         /\ \A i \in 1..Len(name) : name[i] # "_"
<1>1. package \in TypeTokens /\ package \notin {"__", "::", "dds_::"}
  BY DEF OfAType, TypeTokens
<1>2. name \in Seq(TypeTokens)
  <2>1. STRING \ {"_"} \subseteq TypeTokens
    BY DEF TypeTokens
  <2>2. Seq(STRING \ {"_"}) \subseteq Seq(TypeTokens)
    BY <2>1, SeqMonotonic
  <2>3. name \in Seq(STRING \ {"_"})
    BY DEF OfAType
  <2> QED
    BY <2>2, <2>3, Zenon
<1>3. \A i \in 1..Len(name) : name[i] \in STRING \ {"_"}
  BY ElementOfSeq DEF OfAType
<1> QED
  BY <1>1, <1>2, <1>3

\* the parts of the name of a type, the same from C and C++
IsType(type, package, name, suffix) ==
  LET l == Len(name) IN
  /\ type \in Seq(TypeTokens) /\ Len(type) = 6 + l + Len(suffix)
  /\ type[1] = package /\ type[2] = "::" /\ type[3] = "srv" /\ type[4] = "::"
  /\ type[5] = "dds_::"
  /\ \A i \in 1..l : type[5 + i] = name[i]
  /\ type[6 + l] = "_"
  /\ \A i \in 1..Len(suffix) : type[6 + l + i] = suffix[i]
LEMMA TypeParts ==
  ASSUME NEW package, NEW name, OfAType(package, name), NEW suffix \in Suffixes
  PROVE  LET type == get_type_name(<<package, "__", "srv">>, name, suffix) IN
         /\ get_type_name(<<package, "::", "srv">>, name, suffix) = type
         /\ IsType(type, package, name, suffix)
<1> DEFINE c == <<package, "__", "srv">>
           cpp == <<package, "::", "srv">>
           head == cpp \o <<"::">> \o <<"dds_::">>
<1>1. Swap(c, "__", "::") = cpp /\ Swap(cpp, "__", "::") = cpp
  <2>1. package # "__" /\ "srv" # "__" /\ "::" # "__"
    BY OfATypeType
  <2> QED
    BY <2>1, SwapMiddle
<1>2. /\ head \in Seq(TypeTokens) /\ Len(head) = 5
      /\ head[1] = package /\ head[2] = "::" /\ head[3] = "srv" /\ head[4] = "::"
      /\ head[5] = "dds_::"
  <2>1. package \in TypeTokens
    BY OfATypeType
  <2>2. IsFive(TypeTokens, head, package, "::", "srv", "::", "dds_::")
    BY <2>1, Words, Five, Zenon
  <2> HIDE DEF head
  <2> QED
    BY <2>2 DEF IsFive
<1>3. c # <<>> /\ cpp # <<>>
  OBVIOUS
<1> HIDE DEF c, cpp
<1>4. /\ get_type_name(c, name, suffix) = head \o name \o <<"_">> \o suffix
      /\ get_type_name(cpp, name, suffix) = head \o name \o <<"_">> \o suffix
  BY <1>1, <1>3, Zenon DEF get_type_name, AsInCpp
<1> HIDE DEF head
<1>5. HasParts(TypeTokens, head \o name \o <<"_">> \o suffix, head, name, "_", suffix)
  <2>1. name \in Seq(TypeTokens) /\ suffix \in Seq(TypeTokens) /\ "_" \in TypeTokens
    BY OfATypeType, SuffixType, Words
  <2> QED
    BY <1>2, <2>1, FourParts, Zenon
<1>6. PICK type : type = head \o name \o <<"_">> \o suffix
  OBVIOUS
<1>7. PICK l \in Nat : l = Len(name)
  <2>1. name \in Seq(TypeTokens)
    BY OfATypeType
  <2> QED
    BY <2>1
<1>8. /\ type \in Seq(TypeTokens) /\ Len(type) = 5 + l + 1 + Len(suffix)
      /\ \A i \in 1..5 : type[i] = head[i]
      /\ \A i \in 1..l : type[5 + i] = name[i]
      /\ type[5 + l + 1] = "_"
      /\ \A i \in 1..Len(suffix) : type[5 + l + 1 + i] = suffix[i]
  BY <1>2, <1>5, <1>6, <1>7, Zenon DEF HasParts
<1>9. 5 + l + 1 = 6 + l /\ 1 \in 1..5 /\ 2 \in 1..5 /\ 3 \in 1..5 /\ 4 \in 1..5 /\ 5 \in 1..5
  OBVIOUS
<1>10. IsType(type, package, name, suffix)
  BY <1>2, <1>7, <1>8, <1>9, Zenon DEF IsType
<1> QED
  BY <1>4, <1>6, <1>10 DEF c, cpp

\* how long the name of a type is
LEMMA TypeLength ==
  ASSUME NEW package, NEW name, OfAType(package, name), NEW suffix \in Suffixes,
         NEW n, IsType(n, package, name, suffix)
  PROVE  /\ name \in Seq(TypeTokens) /\ Len(name) \in Nat
         /\ suffix \in Seq(TypeTokens) /\ Len(suffix) \in Nat
         /\ n \in Seq(TypeTokens) /\ Len(n) \in Nat
         /\ Len(n) = 6 + Len(name) + Len(suffix) /\ Len(n) >= 6
<1>1. name \in Seq(TypeTokens)
  BY OfATypeType
<1>2. suffix \in Seq(TypeTokens)
  BY SuffixType
<1>3. Len(name) \in Nat /\ Len(suffix) \in Nat
  BY <1>1, <1>2
<1>4. n \in Seq(TypeTokens) /\ Len(n) = 6 + Len(name) + Len(suffix)
  BY Zenon DEF IsType
<1>5. Len(n) \in Nat /\ Len(n) >= 6
  BY <1>3, <1>4
<1> QED
  BY <1>1, <1>2, <1>3, <1>4, <1>5

\* "dds_::" is found before the name
LEMMA DdsFound ==
  ASSUME NEW package, NEW name, OfAType(package, name), NEW suffix \in Suffixes,
         NEW n, IsType(n, package, name, suffix)
  PROVE  At(n, <<"dds_::">>) # {} /\ Smallest(At(n, <<"dds_::">>)) = 5
<1>1. PICK s \in Seq(TypeTokens) : s = <<"dds_::">> /\ Len(s) = 1 /\ s[1] = "dds_::"
  BY Words, One
<1>2. /\ n \in Seq(TypeTokens) /\ Len(n) \in Nat /\ Len(n) >= 5
      /\ n[1] = package /\ n[2] = "::" /\ n[3] = "srv" /\ n[4] = "::" /\ n[5] = "dds_::"
  <2>1. n \in Seq(TypeTokens) /\ Len(n) \in Nat /\ Len(n) >= 6
    BY TypeLength
  <2>2. Len(n) >= 5
    BY <2>1
  <2> QED
    BY <2>1, <2>2, Zenon DEF IsType
<1>3. At(n, s) = {i \in 1..Len(n) : i + Len(s) - 1 <= Len(n)
                                     /\ \A k \in 1..Len(s) : n[i + k - 1] = s[k]}
  BY <1>2, Occurs
<1>4. PICK A : A = At(n, s)
  OBVIOUS
<1>5. \A i \in A : i \in 1..Len(n) /\ n[i] = "dds_::"
  <2>1. \A i \in 1..Len(n) : 1 \in 1..1 /\ i + 1 - 1 = i
    BY <1>2
  <2>2. \A i \in A : i \in 1..Len(n) /\ \A k \in 1..1 : n[i + k - 1] = s[k]
    BY <1>1, <1>3, <1>4
  <2> QED
    BY <1>1, <2>1, <2>2
<1>6. 5 \in A
  <2>1. 5 \in 1..Len(n) /\ 5 + 1 - 1 <= Len(n) /\ \A k \in 1..1 : k = 1 /\ 5 + k - 1 = 5
    BY <1>2
  <2>2. \A k \in 1..1 : n[5 + k - 1] = s[k]
    BY <1>1, <1>2, <2>1
  <2> QED
    BY <1>1, <1>3, <1>4, <2>1, <2>2
<1>7. \A i \in A : i \in Int /\ 5 <= i
  <2> SUFFICES ASSUME NEW i \in A PROVE i \in Int /\ 5 <= i
    OBVIOUS
  <2>1. i \in 1..Len(n) /\ n[i] = "dds_::"
    BY <1>5
  <2>2. package # "dds_::"
    BY OfATypeType
  <2>3. i # 1 /\ i # 2 /\ i # 3 /\ i # 4
    BY <1>2, <2>1, <2>2
  <2> QED
    BY <1>2, <2>1, <2>3
<1>8. Smallest(A) = 5
  <2>1. \A i \in A : (\A j \in A : i <= j) => i = 5
    BY <1>6, <1>7
  <2> QED
    BY <1>6, <1>7, <2>1 DEF Smallest
<1> QED
  BY <1>1, <1>4, <1>6, <1>8

\* the second and the fourth of four are exchanged
LEMMA SwapTwice ==
  ASSUME NEW f, NEW old, NEW new,
         DOMAIN f = 1..4 /\ f[1] # old /\ f[2] = old /\ f[3] # old /\ f[4] = old
  PROVE  Swap(f, old, new) = <<f[1], new, f[3], new>>
BY DEF Swap

\* what is before "dds_::", as ROS writes it
LEMMA FrontSwapped ==
  ASSUME NEW package, NEW name, OfAType(package, name), NEW suffix \in Suffixes,
         NEW n, IsType(n, package, name, suffix)
  PROVE  Swap(SubSeq(n, 1, 4), "::", "/") = <<package, "/", "srv", "/">>
<1>1. /\ n \in Seq(TypeTokens) /\ Len(n) \in Nat /\ Len(n) >= 5
      /\ n[1] = package /\ n[2] = "::" /\ n[3] = "srv" /\ n[4] = "::"
  <2>1. n \in Seq(TypeTokens) /\ Len(n) \in Nat /\ Len(n) >= 6
    BY TypeLength
  <2>2. Len(n) >= 5
    BY <2>1
  <2> QED
    BY <2>1, <2>2, Zenon DEF IsType
<1>2. PICK f : f = SubSeq(n, 1, 4)
  OBVIOUS
<1>3. /\ f \in Seq(TypeTokens) /\ Len(f) = 4
      /\ \A i \in 1..4 : f[i] = n[i]
  <2>1. \A i \in 1..4 : i \in 1..Len(n)
    BY <1>1
  <2>2. \A i \in 1..4 : n[i] \in TypeTokens
    BY <1>1, <2>1, ElementOfSeq
  <2>3. /\ SubSeq(n, 1, 4) \in Seq(TypeTokens)
        /\ Len(SubSeq(n, 1, 4)) = IF 1 <= 4 THEN 4 - 1 + 1 ELSE 0
        /\ \A i \in 1..(4 - 1 + 1) : SubSeq(n, 1, 4)[i] = n[1 + i - 1]
    BY <2>2, SubSeqProperties
  <2>4. \A i \in 1..4 : i \in 1..(4 - 1 + 1) /\ 1 + i - 1 = i
    OBVIOUS
  <2> QED
    BY <1>2, <2>3, <2>4
<1>4. DOMAIN f = 1..4 /\ f[1] = package /\ f[2] = "::" /\ f[3] = "srv" /\ f[4] = "::"
  BY <1>1, <1>3
<1>5. package # "::"
  BY OfATypeType
<1>7. "srv" # "::"
  OBVIOUS
<1>8. Swap(f, "::", "/") = <<package, "/", "srv", "/">>
  <2>1. DOMAIN f = 1..4 /\ f[1] # "::" /\ f[2] = "::" /\ f[3] # "::" /\ f[4] = "::"
    BY <1>4, <1>5, <1>7
  <2>2. Swap(f, "::", "/") = <<f[1], "/", f[3], "/">>
    BY <2>1, SwapTwice, Zenon
  <2> QED
    BY <1>4, <2>2
<1> QED
  BY <1>2, <1>8

\* what is between "dds_::" and the "_" is the name
LEMMA NameBetween ==
  ASSUME NEW package, NEW name, OfAType(package, name), NEW suffix \in Suffixes,
         NEW n, IsType(n, package, name, suffix)
  PROVE  SubSeq(n, 6, 5 + Len(name)) = name
<1>1. PICK l \in Nat, k \in Nat : l = Len(name) /\ k = Len(suffix) /\ name \in Seq(TypeTokens)
  <2>1. name \in Seq(TypeTokens) /\ Len(name) \in Nat /\ Len(suffix) \in Nat
    BY TypeLength
  <2> QED
    BY <2>1
<1>2. /\ n \in Seq(TypeTokens) /\ Len(n) = 6 + l + k
      /\ \A i \in 1..l : n[5 + i] = name[i]
  BY <1>1 DEF IsType
<1>3. 6 \in 1..(Len(n) + 1) /\ 6 + l - 1 <= Len(n) /\ 6 + l - 1 = 5 + l
  BY <1>1, <1>2
<1>4. \A i \in 1..l : 6 + i - 1 = 5 + i
  BY <1>1
<1>5. SubSeq(n, 6, 6 + l - 1) = name <=> \A i \in 1..l : n[6 + i - 1] = name[i]
  BY <1>1, <1>2, <1>3, PartEqual
<1> QED
  BY <1>1, <1>2, <1>3, <1>4, <1>5

\* "_Response_" and "_Request_" are found at the end, and in a message nowhere
LEMMA SuffixFound ==
  ASSUME NEW package, NEW name, OfAType(package, name), NEW suffix \in Suffixes,
         NEW n, IsType(n, package, name, suffix)
  PROVE  SuffixOf(n) = IF suffix = <<>> THEN 0 ELSE 6 + Len(name)
<1>0. /\ n \in Seq(TypeTokens) /\ name \in Seq(TypeTokens) /\ suffix \in Seq(TypeTokens)
      /\ Len(name) \in Nat /\ Len(suffix) \in Nat /\ Len(n) \in Nat
      /\ Len(n) = 6 + Len(name) + Len(suffix)
  BY TypeLength
<1>1. PICK l \in Nat, k \in Nat, m \in Nat : l = Len(name) /\ k = Len(suffix) /\ m = Len(n)
  BY <1>0
<1>2. m = 6 + l + k /\ 6 + l \in Nat
  BY <1>0, <1>1
<1>3. /\ n[1] = package /\ n[2] = "::" /\ n[3] = "srv" /\ n[4] = "::" /\ n[5] = "dds_::"
      /\ \A i \in 1..l : n[5 + i] = name[i]
      /\ n[6 + l] = "_" /\ \A i \in 1..k : n[6 + l + i] = suffix[i]
  BY <1>1, Zenon DEF IsType
<1>4. \A i \in 1..l : n[5 + i] # "_"
  <2>1. \A i \in 1..Len(name) : name[i] # "_"
    BY OfATypeType
  <2> QED
    BY <1>1, <1>3, <2>1
\* where a "_" is, and what may follow it
<1>5. ASSUME NEW i \in 1..m, n[i] = "_" PROVE i = 1 \/ i = 6 + l \/ i > 6 + l
  <2>1. i # 2 /\ i # 3 /\ i # 4 /\ i # 5
    BY <1>3, <1>5
  <2>2. CASE i \in 6..(5 + l)
    <3>1. PICK j \in 1..l : i = 5 + j
      <4>1. i - 5 \in 1..l /\ i = 5 + (i - 5)
        BY <1>2, <2>2
      <4> QED
        BY <4>1
    <3> QED
      BY <1>4, <1>5, <3>1
  <2>3. CASE i \notin 6..(5 + l)
    BY <1>2, <2>1, <2>3
  <2> QED
    BY <2>2, <2>3
<1>6. \A w \in {"Request", "Response"} :
        /\ At(n, <<"_", w, "_">>) = {i \in 1..m : i + 2 <= m /\ n[i] = "_"
                                                       /\ n[i + 1] = w /\ n[i + 2] = "_"}
        /\ Ends(n, <<"_", w, "_">>) <=> /\ n[m - 2] = "_" /\ n[m - 1] = w
                                        /\ n[m] = "_"
  <2> SUFFICES ASSUME NEW w \in {"Request", "Response"}
               PROVE  /\ At(n, <<"_", w, "_">>) = {i \in 1..m : i + 2 <= m /\ n[i] = "_"
                                                                 /\ n[i + 1] = w /\ n[i + 2] = "_"}
                      /\ Ends(n, <<"_", w, "_">>) <=> /\ n[m - 2] = "_" /\ n[m - 1] = w
                                                      /\ n[m] = "_"
    OBVIOUS
  <2>1. PICK s \in Seq(TypeTokens) : s = <<"_", w, "_">> /\ Len(s) = 3
                                     /\ s[1] = "_" /\ s[2] = w /\ s[3] = "_"
    <3>1. w \in TypeTokens /\ "_" \in TypeTokens
      BY Words
    <3>2. \A S : \A x, y, z \in S :
            /\ <<x, y, z>> \in Seq(S) /\ Len(<<x, y, z>>) = 3
            /\ <<x, y, z>>[1] = x /\ <<x, y, z>>[2] = y /\ <<x, y, z>>[3] = z
      OBVIOUS
    <3>3. /\ <<"_", w, "_">> \in Seq(TypeTokens) /\ Len(<<"_", w, "_">>) = 3
          /\ <<"_", w, "_">>[1] = "_" /\ <<"_", w, "_">>[2] = w /\ <<"_", w, "_">>[3] = "_"
      BY <3>1, <3>2, Zenon
    <3> QED
      BY <3>3, Zenon
  <2>2. m >= 6
    BY <1>2
  <2>3. /\ At(n, s) = {i \in 1..m : i + 3 - 1 <= m /\ \A j \in 1..3 : n[i + j - 1] = s[j]}
        /\ Ends(n, s) <=> m >= 3 /\ \A j \in 1..3 : n[m - 3 + j] = s[j]
    <3>1. /\ At(n, s) = {i \in 1..Len(n) : i + Len(s) - 1 <= Len(n)
                                            /\ \A j \in 1..Len(s) : n[i + j - 1] = s[j]}
          /\ Ends(n, s) <=> /\ Len(n) >= Len(s)
                            /\ \A j \in 1..Len(s) : n[Len(n) - Len(s) + j] = s[j]
      <4>1. n \in Seq(TypeTokens)
        BY <1>0
      <4> QED
        BY <4>1, Occurs
    <3> QED
      BY <1>1, <2>1, <3>1, Zenon
  <2>4. \A i \in 1..m : /\ i + 3 - 1 <= m <=> i + 2 <= m
                        /\ (\A j \in 1..3 : n[i + j - 1] = s[j])
                             <=> n[i] = s[1] /\ n[i + 1] = s[2] /\ n[i + 2] = s[3]
    <3> SUFFICES ASSUME NEW i \in 1..m
                 PROVE  /\ i + 3 - 1 <= m <=> i + 2 <= m
                        /\ (\A j \in 1..3 : n[i + j - 1] = s[j])
                             <=> n[i] = s[1] /\ n[i + 1] = s[2] /\ n[i + 2] = s[3]
      OBVIOUS
    <3>1. i + 1 - 1 = i /\ i + 2 - 1 = i + 1 /\ i + 3 - 1 = i + 2
      BY <2>2
    <3>2. 1 \in 1..3 /\ 2 \in 1..3 /\ 3 \in 1..3 /\ \A j \in 1..3 : j = 1 \/ j = 2 \/ j = 3
      OBVIOUS
    <3>3. (\A j \in 1..3 : n[i + j - 1] = s[j])
            <=> n[i + 1 - 1] = s[1] /\ n[i + 2 - 1] = s[2] /\ n[i + 3 - 1] = s[3]
      BY <3>2, Zenon
    <3> QED
      BY <3>1, <3>3
  <2>5. (\A j \in 1..3 : n[m - 3 + j] = s[j])
           <=> n[m - 2] = s[1] /\ n[m - 1] = s[2] /\ n[m] = s[3]
    <3>1. m - 3 + 1 = m - 2 /\ m - 3 + 2 = m - 1 /\ m - 3 + 3 = m
      BY <2>2
    <3>2. 1 \in 1..3 /\ 2 \in 1..3 /\ 3 \in 1..3 /\ \A j \in 1..3 : j = 1 \/ j = 2 \/ j = 3
      OBVIOUS
    <3>3. (\A j \in 1..3 : n[m - 3 + j] = s[j])
            <=> n[m - 3 + 1] = s[1] /\ n[m - 3 + 2] = s[2] /\ n[m - 3 + 3] = s[3]
      BY <3>2, Zenon
    <3> QED
      BY <3>1, <3>3
  <2>6. At(n, s) = {i \in 1..m : i + 2 <= m /\ n[i] = s[1] /\ n[i + 1] = s[2] /\ n[i + 2] = s[3]}
    BY <2>3, <2>4
  <2>7. Ends(n, s) <=> n[m - 2] = s[1] /\ n[m - 1] = s[2] /\ n[m] = s[3]
    BY <2>2, <2>3, <2>5
  <2> QED
    BY <2>1, <2>2, <2>6, <2>7, Zenon
<1>7. CASE suffix = <<>>
  <2>1. m = 6 + l
    <3>1. k = 0
      BY <1>1, <1>7, EmptySeq
    <3> QED
      BY <1>2, <3>1
  <2>2. ~Ends(n, <<"_", "Response", "_">>)
    <3>1. m - 2 \in 1..m /\ m - 2 # 1 /\ m - 2 # 6 + l /\ ~(m - 2 > 6 + l)
      BY <1>2, <2>1
    <3>2. n[m - 2] # "_"
      BY <1>5, <3>1, Zenon
    <3> QED
      BY <1>6, <3>2, Zenon
  <2>3. At(n, <<"_", "Request", "_">>) = {}
    <3>1. ASSUME NEW i \in 1..m, i + 2 <= m, n[i] = "_", n[i + 1] = "Request"
          PROVE  FALSE
      <4>1. i = 1 \/ i = 6 + l \/ i > 6 + l
        BY <1>5, <3>1, Zenon
      <4>2. i + 2 <= m
        BY <3>1
      <4>3. i = 1 /\ i + 1 = 2
        BY <1>2, <2>1, <4>1, <4>2
      <4>4. n[2] = "Request"
        BY <3>1, <4>3, Zenon
      <4> QED
        BY <1>3, <4>4
    <3>2. At(n, <<"_", "Request", "_">>)
            = {i \in 1..m : i + 2 <= m /\ n[i] = "_" /\ n[i + 1] = "Request" /\ n[i + 2] = "_"}
      BY <1>6, Zenon
    <3> QED
      BY <3>1, <3>2, Zenon
  <2> QED
    BY <1>7, <2>2, <2>3, Zenon DEF SuffixOf
<1>8. CASE suffix # <<>>
  <2>1. PICK w \in {"Request", "Response"} :
          suffix = <<w, "_">> /\ Len(suffix) = 2 /\ suffix[1] = w /\ suffix[2] = "_"
    BY <1>8, SuffixType, Zenon
  <2>2. k = 2
    BY <1>1, <2>1, Zenon
  <2>3. PICK e \in Nat : e = 6 + l
    BY <1>2
  <2>4. /\ m = e + 2 /\ m - 2 = e /\ m - 1 = e + 1 /\ e \in 1..m /\ e + 2 <= m
        /\ 1 \in 1..2 /\ 2 \in 1..2
    BY <1>2, <2>2, <2>3
  <2>5. n[e] = "_" /\ n[e + 1] = w /\ n[e + 2] = "_"
    BY <1>3, <2>1, <2>2, <2>3, <2>4, Zenon
  <2>6. CASE w = "Response"
    <3>1. Ends(n, <<"_", "Response", "_">>)
      BY <1>6, <2>4, <2>5, <2>6, Zenon
    <3> QED
      BY <1>1, <1>8, <2>3, <2>4, <3>1, Zenon DEF SuffixOf
  <2>7. CASE w = "Request"
    <3>1. ~Ends(n, <<"_", "Response", "_">>)
      <4>1. n[m - 1] # "Response"
        BY <2>4, <2>5, <2>7
      <4> QED
        BY <1>6, <4>1, Zenon
    <3>2. PICK A : A = At(n, <<"_", "Request", "_">>)
      OBVIOUS
    <3>3. A = {i \in 1..m : i + 2 <= m /\ n[i] = "_" /\ n[i + 1] = "Request" /\ n[i + 2] = "_"}
      BY <1>6, <3>2, Zenon
    <3>4. e \in A
      BY <2>4, <2>5, <2>7, <3>3, Zenon
    <3>5. \A i \in A : i \in Int /\ e >= i
      <4>1. \A i \in A : i \in 1..m /\ i + 2 <= m
        BY <3>3, Zenon
      <4> QED
        BY <2>4, <4>1
    <3>6. \A i \in A : (\A j \in A : i >= j) => i = e
      BY <3>4, <3>5
    <3>7. Largest(A) = e
      BY <3>4, <3>5, <3>6 DEF Largest
    <3>8. A # {}
      BY <3>4
    <3> QED
      BY <1>1, <1>8, <2>3, <3>1, <3>2, <3>7, <3>8, Zenon DEF SuffixOf
  <2> QED
    BY <2>6, <2>7
<1> QED
  BY <1>7, <1>8

\* type_name.cpp and demangle.cpp: the type of a message, of a request and of a response
\* is listed under the name ROS gives it, whichever binding made it; one that a
\* client has from C and a service from C++ is the same; and a message is not taken for
\* a service
THEOREM EveryTypeComesBack ==
  \A package, name : OfAType(package, name) => TypeComesBack(package, name)
<1> SUFFICES ASSUME NEW package, NEW name, OfAType(package, name)
             PROVE  TypeComesBack(package, name)
  OBVIOUS
<1> DEFINE c == <<package, "__", "srv">>
           cpp == <<package, "::", "srv">>
           ros == <<package, "/", "srv", "/">> \o name
<1>1. <<>> \in Suffixes /\ <<"Request", "_">> \in Suffixes /\ <<"Response", "_">> \in Suffixes
  BY Zenon DEF Suffixes
<1>2. <<"Request", "_">> # <<>> /\ <<"Response", "_">> # <<>>
  OBVIOUS
<1>3. PICK l \in Nat : l = Len(name)
  <2>1. name \in Seq(TypeTokens)
    BY OfATypeType
  <2> QED
    BY <2>1
<1>4. ASSUME NEW suffix \in Suffixes, NEW type, type = get_type_name(c, name, suffix)
      PROVE  /\ type = get_type_name(cpp, name, suffix)
             /\ suffix = <<>> => /\ demangle_if_ros_type(type) = ros
                                 /\ demangle_service_type_only(type) = Nothing
             /\ suffix # <<>> => demangle_service_type_only(type) = ros
  <2>1. type = get_type_name(cpp, name, suffix) /\ IsType(type, package, name, suffix)
    BY <1>4, TypeParts, Zenon
  <2>0. type \in Seq(TypeTokens) /\ name \in Seq(TypeTokens) /\ suffix \in Seq(TypeTokens)
    BY <2>1, TypeLength
  <2>2. At(type, <<"dds_::">>) # {} /\ Smallest(At(type, <<"dds_::">>)) = 5
    BY <2>1, DdsFound
  <2>3. Swap(SubSeq(type, 1, 4), "::", "/") = <<package, "/", "srv", "/">>
    BY <2>1, FrontSwapped
  <2>4. SubSeq(type, 6, 5 + l) = name
    BY <1>3, <2>1, NameBetween
  <2>5. SuffixOf(type) = IF suffix = <<>> THEN 0 ELSE 6 + l
    BY <1>3, <2>1, SuffixFound
  <2>6. CASE suffix = <<>>
    <3>1. PICK m \in Nat : m = Len(type) /\ m = 6 + l
      <4>1. Len(type) = 6 + Len(name) + Len(suffix) /\ Len(type) \in Nat
        BY <2>1, TypeLength
      <4>2. Len(suffix) = 0
        BY <2>6, EmptySeq
      <4> QED
        BY <1>3, <4>1, <4>2
    <3>2. Ends(type, <<"_">>)
      <4>1. PICK s \in Seq(TypeTokens) : s = <<"_">> /\ Len(s) = 1 /\ s[1] = "_"
        BY Words, One
      <4>2. type[6 + l] = "_"
        BY <1>3, <2>1, Zenon DEF IsType
      <4>3. m >= 1 /\ \A k \in 1..1 : k = 1 /\ m - 1 + k = 6 + l
        BY <3>1
      <4>4. Len(type) >= Len(s) /\ \A k \in 1..Len(s) : type[Len(type) - Len(s) + k] = s[k]
        BY <3>1, <4>1, <4>2, <4>3, Zenon
      <4>5. Ends(type, s)
        BY <2>0, <4>4, Occurs
      <4> QED
        BY <4>1, <4>5
    <3>3. 5 - 1 = 4 /\ 5 + 1 = 6 /\ Len(type) - 1 = 5 + l
      <4>1. m - 1 = 5 + l
        BY <3>1
      <4> QED
        BY <3>1, <4>1
    <3>4. demangle_if_ros_type(type) = ros
      BY <2>2, <2>3, <2>4, <3>2, <3>3, Zenon DEF demangle_if_ros_type
    <3>5. demangle_service_type_only(type) = Nothing
      BY <2>5, <2>6, Zenon DEF demangle_service_type_only
    <3> QED
      BY <2>1, <2>6, <3>4, <3>5
  <2>7. CASE suffix # <<>>
    <3>1. SuffixOf(type) = 6 + l
      BY <2>5, <2>7
    <3>2. /\ SuffixOf(type) # 0 /\ ~(SuffixOf(type) < 6) /\ SuffixOf(type) - 1 = 5 + l
          /\ 5 + 1 = 6 /\ 6 - 2 = 4
      BY <1>3, <3>1
    <3>3. demangle_service_type_only(type) = ros
      BY <2>2, <2>3, <2>4, <3>2, Zenon DEF demangle_service_type_only
    <3> QED
      BY <2>1, <2>7, <3>3
  <2> QED
    BY <2>6, <2>7
<1> HIDE DEF c, cpp, ros
<1>5. ASSUME NEW suffix \in {<<"Request", "_">>, <<"Response", "_">>}
      PROVE  LET type == get_type_name(c, name, suffix) IN
             /\ type = get_type_name(cpp, name, suffix)
             /\ demangle_service_type_only(type) = ros
             /\ demangle_if_ros_type(get_type_name(c, name, <<>>)) = ros
             /\ demangle_service_type_only(get_type_name(c, name, <<>>)) = Nothing
  <2>1. suffix \in Suffixes /\ suffix # <<>>
    BY <1>1, <1>2, Zenon
  <2> QED
    BY <1>1, <1>4, <2>1, Zenon
<1> QED
  BY <1>5, Zenon DEF c, cpp, ros, TypeComesBack
=============================================================================
