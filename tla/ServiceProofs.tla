--------------------------- MODULE ServiceProofs ---------------------------
(***************************************************************************)
(* What is proved about Service for every set of clients and services,     *)
(* every choice of those that are old, and every number of requests.       *)
(***************************************************************************)
EXTENDS Service, SequenceTheorems, FiniteSetTheorems, TLAPS

-----------------------------------------------------------------------------
(***************************************************************************)
(* The invariant.  Whatever request is about, in flight, in a reader or    *)
(* with a service, was sent.  Once a response is due to a client, that the *)
(* service has matched its reader cannot be undone but by the end of that  *)
(* reader; and a peer lives once.                                          *)
(***************************************************************************)
Sent(r) == r \in Requests /\ r.seq \in sent[r.guid]
RequestsSent ==
  /\ \A m \in flight : Sent(m.req)
  /\ \A p \in Peers : \A i \in DOMAIN history[p] : Sent(history[p][i].req)
  /\ \A s \in Services : spc[s] # "idle" => Sent(header[s])

\* the peer has, or had, a reader; it has no more
HadReader(p) == stage[p] \in {"up", "readerless", "gone"}
PastReader(p) == stage[p] \in {"readerless", "gone"}
MatchedWereThere == \A p \in Peers : \A q \in readers[p] : HadReader(q)
BusyAreUp == \A s \in Services : spc[s] # "idle" => stage[s] = "up"

\* a service that is about to respond has matched the client's reader, unless
\* the client is old or is gone
VerdictHolds ==
  \A s \in Services : LET c == header[s].guid IN
    spc[s] = "verdict" /\ st[s] = "YES" /\ HasId(c) => c \in readers[s] \/ PastReader(c)

\* where a response is that was written to a matched reader
Kept(a) == LET c == a.req.guid IN
  \/ [from |-> a.from, to |-> c, req |-> a.req] \in flight
  \/ \E i \in DOMAIN history[c] : history[c][i].req = a.req
  \/ a.req \in got[c]
AnsweredKept ==
  \A a \in answered : LET c == a.req.guid IN
    /\ HadReader(a.from)
    /\ HasId(c) => HadReader(c)
    /\ HasId(c) /\ HasReader(c) /\ HasWriter(a.from) /\ KeepsUp(c) => Kept(a)

\* a client that is not behind never has more coming than its reader keeps, and
\* no request is written to it
ClientsMatchServices == \A c \in Clients : readers[c] \subseteq Services
UnreadFits ==
  \A c \in Clients : IsFiniteSet(Coming(c)) /\ (c \in behind \/ Unread(c) <= Depth)

CoreInv ==
  /\ TypeOK /\ RequestsSent /\ MatchedWereThere /\ BusyAreUp /\ VerdictHolds
  /\ OwnResponses /\ AnsweredKept
ServiceInv == CoreInv /\ ClientsMatchServices /\ UnreadFits
-----------------------------------------------------------------------------
(***************************************************************************)
(* Histories: what is in one after a sample, and how full it can be.       *)
(***************************************************************************)
\* a sample that arrives is in the history, with what was there before: all of it
\* unless the history keeps the last Depth and is full
LEMMA Pushed ==
  ASSUME NEW h \in Seq(Samples), NEW m \in Samples
  PROVE  /\ Push(h, m) \in Seq(Samples)
         /\ Len(Push(h, m)) <= Len(h) + 1
         /\ \E i \in DOMAIN Push(h, m) : Push(h, m)[i] = m
         /\ \A i \in DOMAIN Push(h, m) :
              Push(h, m)[i] = m \/ \E j \in DOMAIN h : Push(h, m)[i] = h[j]
         /\ KeepAll \/ Len(h) < Depth =>
              \A j \in DOMAIN h : \E i \in DOMAIN Push(h, m) : Push(h, m)[i] = h[j]
<1>1. ASSUME NEW g \in Seq(Samples)
      PROVE  /\ Append(g, m) \in Seq(Samples) /\ Len(Append(g, m)) = Len(g) + 1
             /\ \E i \in DOMAIN Append(g, m) : Append(g, m)[i] = m
             /\ \A i \in DOMAIN Append(g, m) :
                  Append(g, m)[i] = m \/ \E j \in DOMAIN g : Append(g, m)[i] = g[j]
             /\ \A j \in DOMAIN g : \E i \in DOMAIN Append(g, m) : Append(g, m)[i] = g[j]
  <2>1. /\ Append(g, m) \in Seq(Samples) /\ Len(Append(g, m)) = Len(g) + 1
        /\ DOMAIN g = 1..Len(g) /\ Len(g) \in Nat
        /\ DOMAIN Append(g, m) = 1..(Len(g) + 1)
        /\ \A i \in 1..Len(g) : Append(g, m)[i] = g[i]
        /\ Append(g, m)[Len(g) + 1] = m
    BY AppendProperties
  <2> DEFINE n == Len(g)
  <2>2. 1..n \subseteq 1..(n + 1) /\ n + 1 \in 1..(n + 1) /\ \A i \in 1..(n + 1) : i \notin 1..n => i = n + 1
    BY <2>1
  <2> QED
    BY <2>1, <2>2
<1>2. CASE KeepAll \/ Len(h) < Depth
  BY <1>1, <1>2 DEF Push
<1>3. CASE ~(KeepAll \/ Len(h) < Depth)
  <2>1. h # <<>> /\ Len(h) \in Nat /\ DOMAIN h = 1..Len(h)
    BY <1>3, QoSAssumption, EmptySeq
  <2>2. /\ Tail(h) \in Seq(Samples) /\ Len(Tail(h)) = Len(h) - 1
        /\ \A j \in 1..(Len(h) - 1) : Tail(h)[j] = h[j + 1]
    BY <2>1, HeadTailProperties
  <2>3. \A j \in DOMAIN Tail(h) : \E k \in DOMAIN h : Tail(h)[j] = h[k]
    <3>1. DOMAIN Tail(h) = 1..(Len(h) - 1)
      BY <2>2
    <3>2. \A j \in 1..(Len(h) - 1) : j + 1 \in DOMAIN h
      BY <2>1
    <3> QED
      BY <2>2, <3>1, <3>2
  <2>4. Push(h, m) = Append(Tail(h), m)
    BY <1>3 DEF Push
  <2>5. Len(Append(Tail(h), m)) = Len(Tail(h)) + 1
    BY <1>1, <2>2
  <2>6. Len(Push(h, m)) <= Len(h) + 1
    BY <2>1, <2>2, <2>4, <2>5
  <2> PICK g \in Seq(Samples) : g = Tail(h)
    BY <2>2
  <2>7. /\ Append(g, m) \in Seq(Samples)
        /\ \E i \in DOMAIN Append(g, m) : Append(g, m)[i] = m
        /\ \A i \in DOMAIN Append(g, m) :
             Append(g, m)[i] = m \/ \E j \in DOMAIN g : Append(g, m)[i] = g[j]
    BY <1>1
  <2>8. \A i \in DOMAIN Append(g, m) :
             Append(g, m)[i] = m \/ \E j \in DOMAIN h : Append(g, m)[i] = h[j]
    BY <2>3, <2>7
  <2>9. Push(h, m) = Append(g, m)
    BY <2>4
  <2> QED
    BY <1>3, <2>6, <2>7, <2>8, <2>9
<1> QED
  BY <1>2, <1>3

\* what one writer has on its way to a client is among what all have
LEMMA BacklogType ==
  ASSUME UnreadFits, NEW m \in flight, m.to \in Clients
  PROVE  /\ Cardinality(Backlog(m)) \in Nat
         /\ Cardinality(Backlog(m)) <= Cardinality(Coming(m.to))
<1>1. IsFiniteSet(Coming(m.to)) /\ Backlog(m) \in SUBSET Coming(m.to)
  BY DEF UnreadFits, Backlog, Coming
<1> QED
  BY <1>1, FS_Subset, FS_CardinalityType

\* a client that is not behind has room for what is coming
LEMMA NotFull ==
  ASSUME TypeOK, UnreadFits, NEW m \in flight, m.to \in Clients, m.to \notin behind
  PROVE  Len(history[m.to]) < Depth /\ Cardinality(Backlog(m)) <= Depth
<1>1. IsFiniteSet(Coming(m.to)) /\ m \in Coming(m.to)
  BY DEF UnreadFits, Coming
<1>2. Cardinality(Coming(m.to)) \in Nat /\ Cardinality(Coming(m.to)) # 0
  BY <1>1, FS_CardinalityType, FS_EmptySet
<1>3. Len(history[m.to]) \in Nat
  BY DEF TypeOK, Peers
<1>4. Cardinality(Coming(m.to)) + Len(history[m.to]) <= Depth
  BY DEF UnreadFits, Unread
<1> QED
  BY <1>2, <1>3, <1>4, BacklogType, QoSAssumption
-----------------------------------------------------------------------------
(***************************************************************************)
(* Type correctness.                                                       *)
(***************************************************************************)
\* a request that was sent is no NoRequest, and its writer a client
LEMMA SentIsRequest ==
  ASSUME NEW r, Sent(r)
  PROVE  r \in Requests /\ r.guid \in Clients /\ r.seq \in Seqs
BY DEF Sent, Requests

\* a sample carries a request
LEMMA SampleType ==
  /\ \A m \in Samples : m.from \in Peers /\ m.to \in Peers /\ m.req \in Requests
  /\ \A r \in Requests : r.guid \in Clients /\ r.seq \in Seqs
BY DEF Samples, Requests

\* what a peer writes are samples
LEMMA Written ==
  ASSUME TypeOK, NEW p \in Peers, NEW r \in Requests, Write(p, r)
  PROVE  /\ flight' \subseteq Samples
         /\ \A m \in flight' : m \in flight \/ m.req = r
         /\ \A q \in readers[p] : [from |-> p, to |-> q, req |-> r] \in flight'
         /\ flight \subseteq flight'
<1>1. readers[p] \subseteq Peers
  BY DEF TypeOK
<1> QED
  BY <1>1 DEF TypeOK, Write, Samples

\* the id of the next request is one of the 2^32
LEMMA NextIdType == TypeOK => NextId \in Seqs
<1> SUFFICES ASSUME TypeOK PROVE (next_request_id + 1) % SeqMod \in 0..(SeqMod - 1)
  BY DEF NextId, Seqs
<1>1. SeqMod \in Nat \ {0} /\ next_request_id + 1 \in Nat
  BY BoundAssumption DEF TypeOK, Seqs
<1> QED
  BY <1>1

\* the endpoints of a peer, and the types of what they know and have
LEMMA TypeEndpoint ==
  ASSUME TypeOK, NEW p \in Peers, EndpointStep(p)
  PROVE  TypeOK'
<1>1. \A q \in Other(p) : q \in Peers
  BY DEF Other, Peers
<1>2. CASE InitWriter(p) \/ InitReader(p) \/ FiniWriter(p)
  BY <1>2, ZenonT(40) DEF TypeOK, InitWriter, InitReader, FiniWriter, Advance, csvars, avars, found, svars
<1>3. CASE FiniReader(p)
  BY <1>3 DEF TypeOK, FiniReader, Advance, csvars, avars, found, svars
<1>4. ASSUME NEW q \in Other(p), WriterFinds(p, q) \/ WriterLoses(p, q)
      PROVE  TypeOK'
  <2>1. \/ readers' = [readers EXCEPT ![p] = readers[p] \cup {q}]
        \/ readers' = [readers EXCEPT ![p] = readers[p] \ {q}]
    BY <1>4 DEF WriterFinds, WriterLoses
  <2>2. readers' \in [Peers -> SUBSET Peers]
    <3>1. readers[p] \cup {q} \in SUBSET Peers /\ readers[p] \ {q} \in SUBSET Peers
      BY <1>1 DEF TypeOK
    <3>2. PICK S \in SUBSET Peers : readers' = [readers EXCEPT ![p] = S]
      BY <2>1, <3>1
    <3> QED
      BY <3>2 DEF TypeOK
  <2> QED
    BY <1>4, <2>2 DEF TypeOK, WriterFinds, WriterLoses, csvars, avars, found, svars
<1>5. ASSUME NEW q \in Other(p), ReaderFinds(p, q) \/ ReaderLoses(p, q)
      PROVE  TypeOK'
  <2>1. \/ writers' = [writers EXCEPT ![p] = writers[p] \cup {q}]
        \/ writers' = [writers EXCEPT ![p] = writers[p] \ {q}]
    BY <1>5 DEF ReaderFinds, ReaderLoses
  <2>2. writers' \in [Peers -> SUBSET Peers]
    <3>1. writers[p] \cup {q} \in SUBSET Peers /\ writers[p] \ {q} \in SUBSET Peers
      BY <1>1 DEF TypeOK
    <3>2. PICK S \in SUBSET Peers : writers' = [writers EXCEPT ![p] = S]
      BY <2>1, <3>1
    <3> QED
      BY <3>2 DEF TypeOK
  <2> QED
    BY <1>5, <2>2 DEF TypeOK, ReaderFinds, ReaderLoses, csvars, avars, found, svars
<1> QED
  BY <1>2, <1>3, <1>4, <1>5 DEF EndpointStep

\* a sample arrives, or does not
LEMMA TypeSample ==
  ASSUME TypeOK, NEW m \in flight, Deliver(m) \/ Lose(m)
  PROVE  TypeOK'
<1>1. m \in Samples /\ m.to \in Peers
  BY DEF TypeOK, Samples
<1>2. Push(history[m.to], m) \in Seq(Samples)
  BY <1>1, Pushed DEF TypeOK
<1>3. CASE Deliver(m)
  <2>1. history' = [history EXCEPT ![m.to] = Push(history[m.to], m)]
    BY <1>3 DEF Deliver
  <2>2. history' \in [Peers -> Seq(Samples)]
    BY <1>1, <1>2, <2>1 DEF TypeOK
  <2> QED
    BY <1>3, <2>2 DEF TypeOK, Deliver, csvars, avars, found, svars
<1>4. CASE Lose(m)
  BY <1>4 DEF TypeOK, Lose, csvars, avars, found, svars
<1> QED
  BY <1>3, <1>4

\* what the client takes, of its own, is the request of a sample
LEMMA TypeClient ==
  ASSUME TypeOK, NEW c \in Clients, ClientStep(c)
  PROVE  TypeOK'
<1>1. c \in Peers /\ c \notin Services
  BY PeerAssumption DEF Peers
<1>2. CASE SendRequest(c)
  <2>1. NextId \in Seqs /\ [guid |-> c, seq |-> NextId] \in Requests
    BY NextIdType DEF Requests
  <2>2. flight' \subseteq Samples
    BY <1>1, <1>2, <2>1, Written DEF SendRequest
  <2> QED
    BY <1>2, <2>1, <2>2 DEF TypeOK, SendRequest, avars, found, svars
<1>3. CASE TakeResponse(c)
  <2>1. /\ history[c] \in Seq(Samples) /\ Len(history[c]) \in Nat
        /\ DOMAIN history[c] = 1..Len(history[c])
    BY <1>1 DEF TypeOK
  <2>2. \A i \in DOMAIN history[c] : history[c][i].req \in Requests
    BY <2>1, ElementOfSeq, SampleType
  <2>3. history' \in [Peers -> Seq(Samples)]
    <3>1. \A i \in DOMAIN history[c] : SubSeq(history[c], i + 1, Len(history[c])) \in Seq(Samples)
      BY <2>1, SubSeqProperties
    <3>2. CASE Own(c) = {}
      <4>1. history' = [history EXCEPT ![c] = <<>>]
        BY <1>3, <3>2 DEF TakeResponse
      <4>2. history \in [Peers -> Seq(Samples)] /\ <<>> \in Seq(Samples)
        BY EmptySeq DEF TypeOK
      <4> QED
        BY <4>1, <4>2
    <3>3. CASE Own(c) # {}
      <4>1. PICK i \in DOMAIN history[c] :
              history' = [history EXCEPT ![c] = SubSeq(history[c], i + 1, Len(history[c]))]
        BY <1>3, <3>3 DEF TakeResponse, Own
      <4> QED
        BY <3>1, <4>1 DEF TypeOK
    <3> QED
      BY <3>2, <3>3
  <2>4. got' \in [Clients -> SUBSET Requests]
    <3>1. CASE Own(c) = {}
      BY <1>3, <3>1 DEF TypeOK, TakeResponse
    <3>2. CASE Own(c) # {}
      <4>1. PICK i \in DOMAIN history[c] :
              got' = [got EXCEPT ![c] = got[c] \cup {history[c][i].req}]
        BY <1>3, <3>2 DEF TakeResponse, Own
      <4>2. got[c] \cup {history[c][i].req} \subseteq Requests
        BY <2>2 DEF TypeOK
      <4> QED
        BY <4>1, <4>2 DEF TypeOK
    <3> QED
      BY <3>1, <3>2
  <2> QED
    BY <1>3, <2>3, <2>4 DEF TypeOK, TakeResponse, avars, found, svars
<1>4. CASE AskReaders(c)
  BY <1>1, <1>4 DEF TypeOK, AskReaders, net, csvars, svars
<1>5. CASE AskWriters(c)
  BY <1>1, <1>5 DEF TypeOK, AskWriters, net, csvars, svars
<1>6. CASE CompareServices(c)
  <2>1. ServiceFound(c) \in BOOLEAN
    BY DEF ServiceFound
  <2> QED
    BY <1>1, <1>6, <2>1 DEF TypeOK, CompareServices, net, csvars, svars
<1> QED
  BY <1>2, <1>3, <1>4, <1>5, <1>6 DEF ClientStep

\* what a service responds to is a request
LEMMA TypeService ==
  ASSUME TypeOK, RequestsSent, NEW s \in Services, TakeRequest(s) \/ ResponseStep(s)
  PROVE  TypeOK'
<1>1. s \in Peers
  BY DEF Peers
<1>2. CASE TakeRequest(s)
  <2>1. /\ history[s] \in Seq(Samples) /\ history[s] # <<>>
    BY <1>1, <1>2 DEF TypeOK, TakeRequest
  <2>2. Head(history[s]).req \in Requests /\ Tail(history[s]) \in Seq(Samples)
    BY <2>1, HeadTailProperties, SampleType
  <2> QED
    BY <1>2, <2>2 DEF TypeOK, TakeRequest, csvars, avars, found
<1>3. CASE CheckWriter(s) \/ CompareReaders(s)
  BY <1>1, <1>3, ZenonT(40) DEF TypeOK, CheckWriter, CompareReaders, net, csvars, avars, found
<1>4. CASE ListReaders(s)
  BY <1>1, <1>4, ZenonT(40) DEF TypeOK, ListReaders, net, csvars, avars
<1>5. CASE Sleep(s)
  <2>1. \A n \in (polls[s] + 1)..Polls : n \in 0..Polls
    BY BoundAssumption DEF TypeOK
  <2>2. polls' \in [Services -> 0..Polls]
    BY <1>5, <2>1 DEF TypeOK, Sleep
  <2> QED
    BY <1>5, <2>2 DEF TypeOK, Sleep, net, csvars, avars, found
<1>6. CASE DropResponse(s)
  BY <1>6, BoundAssumption DEF TypeOK, DropResponse, net, csvars, avars, found
<1>7. CASE SendResponse(s)
  <2>1. header[s] \in Requests
    BY <1>7 DEF SendResponse, RequestsSent, Sent
  <2>2. flight' \subseteq Samples
    BY <1>1, <1>7, <2>1, Written DEF SendResponse
  <2>3. answered' \subseteq [from : Services, req : Requests]
    BY <1>7, <2>1 DEF TypeOK, SendResponse
  <2> QED
    BY <1>7, <2>2, <2>3, BoundAssumption DEF TypeOK, SendResponse, csvars, avars, found
<1> QED
  BY <1>2, <1>3, <1>4, <1>5, <1>6, <1>7 DEF ResponseStep

\* every step keeps the types
LEMMA TypeStep == TypeOK /\ RequestsSent /\ [Next]_vars => TypeOK'
<1>1. CASE UNCHANGED vars
  BY <1>1 DEF TypeOK, vars, net, csvars, avars, found, svars
<1> QED
  BY <1>1, TypeEndpoint, TypeSample, TypeClient, TypeService DEF Next
-----------------------------------------------------------------------------
(***************************************************************************)
(* The steps, property by property.                                        *)
(***************************************************************************)
\* what the requests about, the peers in a call and the matched readers depend
\* on does not change when nobody writes, takes, calls, appears or leaves
LEMMA InvIsOfState ==
  /\ RequestsSent /\ UNCHANGED <<flight, history, sent, spc, header>> => RequestsSent'
  /\ MatchedWereThere /\ UNCHANGED <<stage, readers>> => MatchedWereThere'
  /\ BusyAreUp /\ UNCHANGED <<stage, spc>> => BusyAreUp'
  /\ VerdictHolds /\ UNCHANGED <<stage, readers, spc, header, st>> => VerdictHolds'
  /\ OwnResponses /\ UNCHANGED <<sent, got>> => OwnResponses'
  /\ AnsweredKept /\ UNCHANGED <<stage, flight, history, got, answered, behind>> => AnsweredKept'
<1>1. RequestsSent /\ UNCHANGED <<flight, history, sent, spc, header>> => RequestsSent'
  BY DEF RequestsSent, Sent
<1>2. MatchedWereThere /\ UNCHANGED <<stage, readers>> => MatchedWereThere'
  BY DEF MatchedWereThere, HadReader
<1>3. BusyAreUp /\ UNCHANGED <<stage, spc>> => BusyAreUp'
  BY DEF BusyAreUp
<1>4. VerdictHolds /\ UNCHANGED <<stage, readers, spc, header, st>> => VerdictHolds'
  BY DEF VerdictHolds, HasId, PastReader
<1>5. OwnResponses /\ UNCHANGED <<sent, got>> => OwnResponses'
  BY DEF OwnResponses
<1>6. AnsweredKept /\ UNCHANGED <<stage, flight, history, got, answered, behind>> => AnsweredKept'
  BY DEF AnsweredKept, Kept, KeepsUp, HadReader, HasReader, HasWriter, HasId
<1> QED
  BY <1>1, <1>2, <1>3, <1>4, <1>5, <1>6

\* the endpoints of a peer come and go one by one and never come again: what is
\* on its way to a client in time stays there until its reader ends
LEMMA InvEndpoint ==
  ASSUME CoreInv, TypeOK', NEW p \in Peers, EndpointStep(p)
  PROVE  CoreInv'
<1>1. /\ TypeOK /\ RequestsSent /\ MatchedWereThere /\ BusyAreUp /\ VerdictHolds
      /\ OwnResponses /\ AnsweredKept
  BY DEF CoreInv
<1>2. UNCHANGED <<flight, csvars, svars>>
  BY DEF EndpointStep, InitWriter, InitReader, FiniReader, FiniWriter, WriterFinds, ReaderFinds,
         WriterLoses, ReaderLoses
<1>3. OwnResponses'
  BY <1>1, <1>2, InvIsOfState DEF csvars
<1>4. CASE InitWriter(p) \/ InitReader(p) \/ FiniWriter(p)
  <2>1. RequestsSent'
    BY <1>1, <1>2, <1>4, InvIsOfState DEF InitWriter, InitReader, FiniWriter, csvars, svars
  <2>2. /\ \A q \in Peers : q # p => stage'[q] = stage[q]
        /\ <<stage[p], stage'[p]>> \in {<<"none", "writer">>, <<"writer", "up">>, <<"readerless", "gone">>}
        /\ \A q \in Peers : readers'[q] \subseteq readers[q] /\ (q # p => readers'[q] = readers[q])
    BY <1>1, <1>4 DEF InitWriter, InitReader, FiniWriter, Advance, TypeOK
  <2>3. \A q \in Peers : HadReader(q) => HadReader(q)'
    BY <2>2 DEF HadReader
  <2>4. MatchedWereThere'
    BY <1>1, <2>2, <2>3 DEF MatchedWereThere, TypeOK
  <2>5. BusyAreUp'
    BY <1>1, <1>2, <2>2 DEF BusyAreUp, TypeOK, svars, Peers
  <2>6. VerdictHolds'
    <3> SUFFICES ASSUME NEW s \in Services, spc[s] = "verdict", st[s] = "YES", HasId(header[s].guid)
                 PROVE  header[s].guid \in readers'[s] \/ PastReader(header[s].guid)'
      BY <1>2 DEF VerdictHolds, svars, HasId
    <3>1. s # p /\ readers'[s] = readers[s]
      BY <1>1, <2>2 DEF BusyAreUp, Peers
    <3>2. header[s].guid \in Peers
      BY <1>1, SentIsRequest DEF RequestsSent, Peers
    <3>3. PastReader(header[s].guid) => PastReader(header[s].guid)'
      BY <1>2, <2>2, <3>2 DEF PastReader, svars
    <3> QED
      BY <1>1, <3>1, <3>3 DEF VerdictHolds
  <2>7. AnsweredKept'
    <3> SUFFICES ASSUME NEW a \in answered
                 PROVE  /\ HadReader(a.from)'
                        /\ HasId(a.req.guid) => HadReader(a.req.guid)'
                        /\ HasId(a.req.guid) /\ HasReader(a.req.guid)' /\ HasWriter(a.from)'
                             /\ KeepsUp(a.req.guid) => Kept(a)'
      BY <1>2 DEF AnsweredKept, KeepsUp, svars, HasId
    <3>1. a.from \in Peers /\ a.req.guid \in Peers
      BY <1>1, SampleType DEF TypeOK, Peers
    <3>2. /\ HasReader(a.req.guid)' /\ HadReader(a.req.guid) => HasReader(a.req.guid)
          /\ HasWriter(a.from)' /\ HadReader(a.from) => HasWriter(a.from)
      BY <2>2, <3>1 DEF HasReader, HadReader, HasWriter
    <3>3. Kept(a) => Kept(a)'
      BY <1>2, <1>4 DEF Kept, InitWriter, InitReader, FiniWriter, csvars
    <3> QED
      BY <1>1, <2>3, <3>1, <3>2, <3>3 DEF AnsweredKept
  <2> QED
    BY <1>3, <2>1, <2>4, <2>5, <2>6, <2>7 DEF CoreInv
<1>5. CASE FiniReader(p)
  <2>1. /\ stage[p] = "up" /\ stage' = [stage EXCEPT ![p] = "readerless"]
        /\ readers' = readers /\ history' = [history EXCEPT ![p] = <<>>] /\ Idle(p)
    BY <1>5 DEF FiniReader, Advance
  <2>2. RequestsSent'
    BY <1>1, <1>2, <2>1 DEF RequestsSent, Sent, csvars, svars, TypeOK
  <2>3. MatchedWereThere'
    BY <1>1, <2>1 DEF MatchedWereThere, HadReader, TypeOK
  <2>4. BusyAreUp'
    BY <1>1, <1>2, <2>1, PeerAssumption DEF BusyAreUp, Idle, svars, TypeOK
  <2>5. \A q \in Peers : PastReader(q) => PastReader(q)'
    BY <1>1, <2>1 DEF PastReader, TypeOK
  <2>6. VerdictHolds'
    <3> SUFFICES ASSUME NEW s \in Services, spc[s] = "verdict", st[s] = "YES", HasId(header[s].guid)
                 PROVE  header[s].guid \in readers[s] \/ PastReader(header[s].guid)'
      BY <1>2, <2>1 DEF VerdictHolds, svars, HasId
    <3>1. header[s].guid \in Peers
      BY <1>1, SentIsRequest DEF RequestsSent, Peers
    <3> QED
      BY <1>1, <1>2, <2>5, <3>1 DEF VerdictHolds, PastReader, svars
  <2>7. AnsweredKept'
    <3> SUFFICES ASSUME NEW a \in answered
                 PROVE  /\ HadReader(a.from)'
                        /\ HasId(a.req.guid) => HadReader(a.req.guid)'
                        /\ HasId(a.req.guid) /\ HasReader(a.req.guid)' /\ HasWriter(a.from)'
                             /\ KeepsUp(a.req.guid) => Kept(a)'
      BY <1>2 DEF AnsweredKept, KeepsUp, svars, HasId
    <3>1. a.from \in Peers /\ a.req.guid \in Peers
      BY <1>1, SampleType DEF TypeOK, Peers
    <3>2. /\ HasReader(a.req.guid)' => a.req.guid # p /\ HasReader(a.req.guid)
          /\ HasWriter(a.from)' => HasWriter(a.from)
          /\ \A q \in Peers : HadReader(q) => HadReader(q)'
      BY <1>1, <2>1, <3>1 DEF HasReader, HadReader, HasWriter, TypeOK
    <3>3. a.req.guid # p => (Kept(a) => Kept(a)')
      BY <1>1, <1>2, <2>1, <3>1 DEF Kept, csvars, TypeOK
    <3> QED
      BY <1>1, <3>1, <3>2, <3>3 DEF AnsweredKept
  <2> QED
    BY <1>3, <2>2, <2>3, <2>4, <2>6, <2>7 DEF CoreInv
<1>6. ASSUME NEW q \in Other(p), WriterFinds(p, q) \/ WriterLoses(p, q)
      PROVE  CoreInv'
  <2>1. UNCHANGED <<stage, history>>
    BY <1>6 DEF WriterFinds, WriterLoses
  <2>2. RequestsSent' /\ BusyAreUp' /\ AnsweredKept'
    BY <1>1, <1>2, <2>1, InvIsOfState DEF csvars, svars
  <2>3. /\ \A x \in Peers : x # p => readers'[x] = readers[x]
        /\ \A y \in readers'[p] : y \in readers[p] \/ HasReader(y)
        /\ \A y \in readers[p] : y \in readers'[p] \/ ~HasReader(y)
    BY <1>1, <1>6 DEF WriterFinds, WriterLoses, TypeOK
  <2>4. MatchedWereThere'
    BY <1>1, <2>1, <2>3 DEF MatchedWereThere, HadReader, HasReader
  <2>5. VerdictHolds'
    <3> SUFFICES ASSUME NEW s \in Services, spc[s] = "verdict", st[s] = "YES", HasId(header[s].guid)
                 PROVE  header[s].guid \in readers'[s] \/ PastReader(header[s].guid)
      BY <1>2, <2>1 DEF VerdictHolds, svars, HasId, PastReader
    <3>1. \A y \in readers[s] : y \in readers'[s] \/ PastReader(y)
      BY <1>1, <2>3 DEF MatchedWereThere, HadReader, HasReader, PastReader, Peers
    <3> QED
      BY <1>1, <3>1 DEF VerdictHolds
  <2> QED
    BY <1>1, <1>3, <2>2, <2>4, <2>5 DEF CoreInv
<1>7. ASSUME NEW q \in Other(p), ReaderFinds(p, q) \/ ReaderLoses(p, q)
      PROVE  CoreInv'
  BY <1>1, <1>2, <1>3, <1>7, InvIsOfState DEF ReaderFinds, ReaderLoses, CoreInv, csvars, svars
<1> QED
  BY <1>4, <1>5, <1>6, <1>7 DEF EndpointStep

\* a sample that arrives is where it was due, and one that is lost is not due
LEMMA InvSample ==
  ASSUME CoreInv, UnreadFits, TypeOK', NEW m \in flight, Deliver(m) \/ Lose(m)
  PROVE  CoreInv'
<1>1. /\ TypeOK /\ RequestsSent /\ MatchedWereThere /\ BusyAreUp /\ VerdictHolds
      /\ OwnResponses /\ AnsweredKept
  BY DEF CoreInv
<1>2. UNCHANGED <<stage, readers, csvars, svars>> /\ flight' = flight \ {m}
  BY DEF Deliver, Lose
<1>3. MatchedWereThere' /\ BusyAreUp' /\ VerdictHolds' /\ OwnResponses'
  BY <1>1, <1>2, InvIsOfState DEF csvars, svars
<1>4. m \in Samples /\ m.to \in Peers /\ m.from \in Peers /\ Sent(m.req)
  BY <1>1, SampleType DEF TypeOK, RequestsSent
<1>5. \A p \in Peers : history[p] \in Seq(Samples)
  BY <1>1 DEF TypeOK
<1>6. /\ \A p \in Peers \ {m.to} : history'[p] = history[p]
      /\ history'[m.to] \in {history[m.to], Push(history[m.to], m)}
      /\ Deliver(m) => history'[m.to] = Push(history[m.to], m)
  BY <1>1, <1>4 DEF TypeOK, Deliver, Lose
<1>7. /\ \A i \in DOMAIN Push(history[m.to], m) :
           \/ Push(history[m.to], m)[i] = m
           \/ \E j \in DOMAIN history[m.to] : Push(history[m.to], m)[i] = history[m.to][j]
      /\ \E i \in DOMAIN Push(history[m.to], m) : Push(history[m.to], m)[i] = m
  BY <1>4, <1>5, Pushed
<1>8. ASSUME m.to \in Clients, KeepsUp(m.to)
      PROVE  /\ Lose(m) => ~HasReader(m.to) \/ ~HasWriter(m.from)
             /\ \A j \in DOMAIN history[m.to] : \E i \in DOMAIN Push(history[m.to], m) :
                  Push(history[m.to], m)[i] = history[m.to][j]
  <2>1. KeepAll \/ Len(history[m.to]) < Depth
    BY <1>1, <1>8, NotFull DEF KeepsUp
  <2>2. KeepAll \/ Cardinality(Backlog(m)) <= Depth
    BY <1>1, <1>8, NotFull DEF KeepsUp
  <2>3. Cardinality(Backlog(m)) \in Int
    BY <1>8, BacklogType
  <2>4. Lose(m) => ~HasReader(m.to) \/ ~HasWriter(m.from)
    BY <1>8, <2>2, <2>3, QoSAssumption DEF Lose, KeepsUp
  <2> PICK h \in Seq(Samples) : h = history[m.to]
    BY <1>4, <1>5
  <2>5. \A j \in DOMAIN h : \E i \in DOMAIN Push(h, m) : Push(h, m)[i] = h[j]
    BY <1>4, <2>1, Pushed
  <2> QED
    BY <2>4, <2>5
<1>9. RequestsSent'
  <2>1. \A p \in Peers : \A i \in DOMAIN history'[p] : Sent(history'[p][i].req)
    BY <1>1, <1>4, <1>6, <1>7 DEF RequestsSent
  <2> QED
    BY <1>1, <1>2, <2>1 DEF RequestsSent, Sent, csvars, svars
<1>10. AnsweredKept'
  <2> SUFFICES ASSUME NEW a \in answered, HasId(a.req.guid), HasReader(a.req.guid),
                      HasWriter(a.from), KeepsUp(a.req.guid)
               PROVE  Kept(a)'
    BY <1>1, <1>2 DEF AnsweredKept, KeepsUp, HasId, HadReader, HasReader, HasWriter, svars
  <2>1. a.req.guid \in Clients /\ a.req.guid \in Peers /\ Kept(a)
    BY <1>1, SampleType DEF TypeOK, AnsweredKept, Peers
  <2>2. CASE m = [from |-> a.from, to |-> a.req.guid, req |-> a.req]
    <3>1. m.to = a.req.guid /\ m.from = a.from /\ m.req = a.req
      BY <2>2
    <3>2. Deliver(m)
      BY <1>8, <2>1, <3>1
    <3>3. \E i \in DOMAIN history'[m.to] : history'[m.to][i] = m
      BY <1>6, <1>7, <3>2
    <3> QED
      BY <3>1, <3>3 DEF Kept
  <2>3. CASE m # [from |-> a.from, to |-> a.req.guid, req |-> a.req]
    <3>1. \A j \in DOMAIN history[a.req.guid] : \E i \in DOMAIN history'[a.req.guid] :
            history'[a.req.guid][i] = history[a.req.guid][j]
      BY <1>6, <1>8, <2>1
    <3> QED
      BY <1>2, <2>1, <2>3, <3>1 DEF Kept, csvars
  <2> QED
    BY <2>2, <2>3
<1> QED
  BY <1>3, <1>9, <1>10 DEF CoreInv

\* a client takes out of its reader no response of its own but the first, which
\* it gets
LEMMA TakenOrKept ==
  ASSUME TypeOK, NEW c \in Clients, TakeResponse(c)
  PROVE  /\ \A p \in Peers \ {c} : history'[p] = history[p]
         /\ \A d \in Clients \ {c} : got'[d] = got[d]
         /\ Len(history'[c]) <= Len(history[c])
         /\ got[c] \subseteq got'[c]
         /\ \A r \in got'[c] : \/ r \in got[c]
                               \/ \E i \in DOMAIN history[c] : history[c][i].req = r /\ r.guid = c
         /\ \A j \in DOMAIN history'[c] : \E i \in DOMAIN history[c] : history'[c][j] = history[c][i]
         /\ \A i \in DOMAIN history[c] : history[c][i].req.guid = c =>
              \/ history[c][i].req \in got'[c]
              \/ \E j \in DOMAIN history'[c] : history'[c][j] = history[c][i]
<1>1. /\ c \in Peers /\ history \in [Peers -> Seq(Samples)] /\ got \in [Clients -> SUBSET Requests]
      /\ history[c] \in Seq(Samples) /\ Len(history[c]) \in Nat
      /\ DOMAIN history[c] = 1..Len(history[c])
  BY DEF TypeOK, Peers
<1>2. CASE Own(c) = {}
  <2>1. history' = [history EXCEPT ![c] = <<>>] /\ got' = got
    BY <1>2 DEF TakeResponse
  <2>2. \A i \in DOMAIN history[c] : history[c][i].req.guid # c
    BY <1>2 DEF Own
  <2>3. Len(history'[c]) <= Len(history[c])
    BY <1>1, <2>1
  <2> QED
    BY <1>1, <2>1, <2>2, <2>3
<1>3. CASE Own(c) # {}
  <2>1. PICK i \in Own(c) :
          /\ \A j \in Own(c) : i <= j
          /\ got' = [got EXCEPT ![c] = got[c] \cup {history[c][i].req}]
          /\ history' = [history EXCEPT ![c] = SubSeq(history[c], i + 1, Len(history[c]))]
    BY <1>3 DEF TakeResponse
  <2>2. i \in 1..Len(history[c]) /\ history[c][i].req.guid = c
    BY <1>1, <2>1 DEF Own
  <2>3. got'[c] = got[c] \cup {history[c][i].req} /\ \A d \in Clients \ {c} : got'[d] = got[d]
    BY <1>1, <2>1
  <2>4. /\ history'[c] = SubSeq(history[c], i + 1, Len(history[c]))
        /\ \A p \in Peers \ {c} : history'[p] = history[p]
    BY <1>1, <2>1
  <2>5. /\ DOMAIN history'[c] = 1..(Len(history[c]) - i)
        /\ \A j \in 1..(Len(history[c]) - i) : history'[c][j] = history[c][i + j]
    BY <1>1, <2>2, <2>4, SubSeqProperties
  <2>6. \A j \in DOMAIN history'[c] : \E k \in DOMAIN history[c] : history'[c][j] = history[c][k]
    <3> SUFFICES ASSUME NEW j \in 1..(Len(history[c]) - i)
                 PROVE  i + j \in DOMAIN history[c] /\ history'[c][j] = history[c][i + j]
      BY <2>5
    <3> QED
      BY <1>1, <2>2, <2>5
  <2>7. ASSUME NEW k \in DOMAIN history[c], history[c][k].req.guid = c
        PROVE  \/ history[c][k].req \in got'[c]
               \/ \E j \in DOMAIN history'[c] : history'[c][j] = history[c][k]
    <3>1. i <= k /\ k \in 1..Len(history[c])
      BY <1>1, <2>1, <2>7 DEF Own
    <3>2. CASE k = i
      BY <2>3, <3>2
    <3>3. CASE k # i
      <4>1. ASSUME NEW n \in Nat, i \in 1..n, k \in 1..n
            PROVE  k - i \in 1..(n - i) /\ i + (k - i) = k
        BY <3>1, <3>3, <4>1
      <4>2. k - i \in 1..(Len(history[c]) - i) /\ i + (k - i) = k
        BY <1>1, <2>2, <3>1, <4>1
      <4> QED
        BY <2>5, <4>2
    <3> QED
      BY <3>2, <3>3
  <2>8. Len(history'[c]) <= Len(history[c])
    BY <1>1, <2>2, <2>4, SubSeqProperties
  <2> QED
    BY <1>1, <2>2, <2>3, <2>4, <2>6, <2>7, <2>8
<1> QED
  BY <1>2, <1>3

\* a client asks, and gets what answers a request of its own
LEMMA InvClient ==
  ASSUME CoreInv, TypeOK', NEW c \in Clients, ClientStep(c)
  PROVE  CoreInv'
<1>1. /\ TypeOK /\ RequestsSent /\ MatchedWereThere /\ BusyAreUp /\ VerdictHolds
      /\ OwnResponses /\ AnsweredKept
  BY DEF CoreInv
<1>2. UNCHANGED <<stage, readers, svars>>
  BY DEF ClientStep, SendRequest, TakeResponse, AskReaders, AskWriters, CompareServices, net
<1>3. MatchedWereThere' /\ BusyAreUp' /\ VerdictHolds'
  BY <1>1, <1>2, InvIsOfState DEF svars
<1>4. CASE SendRequest(c)
  <2> PICK r \in Requests : r = [guid |-> c, seq |-> NextId]
    BY <1>1, NextIdType DEF Requests
  <2>1. c \in Peers /\ Write(c, r) /\ UNCHANGED <<history, got>>
    BY <1>4 DEF Peers, SendRequest
  <2>2. /\ \A m \in flight' : m \in flight \/ m.req = r
        /\ flight \subseteq flight'
    BY <1>1, <2>1, Written
  <2>3. /\ \A x \in Requests : Sent(x) => Sent(x)'
        /\ \A d \in Clients : sent[d] \subseteq sent'[d]
        /\ Sent(r)'
    <3>1. /\ sent' = [sent EXCEPT ![c] = sent[c] \cup {NextId}]
          /\ sent \in [Clients -> SUBSET Seqs]
      BY <1>1, <1>4 DEF SendRequest, TypeOK
    <3>2. \A d \in Clients : sent[d] \subseteq sent'[d]
      BY <3>1
    <3>3. r.guid = c /\ r.seq \in sent'[r.guid]
      BY <3>1
    <3>4. ASSUME NEW x \in Requests, Sent(x)
          PROVE  x.seq \in sent'[x.guid]
      BY <3>2, <3>4, SampleType DEF Sent
    <3> QED
      BY <3>2, <3>3, <3>4 DEF Sent
  <2>4. RequestsSent'
    <3>1. \A x : Sent(x) => Sent(x)'
      BY <2>3 DEF Sent
    <3>2. \A m \in flight' : Sent(m.req)'
      BY <1>1, <2>2, <2>3, <3>1 DEF RequestsSent
    <3>3. \A p \in Peers : \A i \in DOMAIN history'[p] : Sent(history[p][i].req)'
      BY <1>1, <2>1, <3>1 DEF RequestsSent
    <3>4. \A s \in Services : spc'[s] # "idle" => Sent(header[s])'
      BY <1>1, <1>2, <3>1 DEF RequestsSent, svars
    <3> QED
      BY <3>2, <3>3, <3>4 DEF RequestsSent, Sent
  <2>5. OwnResponses'
    BY <1>1, <2>1, <2>3 DEF OwnResponses
  <2>6. AnsweredKept'
    BY <1>1, <1>2, <2>1, <2>2 DEF AnsweredKept, Kept, KeepsUp, HadReader, HasReader, HasWriter, HasId, svars
  <2> QED
    BY <1>3, <2>4, <2>5, <2>6 DEF CoreInv
<1>5. CASE TakeResponse(c)
  <2>1. UNCHANGED <<flight, sent>> /\ c \in Peers
    BY <1>5 DEF TakeResponse, Peers
  <2>2. RequestsSent'
    BY <1>1, <1>2, <1>5, <2>1, TakenOrKept DEF RequestsSent, Sent, svars
  <2>3. OwnResponses'
    <3>1. \A x \in got'[c] : x.guid = c /\ x.seq \in sent[c]
      BY <1>1, <1>5, <2>1, TakenOrKept DEF OwnResponses, RequestsSent, Sent
    <3> QED
      BY <1>1, <1>5, <2>1, <3>1, TakenOrKept DEF OwnResponses
  <2>4. AnsweredKept'
    <3> SUFFICES ASSUME NEW a \in answered, Kept(a)
                 PROVE  Kept(a)'
      BY <1>1, <1>2 DEF AnsweredKept, KeepsUp, HasId, HadReader, HasReader, HasWriter, svars
    <3>1. a.req.guid \in Clients /\ a.req.guid \in Peers
      BY <1>1, SampleType DEF TypeOK, Peers
    <3>2. CASE a.req.guid # c
      BY <1>1, <1>5, <2>1, <3>1, <3>2, TakenOrKept DEF Kept
    <3>3. CASE a.req.guid = c
      <4>1. a.req \in got[c] => a.req \in got'[c]
        BY <1>1, <1>5, TakenOrKept
      <4>2. ASSUME NEW i \in DOMAIN history[c], history[c][i].req = a.req
            PROVE  a.req \in got'[c] \/ \E j \in DOMAIN history'[c] : history'[c][j].req = a.req
        BY <1>1, <1>5, <3>3, <4>2, TakenOrKept
      <4> QED
        BY <2>1, <3>3, <4>1, <4>2 DEF Kept
    <3> QED
      BY <3>2, <3>3
  <2> QED
    BY <1>3, <2>2, <2>3, <2>4 DEF CoreInv
<1>6. CASE AskReaders(c) \/ AskWriters(c) \/ CompareServices(c)
  BY <1>1, <1>3, <1>6, InvIsOfState
     DEF AskReaders, AskWriters, CompareServices, CoreInv, net, csvars, svars
<1> QED
  BY <1>4, <1>5, <1>6 DEF ClientStep
\* a service takes what was sent, and responds, if not to an old client, to one
\* whose reader it has matched
LEMMA InvService ==
  ASSUME CoreInv, TypeOK', NEW s \in Services, TakeRequest(s) \/ ResponseStep(s)
  PROVE  CoreInv'
<1>1. /\ TypeOK /\ RequestsSent /\ MatchedWereThere /\ BusyAreUp /\ VerdictHolds
      /\ OwnResponses /\ AnsweredKept
  BY DEF CoreInv
<1>2. s \in Peers /\ s \notin Clients
  BY PeerAssumption DEF Peers
<1>3. UNCHANGED <<stage, readers, csvars>>
  BY DEF TakeRequest, ResponseStep, CheckWriter, ListReaders, CompareReaders, Sleep, DropResponse,
         SendResponse, net
<1>4. MatchedWereThere' /\ OwnResponses'
  BY <1>1, <1>3, InvIsOfState DEF csvars
<1>5. CASE TakeRequest(s)
  <2>1. /\ stage[s] = "up" /\ history[s] # <<>> /\ UNCHANGED <<flight, st, answered, behind>>
        /\ header' = [header EXCEPT ![s] = Head(history[s]).req]
        /\ history' = [history EXCEPT ![s] = Tail(history[s])]
        /\ spc' = [spc EXCEPT ![s] = "check"]
    BY <1>5 DEF TakeRequest
  <2>2. /\ history[s] \in Seq(Samples) /\ Len(history[s]) \in Nat
        /\ DOMAIN history[s] = 1..Len(history[s])
    BY <1>1, <1>2 DEF TypeOK
  <2>3. /\ Head(history[s]) = history[s][1] /\ 1 \in DOMAIN history[s]
        /\ \A j \in DOMAIN Tail(history[s]) :
             j + 1 \in DOMAIN history[s] /\ Tail(history[s])[j] = history[s][j + 1]
    BY <2>1, <2>2, HeadTailProperties
  <2>4. /\ header'[s] = history[s][1].req /\ history'[s] = Tail(history[s]) /\ spc'[s] = "check"
        /\ \A p \in Peers \ {s} : history'[p] = history[p]
        /\ \A u \in Services \ {s} : header'[u] = header[u] /\ spc'[u] = spc[u]
    BY <1>1, <1>2, <2>1, <2>3 DEF TypeOK
  <2>5. RequestsSent'
    <3>1. \A x : Sent(x) => Sent(x)'
      BY <1>3 DEF Sent, csvars
    <3>2. \A m \in flight' : Sent(m.req)'
      BY <1>1, <2>1, <3>1 DEF RequestsSent
    <3>3. \A p \in Peers : \A i \in DOMAIN history'[p] : Sent(history[p][i].req)'
      <4>1. \A p \in Peers : \A i \in DOMAIN history'[p] :
              \E j \in DOMAIN history[p] : history'[p][i] = history[p][j]
        <5>1. ASSUME NEW i \in DOMAIN Tail(history[s])
              PROVE  \E j \in DOMAIN history[s] : Tail(history[s])[i] = history[s][j]
          BY <2>3
        <5>2. ASSUME NEW p \in Peers, NEW i \in DOMAIN history'[p]
              PROVE  \E j \in DOMAIN history[p] : history'[p][i] = history[p][j]
          <6>1. CASE p = s
            <7>1. history'[p] = Tail(history[s])
              BY <2>4, <6>1
            <7> QED
              BY <5>1, <5>2, <6>1, <7>1
          <6>2. CASE p # s
            BY <2>4, <5>2, <6>2
          <6> QED
            BY <6>1, <6>2
        <5> QED
          BY <5>2
      <4> QED
        BY <1>1, <3>1, <4>1 DEF RequestsSent
    <3>4. \A u \in Services : spc'[u] # "idle" => Sent(header[u])'
      BY <1>1, <1>2, <2>3, <2>4, <3>1 DEF RequestsSent
    <3> QED
      BY <3>2, <3>3, <3>4 DEF RequestsSent, Sent
  <2>6. BusyAreUp'
    BY <1>1, <1>3, <2>1, <2>4 DEF BusyAreUp
  <2>7. VerdictHolds'
    BY <1>1, <1>3, <2>1, <2>4 DEF VerdictHolds, HasId, PastReader
  <2>8. AnsweredKept'
    <3>1. \A a \in answered : a.req.guid \in Peers \ {s}
      BY <1>1, <1>2, SampleType DEF TypeOK, Peers
    <3>2. \A a \in answered : Kept(a) => Kept(a)'
      BY <1>3, <2>1, <2>4, <3>1 DEF Kept, csvars
    <3> QED
      BY <1>1, <1>3, <2>1, <3>2 DEF AnsweredKept, KeepsUp, HasId, HadReader, HasReader, HasWriter
  <2> QED
    BY <1>4, <2>5, <2>6, <2>7, <2>8 DEF CoreInv
<1>6. CASE CheckWriter(s) \/ ListReaders(s) \/ CompareReaders(s) \/ Sleep(s) \/ DropResponse(s)
  <2>1. UNCHANGED <<flight, history, answered, behind>>
    BY <1>6 DEF CheckWriter, ListReaders, CompareReaders, Sleep, DropResponse, net
  <2>2. /\ spc[s] # "idle"
        /\ \A u \in Services \ {s} : spc'[u] = spc[u] /\ header'[u] = header[u] /\ st'[u] = st[u]
        /\ spc'[s] # "idle" => header'[s] = header[s]
    BY <1>1, <1>6 DEF CheckWriter, ListReaders, CompareReaders, Sleep, DropResponse, TypeOK
  <2>3. spc'[s] = "verdict" /\ st'[s] = "YES" /\ HasId(header[s].guid) => header[s].guid \in readers[s]
    BY <1>1, <1>6 DEF CheckWriter, ListReaders, CompareReaders, Sleep, DropResponse, ReaderOf, TypeOK
  <2>4. RequestsSent'
    <3>1. \A x : Sent(x) => Sent(x)'
      BY <1>3 DEF Sent, csvars
    <3>2. \A u \in Services : spc'[u] # "idle" => Sent(header[u])'
      BY <1>1, <2>2, <3>1 DEF RequestsSent
    <3> QED
      BY <1>1, <2>1, <3>1, <3>2 DEF RequestsSent, Sent
  <2>5. BusyAreUp'
    BY <1>1, <1>3, <2>2 DEF BusyAreUp
  <2>6. VerdictHolds'
    BY <1>1, <1>3, <2>2, <2>3 DEF VerdictHolds, HasId, PastReader
  <2>7. AnsweredKept'
    BY <1>1, <1>3, <2>1, InvIsOfState DEF csvars
  <2> QED
    BY <1>4, <2>4, <2>5, <2>6, <2>7 DEF CoreInv
<1>7. CASE SendResponse(s)
  <2> PICK r \in Requests : r = header[s] /\ Sent(r)
    BY <1>1, <1>7 DEF SendResponse, RequestsSent, Sent
  <2>1. /\ Write(s, r) /\ stage[s] = "up" /\ UNCHANGED <<history, st>>
        /\ answered' = answered \cup {[from |-> s, req |-> r]} /\ behind \subseteq behind'
        /\ spc[s] = "verdict" /\ st[s] = "YES" /\ spc'[s] = "idle"
        /\ \A u \in Services \ {s} : header'[u] = header[u] /\ spc'[u] = spc[u]
    BY <1>1, <1>7 DEF SendResponse, BusyAreUp, TypeOK
  <2>2. /\ \A m \in flight' : m \in flight \/ m.req = r
        /\ \A q \in readers[s] : [from |-> s, to |-> q, req |-> r] \in flight'
        /\ flight \subseteq flight'
    BY <1>1, <1>2, <2>1, Written
  <2>3. RequestsSent'
    <3>1. \A x : Sent(x) => Sent(x)'
      BY <1>3 DEF Sent, csvars
    <3>2. \A m \in flight' : Sent(m.req)'
      BY <1>1, <2>2, <3>1 DEF RequestsSent
    <3>3. \A u \in Services : spc'[u] # "idle" => Sent(header[u])'
      BY <1>1, <2>1, <3>1 DEF RequestsSent
    <3> QED
      BY <1>1, <2>1, <3>1, <3>2, <3>3 DEF RequestsSent, Sent
  <2>4. BusyAreUp'
    BY <1>1, <1>3, <2>1 DEF BusyAreUp
  <2>5. VerdictHolds'
    BY <1>1, <1>3, <2>1 DEF VerdictHolds, HasId, PastReader
  <2>6. AnsweredKept'
    <3>1. r.guid \in Peers /\ (HasId(r.guid) => r.guid \in readers[s] \/ PastReader(r.guid))
      BY <1>1, <2>1, SampleType DEF VerdictHolds, Peers
    <3>2. HasId(r.guid) => HadReader(r.guid)
      BY <1>1, <1>2, <3>1 DEF MatchedWereThere, HadReader, PastReader
    <3>3. ASSUME NEW a \in answered
          PROVE  /\ HadReader(a.from)
                 /\ HasId(a.req.guid) => HadReader(a.req.guid)
                 /\ HasId(a.req.guid) /\ HasReader(a.req.guid) /\ HasWriter(a.from)
                    /\ KeepsUp(a.req.guid)' => Kept(a)'
      BY <1>1, <1>3, <2>1, <2>2 DEF AnsweredKept, Kept, KeepsUp, csvars
    <3>4. ASSUME NEW a \in answered', a \notin answered
          PROVE  /\ HadReader(a.from)
                 /\ HasId(a.req.guid) => HadReader(a.req.guid)
                 /\ HasId(a.req.guid) /\ HasReader(a.req.guid) /\ HasWriter(a.from)
                    /\ KeepsUp(a.req.guid)' => Kept(a)'
      <4>1. a = [from |-> s, req |-> r] /\ a.from = s /\ a.req = r
        BY <2>1, <3>4
      <4>2. HadReader(s)
        BY <2>1 DEF HadReader
      <4>3. HasId(r.guid) /\ HasReader(r.guid) => [from |-> s, to |-> r.guid, req |-> r] \in flight'
        BY <2>2, <3>1 DEF HasReader, PastReader
      <4> QED
        BY <3>2, <4>1, <4>2, <4>3 DEF Kept
    <3> QED
      BY <1>3, <3>3, <3>4 DEF AnsweredKept, HadReader, HasReader, HasWriter, HasId
  <2> QED
    BY <1>4, <2>3, <2>4, <2>5, <2>6 DEF CoreInv
<1> QED
  BY <1>5, <1>6, <1>7 DEF ResponseStep
-----------------------------------------------------------------------------
(***************************************************************************)
(* Who has how much coming.                                                *)
(***************************************************************************)
\* a client's writer is matched by services' readers only
LEMMA MatchStep == TypeOK /\ ClientsMatchServices /\ [Next]_vars => ClientsMatchServices'
<1> SUFFICES ASSUME TypeOK, ClientsMatchServices, [Next]_vars PROVE ClientsMatchServices'
  OBVIOUS
<1>1. ASSUME NEW p \in Peers, EndpointStep(p)
      PROVE  \A c \in Clients : readers'[c] \subseteq readers[c] \cup Services
  <2>1. \/ \E R \in SUBSET readers[p] : readers' = [readers EXCEPT ![p] = R]
        \/ \E q \in Other(p) : readers' = [readers EXCEPT ![p] = readers[p] \cup {q}]
        \/ readers' = readers
    BY <1>1 DEF EndpointStep, InitWriter, InitReader, FiniReader, FiniWriter, WriterFinds,
           ReaderFinds, WriterLoses, ReaderLoses
  <2>2. p \in Clients => Other(p) = Services
    BY DEF Other
  <2>3. readers \in [Peers -> SUBSET Peers] /\ \A c \in Clients : c \in Peers
    BY DEF TypeOK, Peers
  <2> QED
    BY <2>1, <2>2, <2>3
<1>2. ASSUME NEW p \in Peers, EndpointStep(p)
      PROVE  ClientsMatchServices'
  BY <1>1, <1>2 DEF ClientsMatchServices
<1>3. ASSUME UNCHANGED readers
      PROVE  ClientsMatchServices'
  BY <1>3 DEF ClientsMatchServices
<1>4. CASE UNCHANGED vars
  BY <1>3, <1>4 DEF vars, net
<1>5. ASSUME NEW m \in flight, Deliver(m) \/ Lose(m)
      PROVE  UNCHANGED readers
  BY <1>5 DEF Deliver, Lose
<1>6. ASSUME NEW c \in Clients, ClientStep(c)
      PROVE  UNCHANGED readers
  BY <1>6 DEF ClientStep, SendRequest, TakeResponse, AskReaders, AskWriters, CompareServices, net
<1>7. ASSUME NEW s \in Services, TakeRequest(s) \/ ResponseStep(s)
      PROVE  UNCHANGED readers
  BY <1>7 DEF TakeRequest, ResponseStep, CheckWriter, ListReaders, CompareReaders, Sleep,
         DropResponse, SendResponse, net
<1> QED
  BY <1>2, <1>3, <1>4, <1>5, <1>6, <1>7 DEF Next

\* a client that had no more coming than fits has no more when some of it is gone
Fits(c) == IsFiniteSet(Coming(c)) /\ (c \in behind \/ Unread(c) <= Depth)
LEMMA LessUnread ==
  ASSUME TypeOK, TypeOK', NEW c \in Clients, Fits(c), behind \subseteq behind',
         Coming(c)' \subseteq Coming(c), Len(history'[c]) <= Len(history[c])
  PROVE  Fits(c)'
<1> PICK S, T : S = Coming(c) /\ T = Coming(c)'
  OBVIOUS
<1>1. IsFiniteSet(S) /\ IsFiniteSet(T) /\ Cardinality(T) <= Cardinality(S)
      /\ Cardinality(T) \in Nat /\ Cardinality(S) \in Nat
  <2>1. IsFiniteSet(S) /\ T \in SUBSET S
    BY DEF Fits
  <2>2. IsFiniteSet(T) /\ Cardinality(T) <= Cardinality(S)
    BY <2>1, FS_Subset
  <2> QED
    BY <2>1, <2>2, FS_CardinalityType
<1>2. Len(history[c]) \in Nat /\ Len(history'[c]) \in Nat
  BY DEF TypeOK, Peers
<1>3. /\ Unread(c) = Cardinality(S) + Len(history[c])
      /\ Unread(c)' = Cardinality(T) + Len(history'[c])
  BY DEF Unread
<1>4. Unread(c) <= Depth => Unread(c)' <= Depth
  BY <1>1, <1>2, <1>3, QoSAssumption
<1> QED
  BY <1>1, <1>4 DEF Fits

\* a sample leaves the flight for the history, or the flight
LEMMA UnreadSample ==
  ASSUME TypeOK, TypeOK', NEW c \in Clients, Fits(c), NEW m \in flight, Deliver(m) \/ Lose(m)
  PROVE  Fits(c)'
<1>1. /\ flight' = flight \ {m} /\ UNCHANGED behind /\ m \in Samples /\ c \in Peers
      /\ \A p \in Peers : history[p] \in Seq(Samples)
  BY DEF Deliver, Lose, svars, TypeOK, Peers
<1>2. Coming(c)' = Coming(c) \ {m}
  BY <1>1 DEF Coming
<1>3. CASE history'[c] = history[c]
  <2>1. Len(history[c]) \in Int
    BY <1>1
  <2>2. Len(history'[c]) <= Len(history[c])
    BY <1>3, <2>1
  <2> QED
    BY <1>1, <1>2, <2>2, LessUnread
<1>4. CASE history'[c] # history[c]
  <2>1. m.to = c /\ history'[c] = Push(history[c], m)
    BY <1>1, <1>4 DEF Deliver, Lose, TypeOK
  <2>2. Len(history'[c]) <= Len(history[c]) + 1 /\ Len(history'[c]) \in Nat /\ Len(history[c]) \in Nat
    <3> PICK h \in Seq(Samples) : h = history[c]
      BY <1>1
    <3>1. Push(h, m) \in Seq(Samples) /\ Len(Push(h, m)) <= Len(h) + 1
      BY <1>1, Pushed
    <3> QED
      BY <2>1, <3>1
  <2> PICK S, T : S = Coming(c) /\ T = Coming(c)'
    OBVIOUS
  <2>3. IsFiniteSet(S) /\ m \in S /\ T = S \ {m}
    BY <1>2, <2>1 DEF Fits, Coming
  <2>4. IsFiniteSet(T) /\ Cardinality(T) = Cardinality(S) - 1 /\ Cardinality(S) \in Nat
    BY <2>3, FS_RemoveElement, FS_CardinalityType
  <2>5. /\ Unread(c) = Cardinality(S) + Len(history[c])
        /\ Unread(c)' = Cardinality(T) + Len(history'[c])
    BY DEF Unread
  <2>6. Unread(c) <= Depth => Unread(c)' <= Depth
    BY <2>2, <2>4, <2>5, QoSAssumption
  <2> QED
    BY <1>1, <2>4, <2>6 DEF Fits
<1> QED
  BY <1>3, <1>4

\* a client sends to services, and takes
LEMMA UnreadClient ==
  ASSUME TypeOK, TypeOK', ClientsMatchServices, NEW c \in Clients, Fits(c),
         NEW d \in Clients, ClientStep(d)
  PROVE  Fits(c)'
<1>1. UNCHANGED behind /\ c \in Peers /\ Len(history[c]) \in Nat
  BY DEF ClientStep, SendRequest, TakeResponse, AskReaders, AskWriters, CompareServices, svars,
         TypeOK, Peers
<1>2. Coming(c)' \subseteq Coming(c)
  <2>1. CASE SendRequest(d)
    <3>1. \A m \in flight' : m \in flight \/ m.to \in readers[d]
      BY <2>1 DEF SendRequest, Write
    <3>2. c \notin readers[d]
      BY PeerAssumption DEF ClientsMatchServices
    <3> QED
      BY <3>1, <3>2 DEF Coming
  <2>2. CASE ~SendRequest(d)
    BY <2>2 DEF ClientStep, TakeResponse, AskReaders, AskWriters, CompareServices, net, Coming
  <2> QED
    BY <2>1, <2>2
<1>3. Len(history'[c]) <= Len(history[c])
  <2>1. CASE TakeResponse(d)
    BY <1>1, <2>1, TakenOrKept
  <2>2. CASE ~TakeResponse(d)
    BY <1>1, <2>2 DEF ClientStep, SendRequest, AskReaders, AskWriters, CompareServices, net
  <2> QED
    BY <2>1, <2>2
<1> QED
  BY <1>1, <1>2, <1>3, LessUnread

\* a service counts what it adds
LEMMA UnreadService ==
  ASSUME TypeOK, TypeOK', NEW c \in Clients, Fits(c),
         NEW s \in Services, TakeRequest(s) \/ ResponseStep(s)
  PROVE  Fits(c)'
<1>1. c \in Peers /\ Len(history[c]) \in Nat /\ Len(history'[c]) \in Nat
  BY DEF TypeOK, Peers
<1>2. history'[c] = history[c]
  BY <1>1, PeerAssumption DEF TakeRequest, ResponseStep, CheckWriter, ListReaders, CompareReaders,
         Sleep, DropResponse, SendResponse, net, TypeOK, Peers
<1>3. CASE ~SendResponse(s)
  <2>1. Coming(c)' = Coming(c) /\ UNCHANGED behind
    BY <1>3 DEF TakeRequest, ResponseStep, CheckWriter, ListReaders, CompareReaders, Sleep,
           DropResponse, net, Coming
  <2> QED
    BY <1>1, <1>2, <2>1, LessUnread
<1>4. CASE SendResponse(s)
  <2>1. Write(s, header[s]) /\ behind' = behind \cup {x \in Clients : Unread(x)' > Depth}
    BY <1>4 DEF SendResponse
  <2> PICK S, T, x : S = Coming(c) /\ T = Coming(c)' /\ x = [from |-> s, to |-> c, req |-> header[s]]
    OBVIOUS
  <2>2. IsFiniteSet(S) /\ T \in SUBSET (S \cup {x})
    BY <2>1 DEF Fits, Coming, Write
  <2>3. IsFiniteSet(T)
    BY <2>2, FS_AddElement, FS_Subset
  <2>4. Cardinality(T) \in Nat /\ Unread(c)' = Cardinality(T) + Len(history'[c])
    BY <2>3, FS_CardinalityType DEF Unread
  <2>5. Unread(c)' > Depth \/ Unread(c)' <= Depth
    BY <1>1, <2>4, QoSAssumption
  <2> QED
    BY <2>1, <2>3, <2>5 DEF Fits
<1> QED
  BY <1>3, <1>4

\* every step keeps the count
LEMMA UnreadStep ==
  TypeOK /\ TypeOK' /\ ClientsMatchServices /\ UnreadFits /\ [Next]_vars => UnreadFits'
<1> SUFFICES ASSUME TypeOK, TypeOK', ClientsMatchServices, UnreadFits, [Next]_vars, NEW c \in Clients
             PROVE  Fits(c)'
  BY DEF UnreadFits, Fits
<1>1. Fits(c) /\ c \in Peers /\ Len(history[c]) \in Nat
  BY DEF UnreadFits, Fits, TypeOK, Peers
<1>2. CASE UNCHANGED vars
  BY <1>1, <1>2 DEF Fits, Unread, Coming, vars, net, svars
<1>3. ASSUME NEW p \in Peers, EndpointStep(p)
      PROVE  Fits(c)'
  <2>1. UNCHANGED <<flight, behind>> /\ (history'[c] = history[c] \/ history'[c] = <<>>)
    BY <1>1, <1>3 DEF EndpointStep, InitWriter, InitReader, FiniReader, FiniWriter, WriterFinds,
           ReaderFinds, WriterLoses, ReaderLoses, svars, TypeOK
  <2>2. Coming(c)' = Coming(c)
    BY <2>1 DEF Coming
  <2>3. Len(history'[c]) <= Len(history[c])
    BY <1>1, <2>1
  <2> QED
    BY <1>1, <2>1, <2>2, <2>3, LessUnread
<1> QED
  BY <1>1, <1>2, <1>3, UnreadSample, UnreadClient, UnreadService DEF Next
-----------------------------------------------------------------------------
(***************************************************************************)
(* The theorems.                                                           *)
(***************************************************************************)
\* the invariant holds at first, after every step, and so always
LEMMA ServiceInit == Init => ServiceInv
<1> SUFFICES ASSUME Init PROVE ServiceInv
  OBVIOUS
<1>1. TypeOK
  BY BoundAssumption, EmptySeq DEF Init, TypeOK, Seqs
<1>2. /\ RequestsSent /\ MatchedWereThere /\ BusyAreUp /\ VerdictHolds
      /\ OwnResponses /\ AnsweredKept
  <2>1. \A p \in Peers : DOMAIN history[p] = {}
    BY DEF Init
  <2> QED
    BY <2>1 DEF Init, RequestsSent, MatchedWereThere, BusyAreUp, VerdictHolds, OwnResponses, AnsweredKept
<1>3. ClientsMatchServices
  BY DEF Init, ClientsMatchServices, Peers
<1>4. UnreadFits
  <2>1. \A c \in Clients : Coming(c) = {} /\ Len(history[c]) = 0
    BY DEF Init, Coming, Peers
  <2>2. IsFiniteSet({}) /\ Cardinality({}) + 0 = 0
    BY FS_EmptySet
  <2>3. \A c \in Clients : IsFiniteSet(Coming(c)) /\ Unread(c) = 0
    BY <2>1, <2>2 DEF Unread
  <2> QED
    BY <2>3, QoSAssumption DEF UnreadFits
<1> QED
  BY <1>1, <1>2, <1>3, <1>4 DEF ServiceInv, CoreInv

\* every step keeps the invariant
LEMMA ServiceStep == ServiceInv /\ [Next]_vars => ServiceInv'
<1> SUFFICES ASSUME ServiceInv, [Next]_vars PROVE ServiceInv'
  OBVIOUS
<1>1. TypeOK' /\ TypeOK /\ CoreInv /\ ClientsMatchServices /\ UnreadFits
  BY TypeStep DEF ServiceInv, CoreInv
<1>2. UNCHANGED vars => CoreInv'
  BY <1>1, InvIsOfState DEF CoreInv, vars, net, csvars, svars
<1>3. CoreInv'
  BY <1>1, <1>2, InvEndpoint, InvSample, InvClient, InvService DEF Next
<1> QED
  BY <1>1, <1>3, MatchStep, UnreadStep DEF ServiceInv

\* the invariant holds in every execution
LEMMA ServiceAlways == Spec => []ServiceInv
BY ServiceInit, ServiceStep, PTL DEF Spec

\* rmw_service_t, rmw_client_t: every variable keeps its type; in particular a
\* service only ever responds to requests
THEOREM ServiceTypeCorrect == Spec => []TypeOK
BY ServiceAlways, PTL DEF ServiceInv, CoreInv

\* rmw_take_response: a client is only ever handed responses to requests it sent,
\* however many clients there are whose responses arrive at it too
THEOREM OnlyOwnResponses == Spec => []OwnResponses
BY ServiceAlways, PTL DEF ServiceInv, CoreInv

\* rmw_send_response: a response that was written because the client's reader
\* was matched is on its way, in that reader or with the client, while both exist,
\* for any depth: reliable endpoints lose one only to a client that, once, had more
\* responses coming than its reader keeps, and none when the reader keeps all
THEOREM NoResponseLost == Spec => []ResponseNotLost
<1>1. ServiceInv => ResponseNotLost
  BY DEF ServiceInv, CoreInv, AnsweredKept, Kept, ResponseNotLost
<1> QED
  BY <1>1, ServiceAlways, PTL

\* rmw_service_server_is_available: it says yes only if the reader and the writer
\* of one service were found, if all that was found is old, or if a reader that
\* was found went away while it looked
THEOREM AvailableMeansPaired == Spec => AvailableIsPaired
<1>1. ASSUME TypeOK, [Next]_vars, NEW c \in Clients, SaysYes(c)
      PROVE  BothEnds(c) \/ AllOld(c) \/ rds[c] \ readers[c] # {}
  <2>1. apc[c] = "compare" /\ apc'[c] # apc[c]
    BY <1>1 DEF SaysYes
  <2>2. PICK d \in Clients : ClientStep(d)
    BY <1>1, <2>1 DEF Next, vars, avars, EndpointStep, InitWriter, InitReader, FiniReader, FiniWriter,
         WriterFinds, ReaderFinds, WriterLoses, ReaderLoses, Deliver, Lose, TakeRequest,
         ResponseStep, CheckWriter, ListReaders, CompareReaders, Sleep, DropResponse, SendResponse
  <2>3. CompareServices(c)
    BY <1>1, <2>1, <2>2 DEF ClientStep, SendRequest, TakeResponse, AskReaders, AskWriters,
         CompareServices, avars, TypeOK
  <2>4. ServiceFound(c)
    BY <1>1, <2>3 DEF CompareServices, SaysYes, TypeOK
  <2> DEFINE needles == {s \in rds[c] \cap readers[c] : HasId(s)}
  <2>5. CASE needles # {}
    BY <2>4, <2>5 DEF ServiceFound, BothEnds
  <2>6. CASE needles = {}
    BY <2>6 DEF AllOld
  <2> QED
    BY <2>5, <2>6
<1>2. TypeOK /\ [Next]_vars =>
        [\A c \in Clients : SaysYes(c) =>
           BothEnds(c) \/ AllOld(c) \/ rds[c] \ readers[c] # {}]_vars
  BY <1>1
<1> QED
  BY <1>2, ServiceTypeCorrect, PTL DEF Spec, AvailableIsPaired

-----------------------------------------------------------------------------
(***************************************************************************)
(* The refinement.  A sample that a client may take was written by a       *)
(* service, as an answer; a service between two requests works on nothing; *)
(* and the ids in use are the first ones, or all.                          *)
(***************************************************************************)
IsAnswer(m) == m.to \in Clients => [from |-> m.from, req |-> m.req] \in answered
AnswersGiven ==
  /\ \A m \in flight : IsAnswer(m)
  /\ \A c \in Clients : \A i \in DOMAIN history[c] :
       [from |-> history[c][i].from, req |-> history[c][i].req] \in answered
IdleIsEmpty == \A s \in Services : spc[s] = "idle" => header[s] = NoRequest
InUse(q) == \E c \in Clients : q \in sent[c]
FirstInUse ==
  \/ \A q \in Seqs : InUse(q)
  \/ \A q \in Seqs : InUse(q) <=> (1 <= q /\ q <= next_request_id)
PromiseInv == AnswersGiven /\ IdleIsEmpty /\ FirstInUse

\* the next id is not in use, or all are, and either way it makes the first ids,
\* or all, the ones in use
LEMMA NextIdUnused ==
  ASSUME TypeOK, FirstInUse
  PROVE  /\ ~InUse(NextId) \/ \A q \in Seqs : InUse(q)
         /\ \/ \A q \in Seqs : InUse(q) \/ q = NextId
            \/ \A q \in Seqs : (InUse(q) \/ q = NextId) <=> (1 <= q /\ q <= NextId)
<1> DEFINE n == next_request_id
<1>1. SeqMod \in Nat \ {0} /\ n \in 0..(SeqMod - 1) /\ Seqs = 0..(SeqMod - 1)
  BY BoundAssumption DEF TypeOK, Seqs
<1>2. CASE \A q \in Seqs : InUse(q)
  BY <1>2
<1>3. CASE \A q \in Seqs : InUse(q) <=> (1 <= q /\ q <= n)
  <2>1. NextId \in Seqs
    BY NextIdType
  <2>2. CASE n + 1 < SeqMod
    <3>1. NextId = n + 1
      BY <1>1, <2>2 DEF NextId
    <3>2. ~InUse(NextId)
      BY <1>1, <1>3, <2>1, <3>1
    <3>3. \A q \in Seqs : (InUse(q) \/ q = NextId) <=> (1 <= q /\ q <= NextId)
      BY <1>1, <1>3, <3>1
    <3> QED
      BY <3>2, <3>3
  <2>3. CASE n + 1 = SeqMod
    <3>1. NextId = 0
      BY <1>1, <2>3 DEF NextId
    <3>2. ~InUse(NextId)
      BY <1>3, <2>1, <3>1
    <3>3. \A q \in Seqs : InUse(q) \/ q = NextId
      BY <1>1, <1>3, <2>3, <3>1
    <3> QED
      BY <3>2, <3>3
  <2> QED
    BY <1>1, <2>2, <2>3
<1> QED
  BY <1>2, <1>3 DEF FirstInUse

\* what of the contract a step leaves alone that does not write, take or call
LEMMA PromiseIsOfState ==
  /\ AnswersGiven /\ UNCHANGED <<flight, history, answered>> => AnswersGiven'
  /\ IdleIsEmpty /\ UNCHANGED <<spc, header>> => IdleIsEmpty'
  /\ FirstInUse /\ UNCHANGED <<sent, next_request_id>> => FirstInUse'
BY DEF AnswersGiven, IsAnswer, IdleIsEmpty, FirstInUse, InUse

\* endpoints: a client's writer is matched by services' readers only
LEMMA PromiseEndpoint ==
  ASSUME TypeOK, PromiseInv, NEW p \in Peers, EndpointStep(p)
  PROVE  PromiseInv' /\ UNCHANGED <<sent, header, answered, got>>
<1>1. UNCHANGED <<flight, csvars, svars>>
  BY DEF EndpointStep, InitWriter, InitReader, FiniReader, FiniWriter, WriterFinds, ReaderFinds,
         WriterLoses, ReaderLoses
<1>2. IdleIsEmpty' /\ FirstInUse'
  BY <1>1, PromiseIsOfState DEF PromiseInv, csvars, svars
<1>3. \A c \in Clients : history'[c] = history[c] \/ history'[c] = <<>>
  BY DEF TypeOK, Peers, EndpointStep, InitWriter, InitReader, FiniReader, FiniWriter, WriterFinds,
         ReaderFinds, WriterLoses, ReaderLoses
<1>4. AnswersGiven'
  BY <1>1, <1>3 DEF PromiseInv, AnswersGiven, IsAnswer, svars
<1> QED
  BY <1>1, <1>2, <1>4 DEF PromiseInv, csvars, svars

\* a sample arrives in the reader it was written to
LEMMA PromiseSample ==
  ASSUME TypeOK, PromiseInv, NEW m \in flight, Deliver(m) \/ Lose(m)
  PROVE  PromiseInv' /\ UNCHANGED <<sent, header, answered, got>>
<1>1. UNCHANGED <<readers, csvars, svars>> /\ flight' = flight \ {m}
  BY DEF Deliver, Lose
<1>2. IdleIsEmpty' /\ FirstInUse'
  BY <1>1, PromiseIsOfState DEF PromiseInv, csvars, svars
<1>3. m \in Samples /\ m.to \in Peers /\ IsAnswer(m)
  BY SampleType DEF TypeOK, PromiseInv, AnswersGiven
<1>4. \A c \in Clients : \A i \in DOMAIN history'[c] :
        \/ \E j \in DOMAIN history[c] : history'[c][i] = history[c][j]
        \/ history'[c][i] = m /\ m.to = c
  <2> SUFFICES ASSUME NEW c \in Clients, NEW i \in DOMAIN history'[c]
               PROVE  \/ \E j \in DOMAIN history[c] : history'[c][i] = history[c][j]
                      \/ history'[c][i] = m /\ m.to = c
    OBVIOUS
  <2>1. CASE history'[c] = history[c]
    BY <2>1
  <2>2. CASE history'[c] # history[c]
    <3>1. m.to = c /\ history'[c] = Push(history[c], m) /\ history[c] \in Seq(Samples)
      BY <1>3, <2>2 DEF Deliver, Lose, TypeOK, Peers
    <3> QED
      BY <1>3, <3>1, Pushed
  <2> QED
    BY <2>1, <2>2
<1>5. AnswersGiven'
  BY <1>1, <1>3, <1>4 DEF PromiseInv, AnswersGiven, IsAnswer, svars
<1> QED
  BY <1>1, <1>2, <1>5 DEF PromiseInv, csvars, svars

\* a client sends with an id that nobody uses, and gets what it was answered
LEMMA PromiseClient ==
  ASSUME TypeOK, ClientsMatchServices, PromiseInv, NEW c \in Clients, ClientStep(c)
  PROVE  /\ PromiseInv'
         /\ Promise!Send(c) \/ Promise!Get(c) \/ UNCHANGED <<sent, header, answered, got>>
<1>1. UNCHANGED <<readers, svars>>
  BY DEF ClientStep, SendRequest, TakeResponse, AskReaders, AskWriters, CompareServices, net
<1>2. IdleIsEmpty'
  BY <1>1, PromiseIsOfState DEF PromiseInv, svars
<1>3. CASE SendRequest(c)
  <2>1. /\ sent' = [sent EXCEPT ![c] = sent[c] \cup {NextId}] /\ next_request_id' = NextId
        /\ Write(c, [guid |-> c, seq |-> NextId]) /\ UNCHANGED <<history, got>>
    BY <1>3 DEF SendRequest
  <2>2. NextId \in Seqs
    BY NextIdType
  <2>3. PICK n \in Seqs : n = NextId
    BY <2>2
  <2>4. \A q : InUse(q)' <=> (InUse(q) \/ q = n)
    BY <2>1, <2>3 DEF InUse, TypeOK
  <2>5. /\ ~InUse(n) \/ \A q \in Seqs : InUse(q)
        /\ \/ \A q \in Seqs : InUse(q) \/ q = n
           \/ \A q \in Seqs : (InUse(q) \/ q = n) <=> (1 <= q /\ q <= n)
    BY <2>3, NextIdUnused DEF PromiseInv
  <2>6. FirstInUse'
    BY <2>1, <2>3, <2>4, <2>5 DEF FirstInUse
  <2>7. AnswersGiven'
    <3>1. \A m \in flight' : m \in flight \/ m.to \in readers[c]
      BY <2>1 DEF Write
    <3>2. \A m \in flight' : m \in flight \/ m.to \notin Clients
      BY <3>1, PeerAssumption DEF ClientsMatchServices
    <3> QED
      BY <1>1, <2>1, <3>2 DEF PromiseInv, AnswersGiven, IsAnswer, svars
  <2>8. Promise!Send(c)
    <3>1. Promise!Unused(n) \/ Promise!AllUsed
      BY <2>5 DEF Promise!Unused, Promise!AllUsed, InUse
    <3> QED
      BY <1>1, <2>1, <2>3, <3>1 DEF Promise!Send, svars
  <2> QED
    BY <1>2, <2>6, <2>7, <2>8 DEF PromiseInv
<1>4. CASE TakeResponse(c)
  <2>1. UNCHANGED <<flight, sent, next_request_id>> /\ c \in Peers
    BY <1>4 DEF TakeResponse, Peers
  <2>2. FirstInUse'
    BY <2>1, PromiseIsOfState DEF PromiseInv
  <2>3. \A d \in Clients : \A j \in DOMAIN history'[d] :
          \E i \in DOMAIN history[d] : history'[d][j] = history[d][i]
    BY <1>4, TakenOrKept DEF Peers
  <2>4. AnswersGiven'
    BY <1>1, <2>1, <2>3 DEF PromiseInv, AnswersGiven, IsAnswer, svars
  <2>5. CASE Own(c) = {}
    BY <1>1, <1>2, <1>4, <2>1, <2>2, <2>4, <2>5 DEF TakeResponse, PromiseInv, svars
  <2>6. CASE Own(c) # {}
    <3>1. PICK i \in Own(c) : got' = [got EXCEPT ![c] = got[c] \cup {history[c][i].req}]
      BY <1>4, <2>6 DEF TakeResponse
    <3>2. PICK a \in answered : a.req = history[c][i].req /\ a.req.guid = c
      <4>1. i \in DOMAIN history[c] /\ history[c][i].req.guid = c
        BY <3>1 DEF Own
      <4> QED
        BY <4>1 DEF PromiseInv, AnswersGiven
    <3>3. Promise!Get(c)
      BY <1>1, <2>1, <3>1, <3>2 DEF Promise!Get, svars
    <3> QED
      BY <1>2, <2>2, <2>4, <3>3 DEF PromiseInv
  <2> QED
    BY <2>5, <2>6
<1>5. CASE AskReaders(c) \/ AskWriters(c) \/ CompareServices(c)
  <2>1. UNCHANGED <<net, csvars>>
    BY <1>5 DEF AskReaders, AskWriters, CompareServices
  <2> QED
    BY <1>1, <1>2, <2>1, PromiseIsOfState DEF PromiseInv, net, csvars, svars
<1> QED
  BY <1>3, <1>4, <1>5 DEF ClientStep

\* a service works on one request at a time that was sent, and answers it or not
LEMMA PromiseService ==
  ASSUME TypeOK, RequestsSent, PromiseInv, NEW s \in Services, TakeRequest(s) \/ ResponseStep(s)
  PROVE  /\ PromiseInv'
         /\ \/ Promise!Accept(s) \/ Promise!Drop(s) \/ Promise!Answer(s)
            \/ UNCHANGED <<sent, header, answered, got>>
<1>1. s \in Peers /\ s \notin Clients
  BY PeerAssumption DEF Peers
<1>2. UNCHANGED <<readers, csvars>>
  BY DEF TakeRequest, ResponseStep, CheckWriter, ListReaders, CompareReaders, Sleep, DropResponse,
         SendResponse, net
<1>3. FirstInUse'
  BY <1>2, PromiseIsOfState DEF PromiseInv, csvars
<1>4. spc[s] # "idle" => Sent(header[s]) /\ header[s] # NoRequest
  <2>1. NoRequest.guid \notin Clients
    BY PeerAssumption DEF NoRequest
  <2> QED
    BY <2>1, SentIsRequest DEF RequestsSent
<1>5. CASE TakeRequest(s)
  <2>1. /\ history[s] # <<>> /\ spc[s] = "idle" /\ UNCHANGED <<flight, answered>>
        /\ header' = [header EXCEPT ![s] = Head(history[s]).req]
        /\ history' = [history EXCEPT ![s] = Tail(history[s])]
        /\ spc' = [spc EXCEPT ![s] = "check"]
    BY <1>5 DEF TakeRequest
  <2>2. \A c \in Clients : history'[c] = history[c]
    BY <1>1, <2>1 DEF TypeOK, Peers
  <2>3. AnswersGiven'
    <3>1. \A m \in flight' : IsAnswer(m)'
      BY <2>1 DEF PromiseInv, AnswersGiven, IsAnswer
    <3>2. ASSUME NEW c \in Clients, NEW i \in DOMAIN history'[c]
          PROVE  [from |-> history'[c][i].from, req |-> history'[c][i].req] \in answered'
      <4>1. history'[c] = history[c]
        BY <2>2
      <4>2. \A j \in DOMAIN history[c] : [from |-> history[c][j].from, req |-> history[c][j].req] \in answered
        BY DEF PromiseInv, AnswersGiven
      <4>3. [from |-> history[c][i].from, req |-> history[c][i].req] \in answered
        BY <3>2, <4>1, <4>2
      <4>4. answered' = answered
        BY <2>1
      <4> QED
        BY <4>1, <4>3, <4>4
    <3> QED
      BY <3>1, <3>2 DEF AnswersGiven
  <2>4. IdleIsEmpty'
    BY <2>1 DEF PromiseInv, IdleIsEmpty, TypeOK
  <2>5. PICK r : r = Head(history[s]).req /\ Sent(r)
    <3>1. /\ history[s] \in Seq(Samples) /\ Len(history[s]) \in Nat
          /\ DOMAIN history[s] = 1..Len(history[s])
      BY <1>1 DEF TypeOK
    <3>2. Head(history[s]) = history[s][1] /\ 1 \in DOMAIN history[s]
      BY <2>1, <3>1, HeadTailProperties
    <3> QED
      BY <1>1, <3>2 DEF RequestsSent
  <2>6. r = [guid |-> r.guid, seq |-> r.seq] /\ r.guid \in Clients /\ r.seq \in sent[r.guid]
    BY <2>5 DEF Sent, Requests
  <2>7. header[s] = NoRequest
    BY <2>1 DEF PromiseInv, IdleIsEmpty
  <2>8. Promise!Accept(s)
    BY <1>2, <2>1, <2>5, <2>6, <2>7 DEF Promise!Accept, csvars
  <2> QED
    BY <1>3, <2>3, <2>4, <2>8 DEF PromiseInv
<1>6. CASE CheckWriter(s) \/ ListReaders(s) \/ CompareReaders(s) \/ Sleep(s)
  <2>1. UNCHANGED <<flight, history, answered, header>>
    BY <1>6 DEF CheckWriter, ListReaders, CompareReaders, Sleep, net
  <2>2. /\ spc[s] # "idle" /\ spc'[s] # "idle"
        /\ \A u \in Services \ {s} : spc'[u] = spc[u]
    BY <1>6 DEF CheckWriter, ListReaders, CompareReaders, Sleep, TypeOK
  <2>3. AnswersGiven' /\ IdleIsEmpty'
    BY <2>1, <2>2, PromiseIsOfState DEF PromiseInv, IdleIsEmpty
  <2> QED
    BY <1>2, <1>3, <2>1, <2>3 DEF PromiseInv, csvars
<1>7. ASSUME DropResponse(s) \/ SendResponse(s)
      PROVE  IdleIsEmpty' /\ Promise!Finish(s)
  <2>1. /\ spc[s] = "verdict" /\ spc' = [spc EXCEPT ![s] = "idle"]
        /\ header' = [header EXCEPT ![s] = NoRequest]
    BY <1>7 DEF DropResponse, SendResponse
  <2>2. IdleIsEmpty'
    BY <2>1 DEF PromiseInv, IdleIsEmpty, TypeOK
  <2> QED
    BY <1>4, <2>1, <2>2 DEF Promise!Finish
<1>8. CASE DropResponse(s)
  <2>1. UNCHANGED <<flight, history, answered>>
    BY <1>8 DEF DropResponse, net
  <2>2. AnswersGiven'
    BY <2>1, PromiseIsOfState DEF PromiseInv
  <2> QED
    BY <1>2, <1>3, <1>7, <1>8, <2>1, <2>2 DEF PromiseInv, Promise!Drop, csvars
<1>9. CASE SendResponse(s)
  <2>1. /\ Write(s, header[s]) /\ UNCHANGED history
        /\ answered' = answered \cup {[from |-> s, req |-> header[s]]}
    BY <1>9 DEF SendResponse
  <2>2. \A m \in flight' : m \in flight \/ (m.from = s /\ m.req = header[s])
    BY <2>1 DEF Write
  <2>3. AnswersGiven'
    BY <2>1, <2>2 DEF PromiseInv, AnswersGiven, IsAnswer
  <2> QED
    BY <1>2, <1>3, <1>7, <1>9, <2>1, <2>3 DEF PromiseInv, Promise!Answer, csvars
<1> QED
  BY <1>5, <1>6, <1>8, <1>9 DEF ResponseStep

\* every step of the endpoints, of the samples, of a client or of a service is a
\* step of the contract, or none
LEMMA PromiseStep ==
  ServiceInv /\ PromiseInv /\ [Next]_vars => PromiseInv' /\ [Promise!Next]_(Promise!vars)
<1> SUFFICES ASSUME ServiceInv, PromiseInv, [Next]_vars
             PROVE  PromiseInv' /\ (Promise!Next \/ UNCHANGED <<sent, header, answered, got>>)
  BY DEF Promise!vars
<1>1. TypeOK /\ RequestsSent /\ ClientsMatchServices
  BY DEF ServiceInv, CoreInv
<1>2. CASE UNCHANGED vars
  BY <1>2, PromiseIsOfState DEF PromiseInv, vars, net, csvars, svars
<1>3. ASSUME NEW p \in Peers, EndpointStep(p)
      PROVE  PromiseInv' /\ (Promise!Next \/ UNCHANGED <<sent, header, answered, got>>)
  BY <1>1, <1>3, PromiseEndpoint
<1>4. ASSUME NEW m \in flight, Deliver(m) \/ Lose(m)
      PROVE  PromiseInv' /\ (Promise!Next \/ UNCHANGED <<sent, header, answered, got>>)
  BY <1>1, <1>4, PromiseSample
<1>5. ASSUME NEW c \in Clients, ClientStep(c)
      PROVE  PromiseInv' /\ (Promise!Next \/ UNCHANGED <<sent, header, answered, got>>)
  BY <1>1, <1>5, PromiseClient DEF Promise!Next
<1>6. ASSUME NEW s \in Services, TakeRequest(s) \/ ResponseStep(s)
      PROVE  PromiseInv' /\ (Promise!Next \/ UNCHANGED <<sent, header, answered, got>>)
  BY <1>1, <1>6, PromiseService DEF Promise!Next
<1> QED
  BY <1>2, <1>3, <1>4, <1>5, <1>6 DEF Next

\* rmw_send_request ... rmw_take_response implement request and response: what a
\* service works on was sent, under an id of its own; it works on one request at
\* a time; and a client gets only what a service answered to a request of its own
THEOREM KeepsServiceContract == Spec => ServiceKeepsContract
<1>1. Init => PromiseInv
  <2> SUFFICES ASSUME Init PROVE PromiseInv
    OBVIOUS
  <2>1. \A c \in Clients : DOMAIN history[c] = {}
    BY DEF Init, Peers
  <2>2. FirstInUse
    BY DEF Init, FirstInUse, InUse, Seqs
  <2> QED
    BY <2>1, <2>2 DEF Init, PromiseInv, AnswersGiven, IdleIsEmpty, Peers
<1>2. Init => Promise!Init
  BY DEF Init, Promise!Init
<1> QED
  BY <1>1, <1>2, PromiseStep, ServiceAlways, PTL DEF Spec, ServiceKeepsContract, Promise!Spec
=============================================================================
