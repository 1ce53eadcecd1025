------------------------------ MODULE Service ------------------------------
(***************************************************************************)
(* Requests and responses (rmw_node.cpp: rmw_init_cs ... rmw_fini_cs,      *)
(* rmw_send_request, rmw_take_request, rmw_send_response,                  *)
(* rmw_take_response and rmw_service_server_is_available).                 *)
(*                                                                         *)
(* A client is a request writer and a response reader, a service a request *)
(* reader and a response writer.  DDS discovers the four endpoints one by  *)
(* one, in any order and on each side separately: a service may know a     *)
(* client's writer long before its reader, and a response written then is  *)
(* lost.  All responses of a service go to all clients it has matched, and *)
(* all that wait in a reader share the history its QoS gives it.           *)
(***************************************************************************)
EXTENDS Integers, Sequences, FiniteSets

CONSTANTS Clients, Services,
          NoClient,    \* the header of no request
          Legacy,      \* peers that put no id in their user data
          SeqMod,      \* 2^32: next_request_id is an atomic_uint
          KeepAll, Depth, BestEffort,   \* create_readwrite_qos, for all endpoints
          MaxSends,    \* bound: requests a client sends
          Polls        \* 100ms in sleeps of 10ms, or more, of rmw_send_response

ASSUME PeerAssumption  == Clients \cap Services = {} /\ NoClient \notin Clients
ASSUME LegacyAssumption == Legacy \subseteq Clients \cup Services
ASSUME QoSAssumption   == KeepAll \in BOOLEAN /\ BestEffort \in BOOLEAN /\ Depth \in Nat \ {0}
ASSUME BoundAssumption == SeqMod \in Nat \ {0} /\ MaxSends \in Nat /\ Polls \in Nat

Peers == Clients \cup Services

VARIABLES
  stage,      \* which endpoints a peer has; see HasWriter and HasReader
  readers,    \* per peer, the peers whose reader its writer has matched
  writers,    \* per peer, the peers whose writer its reader has matched
  flight,     \* samples on their way
  history,    \* per peer, the samples in its reader
  \* clients
  next_request_id, sent,
  got,        \* what rmw_take_response handed to the client
  apc,        \* rmw_service_server_is_available: where
  rds, wrs,   \* the readers and writers it found (rmw_send_response: rds)
  available,  \* what it said
  \* services, in rmw_send_response
  spc, header, polls, st,
  answered,   \* the responses written because the client's reader was matched
  behind      \* the clients that ever had more responses coming than Depth

csvars == <<next_request_id, sent, got>>
avars  == <<apc, available>>
svars  == <<spc, header, polls, st, answered, behind>>
found  == <<rds, wrs>>
net    == <<stage, readers, writers, flight, history>>
vars   == <<net, csvars, avars, found, svars>>

HasWriter(p) == stage[p] \in {"writer", "up", "readerless"}
HasReader(p) == stage[p] = "up"
Other(p) == IF p \in Clients THEN Services ELSE Clients
Seqs == 0..(SeqMod - 1)
Requests == [guid : Clients, seq : Seqs]   \* cdds_request_header_t
NoRequest == [guid |-> NoClient, seq |-> 0]   \* between two calls
Samples == [from : Peers, to : Peers, req : Requests]
HasId(p) == p \notin Legacy

Init ==
  /\ stage = [p \in Peers |-> "none"]
  /\ readers = [p \in Peers |-> {}] /\ writers = [p \in Peers |-> {}]
  /\ flight = {} /\ history = [p \in Peers |-> <<>>]
  /\ next_request_id = 0
  /\ sent = [c \in Clients |-> {}] /\ got = [c \in Clients |-> {}]
  /\ apc = [c \in Clients |-> "idle"] /\ available = [c \in Clients |-> FALSE]
  /\ rds = [p \in Peers |-> {}] /\ wrs = [c \in Clients |-> {}]
  /\ spc = [s \in Services |-> "idle"]
  /\ header = [s \in Services |-> NoRequest] /\ polls = [s \in Services |-> 0]
  /\ st = [s \in Services |-> "MAYBE"] /\ answered = {} /\ behind = {}

(***************************************************************************)
(* Endpoints and their discovery.                                          *)
(***************************************************************************)
\* rmw_init_cs creates the writer, then the reader; rmw_fini_cs deletes the
\* reader, then the writer
Idle(p) == IF p \in Clients THEN apc[p] = "idle" ELSE spc[p] = "idle"
Advance(p, from, to) == stage[p] = from /\ stage' = [stage EXCEPT ![p] = to]
InitWriter(p) ==
  /\ Advance(p, "none", "writer")
  /\ UNCHANGED <<readers, writers, flight, history, csvars, avars, found, svars>>
InitReader(p) ==
  /\ Advance(p, "writer", "up")
  /\ UNCHANGED <<readers, writers, flight, history, csvars, avars, found, svars>>
FiniReader(p) ==
  /\ Idle(p) /\ Advance(p, "up", "readerless")
  /\ writers' = [writers EXCEPT ![p] = {}]
  /\ history' = [history EXCEPT ![p] = <<>>]
  /\ UNCHANGED <<readers, flight, csvars, avars, found, svars>>
FiniWriter(p) ==
  /\ Advance(p, "readerless", "gone")
  /\ readers' = [readers EXCEPT ![p] = {}]
  /\ UNCHANGED <<writers, flight, history, csvars, avars, found, svars>>

\* DDS: the writer of p and the reader of q find, or lose, each other; each
\* side in its own time
WriterFinds(p, q) ==
  /\ HasWriter(p) /\ HasReader(q)
  /\ readers' = [readers EXCEPT ![p] = @ \cup {q}]
  /\ UNCHANGED <<stage, writers, flight, history, csvars, avars, found, svars>>
ReaderFinds(q, p) ==
  /\ HasReader(q) /\ HasWriter(p)
  /\ writers' = [writers EXCEPT ![q] = @ \cup {p}]
  /\ UNCHANGED <<stage, readers, flight, history, csvars, avars, found, svars>>
WriterLoses(p, q) ==
  /\ q \in readers[p] /\ ~HasReader(q)
  /\ readers' = [readers EXCEPT ![p] = @ \ {q}]
  /\ UNCHANGED <<stage, writers, flight, history, csvars, avars, found, svars>>
ReaderLoses(q, p) ==
  /\ p \in writers[q] /\ ~HasWriter(p)
  /\ writers' = [writers EXCEPT ![q] = @ \ {p}]
  /\ UNCHANGED <<stage, readers, flight, history, csvars, avars, found, svars>>

\* rmw_send_response_request: dds_write_ts, to the readers that the writer has
\* matched, and lost on everybody else
Write(p, r) == flight' = flight \cup {[from |-> p, to |-> q, req |-> r] : q \in readers[p]}
\* a history keeps all, or the last Depth samples whoever wrote them and for whom
Push(h, m) == IF KeepAll \/ Len(h) < Depth THEN Append(h, m) ELSE Append(Tail(h), m)
\* a sample arrives once the reader knows the writer ...
Deliver(m) ==
  /\ HasReader(m.to) /\ m.from \in writers[m.to]
  /\ flight' = flight \ {m}
  /\ history' = [history EXCEPT ![m.to] = Push(@, m)]
  /\ UNCHANGED <<stage, readers, writers, csvars, avars, found, svars>>
\* ... or never: one of the two is gone, nothing says that it must arrive, or the
\* writer wrote Depth more before it did (which of them it was is left open)
Backlog(m) == {n \in flight : n.from = m.from /\ n.to = m.to}
Lose(m) ==
  /\ \/ ~HasReader(m.to) \/ ~HasWriter(m.from)
     \/ BestEffort
     \/ ~KeepAll /\ Cardinality(Backlog(m)) > Depth
  /\ flight' = flight \ {m}
  /\ UNCHANGED <<stage, readers, writers, history, csvars, avars, found, svars>>

(***************************************************************************)
(* The client.                                                             *)
(***************************************************************************)
NoWrap == next_request_id + 1    \* (a variant that gets it wrong)
SameId == next_request_id        \* (a variant that gets it wrong)
NextId == (next_request_id + 1) % SeqMod
SendRequest(c) ==
  LET seq == NextId IN
  /\ stage[c] = "up" /\ Cardinality(sent[c]) < MaxSends    \* bound
  /\ next_request_id' = seq
  /\ sent' = [sent EXCEPT ![c] = @ \cup {seq}]
  /\ Write(c, [guid |-> c, seq |-> seq])
  /\ UNCHANGED <<stage, readers, writers, history, got, avars, found, svars>>

\* rmw_take_response_request with the client's own pubiid as srcfilter: other
\* clients' responses in front of the first of its own are taken and dropped
NoFilter(c) == {i \in DOMAIN history[c] : TRUE}   \* (a variant that gets it wrong)
Own(c) == {i \in DOMAIN history[c] : history[c][i].req.guid = c}
TakeResponse(c) ==
  /\ stage[c] = "up"
  /\ IF Own(c) = {}
       THEN /\ history' = [history EXCEPT ![c] = <<>>]
            /\ got' = got
       ELSE \E i \in Own(c) :
              /\ \A j \in Own(c) : i <= j
              /\ got' = [got EXCEPT ![c] = @ \cup {history[c][i].req}]
              /\ history' = [history EXCEPT ![c] = SubSeq(@, i + 1, Len(@))]
  /\ UNCHANGED <<stage, readers, writers, flight, next_request_id, sent, avars,
                 found, svars>>

\* rmw_service_server_is_available: lists the matched request readers, lists
\* the matched response writers, then looks up the data of each.  (The graph
\* cache, asked first, only turns answers into false.)
AskReaders(c) ==
  /\ stage[c] = "up" /\ apc[c] = "idle"
  /\ apc' = [apc EXCEPT ![c] = "writers"]
  /\ available' = [available EXCEPT ![c] = FALSE]
  /\ rds' = [rds EXCEPT ![c] = readers[c]]
  /\ UNCHANGED <<net, csvars, wrs, svars>>

AskWriters(c) ==
  /\ apc[c] = "writers"
  /\ apc' = [apc EXCEPT ![c] = "compare"]
  /\ wrs' = [wrs EXCEPT ![c] = writers[c]]
  /\ UNCHANGED <<net, csvars, available, rds, svars>>

\* a response writer with the serviceid of a request reader, or, when no
\* reader gives an id (any more), any writer
MatchesOnly(c) == rds[c] # {} /\ wrs[c] # {}   \* (a variant that gets it wrong)
ServiceFound(c) ==
  LET needles == {s \in rds[c] \cap readers[c] : HasId(s)} IN
  IF needles = {} THEN rds[c] # {} /\ wrs[c] # {}
                  ELSE needles \cap wrs[c] \cap writers[c] # {}
CompareServices(c) ==
  /\ apc[c] = "compare"
  /\ apc' = [apc EXCEPT ![c] = "idle"]
  /\ available' = [available EXCEPT ![c] = ServiceFound(c)]
  /\ rds' = [rds EXCEPT ![c] = {}] /\ wrs' = [wrs EXCEPT ![c] = {}]
  /\ UNCHANGED <<net, csvars, svars>>

(***************************************************************************)
(* The service.                                                            *)
(***************************************************************************)
TakeRequest(s) ==
  /\ stage[s] = "up" /\ spc[s] = "idle" /\ history[s] # <<>>
  /\ header' = [header EXCEPT ![s] = Head(history[s]).req]
  /\ history' = [history EXCEPT ![s] = Tail(@)]
  /\ spc' = [spc EXCEPT ![s] = "check"]      \* the response is ready
  /\ UNCHANGED <<stage, readers, writers, flight, csvars, avars, found, polls, st,
                 answered, behind>>

\* check_for_response_reader: the request's writer, by its instance handle ...
CheckWriter(s) ==
  LET c == header[s].guid IN
  /\ spc[s] = "check"
  /\ IF c \notin writers[s]
       THEN st' = [st EXCEPT ![s] = "GONE"] /\ spc' = [spc EXCEPT ![s] = "verdict"]
       ELSE IF ~HasId(c)
         THEN st' = [st EXCEPT ![s] = "YES"] /\ spc' = [spc EXCEPT ![s] = "verdict"]
         ELSE st' = st /\ spc' = [spc EXCEPT ![s] = "list"]
  /\ UNCHANGED <<net, csvars, avars, found, header, polls, answered, behind>>

\* ... then the readers matched.  The lookup may fail: that returns RMW_RET_ERROR,
\* which is positive and passes the test for < 0, with no reader that exists
ListReaders(s) ==
  /\ spc[s] = "list"
  /\ spc' = [spc EXCEPT ![s] = "compare"]
  /\ rds' = [rds EXCEPT ![s] = readers[s]] \/ rds' = [rds EXCEPT ![s] = {}]
  /\ UNCHANGED <<net, csvars, avars, wrs, header, polls, st, answered, behind>>

\* ... and the clientid of each, unless it is gone by now
ReaderOfAny(s, c) == rds[s] # {}           \* (a variant that gets it wrong)
ReaderOf(s, c) == c \in rds[s] \cap readers[s]
CompareReaders(s) ==
  /\ spc[s] = "compare"
  /\ spc' = [spc EXCEPT ![s] = "verdict"]
  /\ st' = [st EXCEPT ![s] = IF ReaderOf(s, header[s].guid) THEN "YES" ELSE "MAYBE"]
  /\ rds' = [rds EXCEPT ![s] = {}]
  /\ UNCHANGED <<net, csvars, avars, wrs, header, polls, answered, behind>>

\* MAYBE, and there is time left
Never(s) == TRUE                 \* (a variant that gets it wrong)
TimeLeft(s) == polls[s] < Polls
Sleep(s) ==
  /\ spc[s] = "verdict" /\ st[s] = "MAYBE" /\ TimeLeft(s)
  /\ spc' = [spc EXCEPT ![s] = "check"]
  /\ \E n \in (polls[s] + 1)..Polls : polls' = [polls EXCEPT ![s] = n]
  /\ UNCHANGED <<net, csvars, avars, found, header, st, answered, behind>>

\* RMW_RET_TIMEOUT, or, for a client that is gone, RMW_RET_OK
DropResponse(s) ==
  /\ spc[s] = "verdict"
  /\ st[s] = "GONE" \/ (st[s] = "MAYBE" /\ ~TimeLeft(s))
  /\ spc' = [spc EXCEPT ![s] = "idle"]
  /\ header' = [header EXCEPT ![s] = NoRequest] /\ polls' = [polls EXCEPT ![s] = 0]
  /\ UNCHANGED <<net, csvars, avars, found, st, answered, behind>>

Coming(c) == {m \in flight : m.to = c}
Unread(c) == Cardinality(Coming(c)) + Len(history[c])
SendResponse(s) ==
  /\ spc[s] = "verdict" /\ st[s] = "YES"
  /\ spc' = [spc EXCEPT ![s] = "idle"]
  /\ header' = [header EXCEPT ![s] = NoRequest] /\ polls' = [polls EXCEPT ![s] = 0]
  /\ Write(s, header[s])
  /\ answered' = answered \cup {[from |-> s, req |-> header[s]]}
  /\ UNCHANGED <<stage, readers, writers, history, csvars, avars, found, st>>
  /\ behind' = behind \cup {c \in Clients : Unread(c)' > Depth}

(***************************************************************************)
(* The specification.                                                      *)
(***************************************************************************)
EndpointStep(p) ==
  \/ InitWriter(p) \/ InitReader(p) \/ FiniReader(p) \/ FiniWriter(p)
  \/ \E q \in Other(p) :
       WriterFinds(p, q) \/ ReaderFinds(p, q) \/ WriterLoses(p, q) \/ ReaderLoses(p, q)
ClientStep(c) == SendRequest(c) \/ TakeResponse(c) \/ AskReaders(c) \/ AskWriters(c)
                 \/ CompareServices(c)
ResponseStep(s) ==
  \/ CheckWriter(s) \/ ListReaders(s) \/ CompareReaders(s) \/ Sleep(s)
  \/ DropResponse(s) \/ SendResponse(s)

Next ==
  \/ \E p \in Peers : EndpointStep(p)
  \/ \E m \in flight : Deliver(m) \/ Lose(m)
  \/ \E c \in Clients : ClientStep(c)
  \/ \E s \in Services : TakeRequest(s) \/ ResponseStep(s)

Spec == Init /\ [][Next]_vars

\* a thread inside rmw_send_response runs on
FairSpec == Spec /\ \A s \in Services : WF_vars(ResponseStep(s))

(***************************************************************************)
(* Properties.                                                             *)
(***************************************************************************)
\* every variable has its type
TypeOK ==
  /\ stage \in [Peers -> {"none", "writer", "up", "readerless", "gone"}]
  /\ readers \in [Peers -> SUBSET Peers] /\ writers \in [Peers -> SUBSET Peers]
  /\ flight \subseteq Samples /\ history \in [Peers -> Seq(Samples)]
  /\ next_request_id \in Seqs
  /\ sent \in [Clients -> SUBSET Seqs] /\ got \in [Clients -> SUBSET Requests]
  /\ apc \in [Clients -> {"idle", "writers", "compare"}] /\ available \in [Clients -> BOOLEAN]
  /\ rds \in [Peers -> SUBSET Peers] /\ wrs \in [Clients -> SUBSET Peers]
  /\ spc \in [Services -> {"idle", "check", "list", "compare", "verdict"}]
  /\ header \in [Services -> Requests \cup {NoRequest}] /\ polls \in [Services -> 0..Polls]
  /\ st \in [Services -> {"MAYBE", "YES", "GONE"}]
  /\ answered \subseteq [from : Services, req : Requests] /\ behind \subseteq Clients

\* a client is only ever handed responses to requests it sent itself, although
\* the responses to everybody's requests reach its reader
OwnResponses ==
  \A c \in Clients : \A r \in got[c] : r.guid = c /\ r.seq \in sent[c]

\* a response written because the client's reader was matched is not lost while
\* the two are there, unlike one that is written too early: if reliable, and if
\* all is kept or the client never had more responses coming, those to others
\* among them, than its reader keeps
KeepsUp(c) == ~BestEffort /\ (KeepAll \/ c \notin behind)
ResponseNotLost ==
  \A a \in answered : LET c == a.req.guid IN
    HasId(c) /\ HasReader(c) /\ HasWriter(a.from) /\ KeepsUp(c) =>
      \/ [from |-> a.from, to |-> c, req |-> a.req] \in flight
      \/ \E i \in DOMAIN history[c] : history[c][i].req = a.req
      \/ a.req \in got[c]

\* whatever is lost, late or known to one side only: services work on requests
\* that were sent, one at a time, and each client gets answers to its own
Promise == INSTANCE ServiceContract WITH Nothing <- NoRequest, work <- header
ServiceKeepsContract == Promise!Spec

\* what rmw_service_server_is_available has seen when it says yes
SaysYes(c) == apc[c] = "compare" /\ apc'[c] = "idle" /\ available'[c]
BothEnds(c) == \E s \in rds[c] : s \in wrs[c]
AllOld(c) == \A s \in rds[c] : ~HasId(s)
\* the reader of one service and the writer of another do not add up to an
\* available service, unless one goes away while the question is asked
AvailableIsPaired ==
  [][\A c \in Clients : SaysYes(c) =>
       BothEnds(c) \/ AllOld(c) \/ rds[c] \ readers[c] # {}]_vars

\* rmw_send_response does not wait for a client's reader for ever
SendResponseEnds == \A s \in Services : spc[s] # "idle" ~> spc[s] = "idle"
=============================================================================
