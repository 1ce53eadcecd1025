------------------------------- MODULE Graph -------------------------------
(***************************************************************************)
(* The ROS graph as one context sees it (rmw_node.cpp): the graph cache,   *)
(* which the discovery thread keeps in step with what DDS has discovered,  *)
(* the publishers, subscriptions, clients and services the application     *)
(* makes, which are entered in the cache and announced, and the queries.   *)
(*                                                                         *)
(* DDS tells of participants and endpoints, those of this context          *)
(* included, in three readers of built-in topics; which endpoints belong   *)
(* to which node comes in messages of each participant, in a fourth.       *)
(* There is no order between the four.  Nodes, and the start and the end   *)
(* of the thread in more detail, are in Context.                           *)
(***************************************************************************)
EXTENDS Names, FiniteSets

CONSTANTS
  Threads,
  Remotes,        \* participants of other processes
  Selves,         \* the participant of this context, one per life (bound)
  LocalEntities,  \* publishers, subscriptions, clients and services: here ...
  RemoteEntities, \* ... and elsewhere
  KindOf, NameOf, \* "pub", "sub", "cli" or "srv", and the ROS name
  OwnerOf,        \* the participant of a remote entity
  MaxChanges,     \* bound: remote endpoints and participants that come or go
  MaxInfo,        \* bound: versions of its graph a participant sends
  NoOne

Entities == LocalEntities \cup RemoteEntities
Parts    == Remotes \cup Selves

ASSUME GraphAssumption ==
  /\ LocalEntities \cap RemoteEntities = {} /\ Remotes \cap Selves = {}
  /\ NoOne \notin Parts \cup Entities
  /\ KindOf \in [Entities -> {"pub", "sub", "cli", "srv"}]
  /\ OwnerOf \in [RemoteEntities -> Remotes]
  /\ MaxChanges \in Nat /\ MaxInfo \in Nat

\* the endpoints of an entity: a writer "w", a reader "r", or both
Sides(kind) == CASE kind = "pub" -> {"w"} [] kind = "sub" -> {"r"} [] OTHER -> {"w", "r"}
EndsOf(e) == {[of |-> e, side |-> s] : s \in Sides(KindOf[e])}
LocalEnds  == UNION {EndsOf(e) : e \in LocalEntities}
RemoteEnds == UNION {EndsOf(e) : e \in RemoteEntities}
AllEnds    == LocalEnds \cup RemoteEnds
Things     == Parts \cup AllEnds

ASSUME ThingsAssumption ==
  /\ Parts \cap AllEnds = {} /\ IsFiniteSet(Entities)
  /\ \A e \in Entities : Qualified(NameOf[e])

\* the DDS topic of an endpoint
TopicOf(x) ==
  LET name == NameOf[x.of] IN
  IF KindOf[x.of] \in {"pub", "sub"} THEN make_fqtopic("rt", name, <<>>, FALSE)
  ELSE IF (KindOf[x.of] = "cli") = (x.side = "w")
    THEN make_fqtopic("rq", name, <<"Request">>, FALSE)
    ELSE make_fqtopic("rr", name, <<"Reply">>, FALSE)

VARIABLES
  life,       \* what exists, to this DDS: "none", "alive", or "gone" for good
  unread,     \* the instances of the built-in topics to be read
  changes,    \* how often remote things came or went
  version,    \* per remote participant, the version of its graph it sent ...
  received,   \* ... the version that came in since it was discovered ...
  inbox,      \* ... those not taken yet
  \* the graph cache
  cached,     \* participants and endpoints
  known,      \* the version of the graph of each remote participant
  assoc,      \* the entities of this context, entered under their nodes
  \* the context and its discovery thread
  self, thread_is_running,
  thread,     \* where it is
  xs,         \* the readers it was woken for and has yet to empty
  current,    \* the one it is emptying
  \* the application
  owned,      \* the entities it has
  pc, job,
  left        \* what may be in the cache though it is gone; see below

dds   == <<life, unread, changes, version, received, inbox>>
graph == <<cached, known, assoc>>
disc  == <<thread_is_running, thread, xs, current>>
app   == <<owned, pc, job>>
vars  == <<dds, graph, self, disc, app, left>>

Alive(x) == life[x] = "alive"
Readers  == {"info", "participant", "subscription", "publication"}
Init ==
  /\ life = [x \in Things |-> "none"] /\ unread = {} /\ changes = 0
  /\ version = [p \in Remotes |-> 0] /\ received = [p \in Remotes |-> 0]
  /\ inbox = [p \in Remotes |-> <<>>]
  /\ cached = {} /\ known = [p \in Remotes |-> 0] /\ assoc = {}
  /\ self = NoOne
  /\ thread_is_running = FALSE /\ thread = "none" /\ xs = {} /\ current = NoOne
  /\ owned = {} /\ pc = [t \in Threads |-> "idle"] /\ job = [t \in Threads |-> NoOne]
  /\ left = {}

(***************************************************************************)
(* DDS: what the other participants do.                                    *)
(***************************************************************************)
\* things are discovered as long as this context has a participant; a
\* participant that was lost may be discovered again
Appear(x) ==
  /\ self # NoOne /\ life[x] = "none"
  /\ x \in RemoteEnds => Alive(OwnerOf[x.of])
  /\ changes < MaxChanges /\ changes' = changes + 1      \* bound
  /\ life' = [life EXCEPT ![x] = "alive"]
  /\ unread' = unread \cup {x}
  /\ left' = left \ {x}
  /\ UNCHANGED <<version, received, inbox, graph, self, disc, app>>

\* the endpoints of a participant that goes are removed one by one
Vanish(x) ==
  /\ Alive(x)
  /\ changes < MaxChanges /\ changes' = changes + 1      \* bound
  /\ life' = [life EXCEPT ![x] = "none"]
  /\ unread' = unread \cup {x}
  /\ received' = IF x \in Remotes THEN [received EXCEPT ![x] = 0] ELSE received
  /\ UNCHANGED <<version, inbox, graph, self, disc, app, left>>

\* "ros_discovery_info" is reliable and transient local: the last version of a
\* participant's graph comes in again after it was rediscovered
InfoArrives(p) ==
  /\ Alive(p) /\ received[p] < MaxInfo                   \* bound
  /\ \E v \in (received[p] + 1)..MaxInfo :
       /\ v >= version[p]
       /\ version' = [version EXCEPT ![p] = v]
       /\ received' = [received EXCEPT ![p] = v]
       /\ inbox' = [inbox EXCEPT ![p] = Append(@, v)]
  /\ UNCHANGED <<life, unread, changes, graph, self, disc, app, left>>

(***************************************************************************)
(* The discovery thread.                                                   *)
(***************************************************************************)
ReaderOf(x) == IF x \in Parts THEN "participant"
               ELSE IF x.side = "r" THEN "subscription" ELSE "publication"
HasData(r) == IF r = "info" THEN \E p \in Remotes : inbox[p] # <<>>
                            ELSE \E x \in unread : ReaderOf(x) = r
NoPublications == {r \in Readers \ {"publication"} : HasData(r)}  \* (a variant that gets it wrong)
Triggered == {r \in Readers : HasData(r)}

CheckRunning ==
  /\ thread = "check"
  /\ thread' = IF thread_is_running THEN "wait" ELSE "done"
  /\ UNCHANGED <<dds, graph, self, thread_is_running, xs, current, app, left>>

\* dds_waitset_wait: some data, or the guard condition
WakeUp ==
  /\ Triggered # {} \/ ~thread_is_running
  /\ thread = "wait" /\ thread' = "handle"
  /\ xs' = Triggered
  /\ UNCHANGED <<dds, graph, self, thread_is_running, current, app, left>>

\* one reader after the other, in the order dds_waitset_wait gives them, each
\* until there is nothing more to take
NextReader ==
  /\ thread = "handle" /\ ~HasData(current)
  /\ IF xs = {} THEN thread' = "check" /\ current' = NoOne /\ xs' = xs
     ELSE \E r \in xs : current' = r /\ xs' = xs \ {r} /\ thread' = thread
  /\ UNCHANGED <<dds, graph, self, thread_is_running, app, left>>

\* update_participant_entities enters participants it does not know yet
HandleInfo(p) ==
  /\ thread = "handle" /\ current = "info" /\ inbox[p] # <<>>
  /\ inbox' = [inbox EXCEPT ![p] = Tail(@)]
  /\ cached' = cached \cup {p}
  /\ known' = [known EXCEPT ![p] = Head(inbox[p])]
  /\ UNCHANGED <<life, unread, changes, version, received, assoc, self,
                 disc, app, left>>

\* instance_state tells whether it is alive now; what is taken may be older
AsPublished(x) == TRUE           \* (a variant that gets it wrong)
AliveNow(x) == Alive(x)
HandleParticipant(x) ==
  /\ thread = "handle" /\ current = "participant"
  /\ unread' = unread \ {x}
  /\ IF x = self THEN UNCHANGED <<cached, known, left>>
     ELSE IF ~AliveNow(x) THEN
       /\ cached' = cached \ {x} /\ known' = [known EXCEPT ![x] = 0]
       /\ left' = IF inbox[x] # <<>> THEN left \cup {x} ELSE left \ {x}
     ELSE cached' = cached \cup {x} /\ UNCHANGED <<known, left>>
  /\ UNCHANGED <<life, changes, version, received, inbox, assoc, self,
                 disc, app>>

HandleEndpoint(x) ==
  /\ thread = "handle" /\ current = ReaderOf(x)
  /\ unread' = unread \ {x}
  /\ IF AliveNow(x) THEN cached' = cached \cup {x} /\ left' = left
                    ELSE cached' = cached \ {x} /\ left' = left \ {x}
  /\ UNCHANGED <<life, changes, version, received, inbox, known, assoc, self,
                 disc, app>>

DiscoveryStep ==
  \/ CheckRunning \/ WakeUp \/ NextReader
  \/ \E p \in Remotes : HandleInfo(p)
  \/ \E x \in unread \cap Parts : HandleParticipant(x)
  \/ \E x \in unread \cap AllEnds : HandleEndpoint(x)

(***************************************************************************)
(* The first node starts the context's life and the last one ends it; see  *)
(* Context for what happens in between, and when things fail.              *)
(***************************************************************************)
StartContext ==
  /\ self = NoOne
  /\ \E me \in {p \in Selves : life[p] = "none"} :
       /\ self' = me /\ life' = [life EXCEPT ![me] = "alive"]
       /\ unread' = unread \cup {me} /\ cached' = cached \cup {me}
  /\ thread_is_running' = TRUE /\ thread' = "check"
  /\ UNCHANGED <<changes, version, received, inbox, known, assoc, xs, current, app, left>>

\* the last node, without entities, is destroyed: the thread is told to stop ...
StopContext ==
  /\ thread_is_running /\ owned = {} /\ \A t \in Threads : pc[t] = "idle"
  /\ thread_is_running' = FALSE
  /\ UNCHANGED <<dds, graph, self, thread, xs, current, app, left>>

\* ... and joined.  The participant goes, and with it all that DDS knew.  The
\* graph cache stays, and nobody will say of what is in it that it is gone
JoinThread ==
  /\ thread = "done" /\ thread' = "none"
  /\ self' = NoOne
  /\ life' = [x \in Things |-> IF x = self THEN "gone"
                               ELSE IF Alive(x) THEN "none" ELSE life[x]]
  /\ unread' = {} /\ received' = [p \in Remotes |-> 0]
  /\ inbox' = [p \in Remotes |-> <<>>]
  /\ left' = left \cup cached
  /\ UNCHANGED <<changes, version, graph, thread_is_running, xs, current, app>>

(***************************************************************************)
(* Publishers, subscriptions, clients and services.  Each is made once: an *)
(* endpoint made later has another GUID.                                   *)
(***************************************************************************)
Working(e) == \E t \in Threads : job[t] = e
Goto(t, from, to) == pc[t] = from /\ pc' = [pc EXCEPT ![t] = to]
KeepsJob(t, from) == Goto(t, from, "idle") /\ job' = job    \* (a variant that gets it wrong)
Leave(t, from) == Goto(t, from, "idle") /\ job' = [job EXCEPT ![t] = NoOne]
Take(t, e, to) == Goto(t, "idle", to) /\ ~Working(e) /\ job' = [job EXCEPT ![t] = e]

CreateEntity(t, e) ==
  /\ e \notin owned /\ \A x \in EndsOf(e) : life[x] = "none"
  /\ thread_is_running /\ Take(t, e, "make")   \* there is a node
  /\ UNCHANGED <<dds, graph, self, disc, owned, left>>

\* the writer, then the reader
NextEnd(e) == CHOOSE x \in EndsOf(e) : life[x] = "none" /\
                \A y \in EndsOf(e) : life[y] = "none" => x = y \/ x.side = "w"
Whole(e) == \A x \in EndsOf(e) : Alive(x)
MakeEnd(t) ==
  LET x == NextEnd(job[t]) IN
  /\ pc[t] = "make" /\ ~Whole(job[t])
  /\ life' = [life EXCEPT ![x] = "alive"] /\ unread' = unread \cup {x}
  /\ UNCHANGED <<changes, version, received, inbox, graph, self, disc, app, left>>
\* what fails deletes what was made before it
NoCleanUp(t) == Leave(t, "make")    \* (a variant that gets it wrong)
CleanUp(t) == Goto(t, "make", "undo") /\ job' = job
MakeFails(t) ==
  /\ CleanUp(t) /\ ~Whole(job[t])
  /\ UNCHANGED <<dds, graph, self, disc, owned, left>>

\* add_*_graph, with the announcement
AddGraph(t) ==
  /\ Leave(t, "make") /\ Whole(job[t])
  /\ assoc' = assoc \cup {job[t]} /\ owned' = owned \cup {job[t]}
  /\ UNCHANGED <<dds, cached, known, self, disc, left>>
AddGraphFails(t) ==
  /\ CleanUp(t) /\ Whole(job[t])
  /\ UNCHANGED <<dds, graph, self, disc, owned, left>>

\* remove_*_graph, whose failure is reported (publishers, subscriptions) or
\* not (clients, services) but stops nobody
StaysInGraph(e) == assoc         \* (a variant that gets it wrong)
RemoveFromGraph(e) == assoc \ {e}
DestroyEntity(t, e) ==
  /\ e \in owned /\ Take(t, e, "undo")
  /\ owned' = owned \ {e} /\ assoc' = RemoveFromGraph(e)
  /\ UNCHANGED <<dds, cached, known, self, disc, left>>

\* the reader, then the writer
Deletable(e) == {x \in EndsOf(e) : Alive(x) /\
                   \A y \in EndsOf(e) : Alive(y) => x = y \/ x.side = "r"}
DeleteEnd(t) ==
  /\ pc[t] = "undo"
  /\ \E x \in Deletable(job[t]) :
       life' = [life EXCEPT ![x] = "gone"] /\ unread' = unread \cup {x}
  /\ UNCHANGED <<changes, version, received, inbox, graph, self, disc, app, left>>
Deleted(t) ==
  /\ Leave(t, "undo") /\ Deletable(job[t]) = {}
  /\ UNCHANGED <<dds, graph, self, disc, owned, left>>

(***************************************************************************)
(* The queries.                                                            *)
(***************************************************************************)
CachedOn(topic, side) == {x \in cached \cap AllEnds : TopicOf(x) = topic /\ x.side = side}
rmw_get_publishers_info_by_topic(name) == CachedOn(make_fqtopic("rt", name, <<>>, FALSE), "w")
rmw_get_subscriptions_info_by_topic(name) == CachedOn(make_fqtopic("rt", name, <<>>, FALSE), "r")
Requesting(name, side) == CachedOn(make_fqtopic("rq", name, <<"Request">>, FALSE), side)
Replying(name, side) == CachedOn(make_fqtopic("rr", name, <<"Reply">>, FALSE), side)
rmw_count_publishers(name) == Cardinality(rmw_get_publishers_info_by_topic(name))
rmw_count_subscribers(name) == Cardinality(rmw_get_subscriptions_info_by_topic(name))
rmw_count_clients(name) == Cardinality(Replying(name, "r"))
rmw_count_services(name) == Cardinality(Requesting(name, "r"))

\* the graph cache pairs the reader and the writer of one client or service
Paired(rds, wrs) == {x.of : x \in rds} \cap {x.of : x \in wrs}
rmw_get_clients_info_by_service(name) == Paired(Replying(name, "r"), Requesting(name, "w"))
rmw_get_servers_info_by_service(name) == Paired(Requesting(name, "r"), Replying(name, "w"))

Listed(S, demangle(_)) == {demangle(TopicOf(x)) : x \in S \cap cached} \ {Nothing}
rmw_get_topic_names == Listed(AllEnds, demangle_ros_topic)
rmw_get_service_names == Listed(AllEnds, demangle_service_from_topic)

\* of a node here
OfNode(side) == {x \in LocalEnds : x.of \in assoc /\ x.side = side}
NamesOfNode(kind) ==
  CASE kind = "pub" -> Listed(OfNode("w"), demangle_ros_topic)
    [] kind = "sub" -> Listed(OfNode("r"), demangle_ros_topic)
    [] kind = "srv" -> Listed(OfNode("r"), demangle_request)
    [] kind = "cli" -> Listed(OfNode("r"), demangle_reply)

(***************************************************************************)
(* The specification.                                                      *)
(***************************************************************************)
WorldStep ==
  \/ \E x \in Remotes \cup RemoteEnds : Appear(x) \/ Vanish(x)
  \/ \E p \in Remotes : InfoArrives(p)
ContextStep == StartContext \/ StopContext \/ JoinThread
EntityStep(t) ==
  \/ \E e \in LocalEntities : CreateEntity(t, e) \/ DestroyEntity(t, e)
  \/ MakeEnd(t) \/ MakeFails(t) \/ AddGraph(t) \/ AddGraphFails(t)
  \/ DeleteEnd(t) \/ Deleted(t)
Next == WorldStep \/ DiscoveryStep \/ ContextStep \/ \E t \in Threads : EntityStep(t)

Spec == Init /\ [][Next]_vars
\* the discovery thread runs on
FairSpec == Spec /\ WF_vars(DiscoveryStep)

(***************************************************************************)
(* Properties.                                                             *)
(***************************************************************************)
\* every variable has its type, and a thread without a call has no job
TypeOK ==
  /\ life \in [Things -> {"none", "alive", "gone"}] /\ unread \subseteq Things
  /\ changes \in 0..MaxChanges /\ version \in [Remotes -> 0..MaxInfo]
  /\ received \in [Remotes -> 0..MaxInfo] /\ inbox \in [Remotes -> Seq(1..MaxInfo)]
  /\ cached \subseteq Things /\ known \in [Remotes -> 0..MaxInfo]
  /\ assoc \subseteq LocalEntities
  /\ self \in Selves \cup {NoOne} /\ thread_is_running \in BOOLEAN
  /\ thread \in {"none", "check", "wait", "handle", "done"}
  /\ xs \subseteq Readers /\ current \in Readers \cup {NoOne}
  /\ owned \subseteq LocalEntities
  /\ pc \in [Threads -> {"idle", "make", "undo"}]
  /\ job \in [Threads -> LocalEntities \cup {NoOne}]
  /\ \A t \in Threads : pc[t] = "idle" <=> job[t] = NoOne
  /\ left \subseteq Things

\* the context never announces an endpoint that does not exist (any more)
AssociatedExist == \A e \in assoc : Whole(e)

\* creation that fails half-way leaves nothing, in DDS or in the graph, and
\* what the application has is complete
WholeOrNothing ==
  \A e \in LocalEntities : ~Working(e) =>
    IF e \in owned THEN Whole(e) /\ e \in assoc
                   ELSE e \notin assoc /\ \A x \in EndsOf(e) : ~Alive(x)

\* the thread has nothing to do
AtRest == thread = "wait" /\ thread_is_running /\ \A r \in Readers : ~HasData(r)

\* then the cache holds what DDS has discovered, except for the traces of what
\* vanished between two lives of the context, or whose own message was
\* handled after its departure; and it has the last message of everyone
CacheIsWorld ==
  AtRest => /\ \A x \in Things \ left : x \in cached <=> Alive(x)
            /\ \A p \in Remotes : Alive(p) /\ received[p] # 0 => known[p] = received[p]

\* and the queries list what there is under the names the application gave it,
\* of each node what it has, and count and describe clients and services that
\* are complete: both are counted by their readers, which are made last and
\* deleted first (of those elsewhere DDS may know one half)
Present(kinds, name) ==
  {e \in Entities : KindOf[e] \in kinds /\ NameOf[e] = name /\ \E x \in EndsOf(e) : Alive(x)}
Complete(kind, name) == {e \in Present({kind}, name) : Whole(e)}
HalfKnown(name) == \E e \in RemoteEntities : NameOf[e] = name /\ ~Whole(e)
QueriesTellWhole ==
  AtRest /\ left \cap AllEnds = {} =>
    /\ \A n \in {NameOf[e] : e \in Entities} :
         /\ rmw_count_publishers(n) = Cardinality(Complete("pub", n))
         /\ rmw_count_subscribers(n) = Cardinality(Complete("sub", n))
         /\ ~HalfKnown(n) => /\ rmw_count_clients(n) = Cardinality(Complete("cli", n))
                             /\ rmw_count_services(n) = Cardinality(Complete("srv", n))
         /\ rmw_get_clients_info_by_service(n) = Complete("cli", n)
         /\ rmw_get_servers_info_by_service(n) = Complete("srv", n)
         /\ n \in rmw_get_topic_names <=> Present({"pub", "sub"}, n) # {}
         /\ n \in rmw_get_service_names <=> Present({"cli", "srv"}, n) # {}
    /\ \A kind \in {"pub", "sub", "cli", "srv"} :
         NamesOfNode(kind) = {NameOf[e] : e \in {f \in owned : KindOf[f] = kind}}

\* and it always comes to rest again, so that no difference lasts
ThreadRests == []<>(AtRest \/ ~thread_is_running)
=============================================================================
