---------------------------- MODULE GraphProofs ----------------------------
(***************************************************************************)
(* What is proved about Graph for every set of threads, participants and   *)
(* entities, however many things come and go.                              *)
(***************************************************************************)
EXTENDS Graph, NamesProofs, FiniteSetTheorems, FunctionTheorems, TLAPS

-----------------------------------------------------------------------------
(***************************************************************************)
(* The invariant.  The life of the context: its participant exists as long *)
(* as its thread does, and nobody works once the thread is told to stop.   *)
(***************************************************************************)
LifeOK ==
  /\ self = NoOne <=> thread = "none"
  /\ thread \in {"none", "done"} => ~thread_is_running
  /\ ~thread_is_running => owned = {} /\ \A t \in Threads : pc[t] = "idle"
  /\ self # NoOne => Alive(self) /\ self \in cached
  /\ \A me \in Selves : Alive(me) => me = self

\* one thread works at an entity, which nobody sees meanwhile; its writer is
\* made first and deleted last
OnlyWorker ==
  \A t, u \in Threads : job[t] = job[u] /\ job[t] # NoOne => t = u
Unseen == \A t \in Threads : pc[t] # "idle" => job[t] \notin owned \cup assoc
MakingOnly ==
  \A t \in Threads : pc[t] = "make" => \A x \in EndsOf(job[t]) : life[x] # "gone"
WriterFirst ==
  \A e \in LocalEntities : \A x, y \in EndsOf(e) :
    x.side = "r" /\ y.side = "w" /\ Alive(x) => Alive(y)

\* what the cache does not know of will be read, but for what is left
CacheFollows == \A x \in Things \ left : x \in unread \/ (x \in cached <=> Alive(x))
\* a message of one that is gone has yet to be followed by its departure
InboxFollows ==
  \A p \in Remotes : inbox[p] # <<>> /\ ~Alive(p) => p \in unread \cup left
\* the last message that came in is the last one in the inbox, or it is known
LastKnown ==
  \A p \in Remotes :
    /\ ~Alive(p) => received[p] = 0
    /\ received[p] # 0 =>
         IF inbox[p] = <<>> THEN known[p] = received[p]
                            ELSE inbox[p][Len(inbox[p])] = received[p]

WorkInv  == OnlyWorker /\ Unseen /\ MakingOnly /\ WholeOrNothing /\ WriterFirst
CacheInv == CacheFollows /\ InboxFollows /\ LastKnown
GraphInv == TypeOK /\ LifeOK /\ WorkInv /\ CacheInv
-----------------------------------------------------------------------------
(***************************************************************************)
(* Participants and endpoints.                                             *)
(***************************************************************************)
\* an endpoint is of one entity, which is here or elsewhere, and no participant
LEMMA EndsFacts ==
  /\ \A e \in Entities : \A x \in EndsOf(e) :
       x.of = e /\ x.side \in Sides(KindOf[e]) /\ x.side \in {"w", "r"} /\ x \in AllEnds
  /\ \A e \in Entities : \A x, y \in EndsOf(e) : x.side = y.side => x = y
  /\ \A e \in LocalEntities : e \in Entities /\ EndsOf(e) \subseteq LocalEnds
  /\ \A x \in LocalEnds : x.of \in LocalEntities /\ x \in EndsOf(x.of)
  /\ \A x \in RemoteEnds : x.of \in RemoteEntities /\ x \in EndsOf(x.of)
  /\ LocalEnds \cap RemoteEnds = {} /\ LocalEnds \cap Parts = {} /\ RemoteEnds \cap Parts = {}
  /\ LocalEnds \subseteq Things /\ RemoteEnds \subseteq Things /\ Parts \subseteq Things
  /\ AllEnds \subseteq Things /\ Remotes \subseteq Parts /\ Selves \subseteq Parts
<1>1. ASSUME NEW e \in Entities, NEW x \in EndsOf(e)
      PROVE  /\ x.of = e /\ x.side \in Sides(KindOf[e]) /\ x.side \in {"w", "r"}
             /\ x = [of |-> e, side |-> x.side]
  <2>1. PICK s \in Sides(KindOf[e]) : x = [of |-> e, side |-> s]
    BY <1>1 DEF EndsOf
  <2>2. s \in {"w", "r"}
    BY GraphAssumption DEF Sides
  <2> QED
    BY <2>1, <2>2
<1>2. \A e \in Entities : \A x \in EndsOf(e) : x \in AllEnds
  BY DEF AllEnds, LocalEnds, RemoteEnds, Entities
<1>3. \A e \in LocalEntities : e \in Entities /\ EndsOf(e) \subseteq LocalEnds
  BY DEF Entities, LocalEnds
<1>4. \A x \in LocalEnds : x.of \in LocalEntities /\ x \in EndsOf(x.of)
  BY <1>1 DEF LocalEnds, Entities
<1>5. \A x \in RemoteEnds : x.of \in RemoteEntities /\ x \in EndsOf(x.of)
  BY <1>1 DEF RemoteEnds, Entities
<1>6. LocalEnds \cap RemoteEnds = {}
  BY <1>4, <1>5, GraphAssumption
<1> QED
  BY <1>1, <1>2, <1>3, <1>4, <1>5, <1>6, ThingsAssumption DEF Things, AllEnds, Parts

\* the end to be made next
LEMMA NextEndIs ==
  ASSUME GraphInv, NEW t \in Threads, pc[t] = "make", ~Whole(job[t])
  PROVE  /\ job[t] \in LocalEntities /\ NextEnd(job[t]) \in EndsOf(job[t])
         /\ NextEnd(job[t]) \in LocalEnds /\ life[NextEnd(job[t])] = "none"
         /\ \A y \in EndsOf(job[t]) : life[y] = "none" => NextEnd(job[t]) = y \/ NextEnd(job[t]).side = "w"
<1>1. job[t] \in LocalEntities /\ EndsOf(job[t]) \subseteq LocalEnds /\ job[t] \in Entities
  BY EndsFacts DEF GraphInv, TypeOK
<1>2. \A x \in EndsOf(job[t]) : x \in Things /\ life[x] \in {"none", "alive"}
  BY <1>1, EndsFacts DEF GraphInv, WorkInv, TypeOK, MakingOnly
<1> DEFINE P(x) == life[x] = "none" /\ \A y \in EndsOf(job[t]) : life[y] = "none" => x = y \/ x.side = "w"
<1>3. \E x \in EndsOf(job[t]) : P(x)
  <2>1. PICK z \in EndsOf(job[t]) : life[z] = "none"
    BY <1>2 DEF Whole, Alive
  <2>2. CASE \E x \in EndsOf(job[t]) : life[x] = "none" /\ x.side = "w"
    BY <2>2
  <2>3. CASE ~\E x \in EndsOf(job[t]) : life[x] = "none" /\ x.side = "w"
    <3>1. \A y \in EndsOf(job[t]) : life[y] = "none" => y.side = "r"
      BY <1>1, <2>3, EndsFacts
    <3> QED
      BY <1>1, <2>1, <3>1, EndsFacts
  <2> QED
    BY <2>2, <2>3
<1>4. NextEnd(job[t]) \in EndsOf(job[t]) /\ P(NextEnd(job[t]))
  BY <1>3 DEF NextEnd
<1> QED
  BY <1>1, <1>4

-----------------------------------------------------------------------------
(***************************************************************************)
(* Type correctness.                                                       *)
(***************************************************************************)
\* the other participants
LEMMA TypeWorld ==
  ASSUME GraphInv, WorldStep
  PROVE  TypeOK'
<1>1. TypeOK
  BY DEF GraphInv
<1>2. ASSUME NEW x \in Remotes \cup RemoteEnds, Appear(x) \/ Vanish(x)
      PROVE  TypeOK'
  <2>1. x \in Things
    BY EndsFacts
  <2>2. changes' \in 0..MaxChanges
    BY <1>1, <1>2, GraphAssumption DEF TypeOK, Appear, Vanish
  <2>3. received' \in [Remotes -> 0..MaxInfo]
    <3>1. 0 \in 0..MaxInfo
      BY GraphAssumption
    <3>2. received' \in {received, [received EXCEPT ![x] = 0]}
      BY <1>2 DEF Appear, Vanish
    <3> QED
      BY <1>1, <3>1, <3>2 DEF TypeOK
  <2>4. /\ life' \in [Things -> {"none", "alive", "gone"}] /\ unread' \subseteq Things
        /\ left' \subseteq Things
    BY <1>1, <1>2, <2>1 DEF TypeOK, Appear, Vanish
  <2> QED
    BY <1>1, <1>2, <2>2, <2>3, <2>4 DEF TypeOK, Appear, Vanish, graph, disc, app
<1>3. ASSUME NEW p \in Remotes, InfoArrives(p)
      PROVE  TypeOK'
  <2>1. PICK v \in (received[p] + 1)..MaxInfo :
          /\ version' = [version EXCEPT ![p] = v] /\ received' = [received EXCEPT ![p] = v]
          /\ inbox' = [inbox EXCEPT ![p] = Append(inbox[p], v)]
    BY <1>3 DEF InfoArrives
  <2>2. v \in 1..MaxInfo /\ v \in 0..MaxInfo
    BY <1>1, <1>3, GraphAssumption DEF TypeOK
  <2>3. Append(inbox[p], v) \in Seq(1..MaxInfo)
    BY <1>1, <2>2, AppendProperties DEF TypeOK
  <2>4. inbox' \in [Remotes -> Seq(1..MaxInfo)]
    BY <1>1, <2>1, <2>3 DEF TypeOK
  <2>5. version' \in [Remotes -> 0..MaxInfo] /\ received' \in [Remotes -> 0..MaxInfo]
    BY <1>1, <2>1, <2>2 DEF TypeOK
  <2> QED
    BY <1>1, <1>3, <2>4, <2>5 DEF TypeOK, InfoArrives, graph, disc, app
<1> QED
  BY <1>2, <1>3 DEF WorldStep

\* the discovery thread
LEMMA TypeDiscovery ==
  ASSUME GraphInv, DiscoveryStep
  PROVE  TypeOK'
<1>1. TypeOK
  BY DEF GraphInv
<1>2. CASE CheckRunning \/ WakeUp
  BY <1>1, <1>2 DEF TypeOK, CheckRunning, WakeUp, Triggered, dds, graph, app
<1>3. CASE NextReader
  BY <1>1, <1>3 DEF TypeOK, NextReader, dds, graph, app
<1>4. ASSUME NEW p \in Remotes, HandleInfo(p)
      PROVE  TypeOK'
  <2>1. inbox[p] \in Seq(1..MaxInfo) /\ inbox[p] # <<>>
    BY <1>1, <1>4 DEF TypeOK, HandleInfo
  <2>2. Head(inbox[p]) \in 1..MaxInfo /\ Tail(inbox[p]) \in Seq(1..MaxInfo)
    BY <2>1, HeadTailProperties
  <2>3. Head(inbox[p]) \in 0..MaxInfo
    BY <2>2, GraphAssumption
  <2>4. inbox' = [inbox EXCEPT ![p] = Tail(inbox[p])]
    BY <1>4 DEF HandleInfo
  <2>5. inbox' \in [Remotes -> Seq(1..MaxInfo)] /\ known' \in [Remotes -> 0..MaxInfo]
    BY <1>1, <1>4, <2>2, <2>3, <2>4 DEF TypeOK, HandleInfo
  <2>6. cached' \subseteq Things
    BY <1>1, <1>4, EndsFacts DEF TypeOK, HandleInfo
  <2> QED
    BY <1>1, <1>4, <2>5, <2>6 DEF TypeOK, HandleInfo, disc, app
<1>5. ASSUME NEW x \in unread \cap Parts, HandleParticipant(x)
      PROVE  TypeOK'
  <2>1. known' \in [Remotes -> 0..MaxInfo]
    <3>1. 0 \in 0..MaxInfo
      BY GraphAssumption
    <3>2. known' \in {known, [known EXCEPT ![x] = 0]}
      BY <1>5 DEF HandleParticipant
    <3> QED
      BY <1>1, <3>1, <3>2 DEF TypeOK
  <2>2. cached' \subseteq Things /\ left' \subseteq Things /\ unread' \subseteq Things
    BY <1>1, <1>5 DEF TypeOK, HandleParticipant
  <2> QED
    BY <1>1, <1>5, <2>1, <2>2 DEF TypeOK, HandleParticipant, disc, app
<1>6. ASSUME NEW x \in unread \cap AllEnds, HandleEndpoint(x)
      PROVE  TypeOK'
  <2>1. cached' \subseteq Things /\ left' \subseteq Things /\ unread' \subseteq Things
    BY <1>1, <1>6 DEF TypeOK, HandleEndpoint
  <2> QED
    BY <1>1, <1>6, <2>1 DEF TypeOK, HandleEndpoint, disc, app
<1> QED
  BY <1>2, <1>3, <1>4, <1>5, <1>6 DEF DiscoveryStep

\* the context
LEMMA TypeContext ==
  ASSUME GraphInv, ContextStep
  PROVE  TypeOK'
<1>1. TypeOK
  BY DEF GraphInv
<1>2. CASE StartContext
  <2>1. PICK me \in Selves : /\ self' = me /\ life' = [life EXCEPT ![me] = "alive"]
                             /\ unread' = unread \cup {me} /\ cached' = cached \cup {me}
    BY <1>2 DEF StartContext
  <2>2. /\ life' \in [Things -> {"none", "alive", "gone"}] /\ unread' \subseteq Things
        /\ cached' \subseteq Things /\ self' \in Selves
    BY <1>1, <2>1, EndsFacts DEF TypeOK
  <2> QED
    BY <1>1, <1>2, <2>2 DEF TypeOK, StartContext, app
<1>3. CASE StopContext
  BY <1>1, <1>3 DEF TypeOK, StopContext, dds, graph, app
<1>4. CASE JoinThread
  <2>1. life' \in [Things -> {"none", "alive", "gone"}]
    BY <1>1, <1>4 DEF TypeOK, JoinThread, Alive
  <2>2. received' \in [Remotes -> 0..MaxInfo] /\ inbox' \in [Remotes -> Seq(1..MaxInfo)]
    BY <1>4, GraphAssumption, EmptySeq DEF JoinThread
  <2> QED
    BY <1>1, <1>4, <2>1, <2>2 DEF TypeOK, JoinThread, graph, app
<1> QED
  BY <1>2, <1>3, <1>4 DEF ContextStep

\* the application
LEMMA TypeEntity ==
  ASSUME GraphInv, NEW t \in Threads, EntityStep(t)
  PROVE  TypeOK'
<1>1. TypeOK
  BY DEF GraphInv
<1>2. ASSUME NEW e \in LocalEntities, CreateEntity(t, e) \/ DestroyEntity(t, e)
      PROVE  TypeOK'
  <2>1. e # NoOne /\ e \in Entities
    BY GraphAssumption DEF Entities
  <2> QED
    BY <1>1, <1>2, <2>1, ZenonT(40) DEF TypeOK, CreateEntity, DestroyEntity, Take, Goto, RemoveFromGraph,
                            dds, graph, disc
<1>3. CASE MakeEnd(t)
  BY <1>1, <1>3, NextEndIs, EndsFacts DEF TypeOK, MakeEnd, graph, disc, app
<1>4. CASE MakeFails(t) \/ AddGraphFails(t)
  BY <1>1, <1>4 DEF TypeOK, MakeFails, AddGraphFails, CleanUp, Goto, dds, graph, disc
<1>5. CASE AddGraph(t)
  BY <1>1, <1>5 DEF TypeOK, AddGraph, Leave, Goto, dds, disc
<1>6. CASE DeleteEnd(t)
  <2>1. PICK x \in EndsOf(job[t]) :
          life' = [life EXCEPT ![x] = "gone"] /\ unread' = unread \cup {x} /\ pc[t] = "undo"
    BY <1>6 DEF DeleteEnd, Deletable
  <2>2. x \in Things
    BY <1>1, <2>1, EndsFacts DEF TypeOK
  <2> QED
    BY <1>1, <1>6, <2>1, <2>2 DEF TypeOK, DeleteEnd, graph, disc, app
<1>7. CASE Deleted(t)
  BY <1>1, <1>7 DEF TypeOK, Deleted, Leave, Goto, dds, graph, disc
<1> QED
  BY <1>2, <1>3, <1>4, <1>5, <1>6, <1>7 DEF EntityStep
\* taking the first of several messages leaves the last
LEMMA LastOfTail ==
  ASSUME NEW S, NEW h \in Seq(S), h # <<>>
  PROVE  /\ Tail(h) = <<>> => Head(h) = h[Len(h)]
         /\ Tail(h) # <<>> => Tail(h)[Len(Tail(h))] = h[Len(h)]
<1>1. Len(Tail(h)) = Len(h) - 1 /\ Tail(h) \in Seq(S)
  BY HeadTailProperties
<1>2. \A i \in 1..Len(Tail(h)) : Tail(h)[i] = h[i + 1]
  BY HeadTailProperties
<1>3. Len(h) \in Nat /\ Len(Tail(h)) \in Nat /\ Head(h) = h[1]
  BY <1>1
<1>4. CASE Tail(h) = <<>>
  <2>1. Len(Tail(h)) = 0
    BY <1>1, <1>4, EmptySeq
  <2>2. ASSUME NEW n \in Nat, 0 = n - 1 PROVE n = 1
    BY <2>2
  <2>3. Len(h) = 1
    BY <1>1, <1>3, <2>1, <2>2
  <2> QED
    BY <1>3, <1>4, <2>3
<1>5. CASE Tail(h) # <<>>
  <2>1. Len(Tail(h)) # 0
    BY <1>1, <1>5, EmptySeq
  <2>2. Len(Tail(h)) \in 1..Len(Tail(h)) /\ Len(Tail(h)) + 1 = Len(h)
    BY <1>1, <1>3, <2>1
  <2> QED
    BY <1>2, <1>5, <2>2
<1> QED
  BY <1>4, <1>5

-----------------------------------------------------------------------------
(***************************************************************************)
(* What a step leaves alone.                                               *)
(***************************************************************************)
\* the application's entities are as they were when nobody worked at one
LEMMA WorkKept ==
  ASSUME GraphInv, UNCHANGED <<owned, assoc, pc, job>>, \A x \in LocalEnds : life'[x] = life[x]
  PROVE  WorkInv'
<1>1. OnlyWorker /\ Unseen /\ MakingOnly /\ WholeOrNothing /\ WriterFirst
  BY DEF GraphInv, WorkInv
<1>2. OnlyWorker' /\ Unseen'
  BY <1>1 DEF OnlyWorker, Unseen
<1>3. \A e \in LocalEntities : \A x \in EndsOf(e) : life'[x] = life[x]
  BY EndsFacts
<1>4. \A t \in Threads : pc[t] # "idle" => job[t] \in LocalEntities
  BY DEF GraphInv, TypeOK
<1>5. MakingOnly'
  BY <1>1, <1>3, <1>4 DEF MakingOnly
<1>6. WholeOrNothing' /\ WriterFirst'
  BY <1>1, <1>3 DEF WholeOrNothing, WriterFirst, Working, Whole, Alive
<1> QED
  BY <1>2, <1>5, <1>6 DEF WorkInv

\* the cache follows when the instance of what comes or goes is to be read
LEMMA CacheKept ==
  ASSUME GraphInv, UNCHANGED <<cached, inbox>>, NEW x \in Things, NEW v,
         life' = [life EXCEPT ![x] = v], unread' = unread \cup {x}, left' \in {left, left \ {x}}
  PROVE  CacheFollows' /\ InboxFollows'
<1>1. CacheFollows /\ InboxFollows /\ life \in [Things -> {"none", "alive", "gone"}]
  BY DEF GraphInv, CacheInv, TypeOK
<1>2. \A y \in Things : y # x => life'[y] = life[y]
  BY <1>1
<1>3. CacheFollows'
  BY <1>1, <1>2 DEF CacheFollows, Alive
<1>4. InboxFollows'
  BY <1>1, <1>2, EndsFacts DEF InboxFollows, Alive
<1> QED
  BY <1>3, <1>4

\* and when nothing comes or goes, and no reader is emptied
LEMMA CacheSame == GraphInv /\ UNCHANGED <<life, unread, received, inbox, cached, known, left>> => CacheInv'
<1> SUFFICES ASSUME GraphInv, UNCHANGED <<life, unread, received, inbox, cached, known, left>>
             PROVE  CacheInv'
  OBVIOUS
<1>1. CacheFollows /\ InboxFollows /\ LastKnown
  BY DEF GraphInv, CacheInv
<1>2. CacheFollows'
  BY <1>1 DEF CacheFollows, Alive
<1>3. InboxFollows'
  BY <1>1 DEF InboxFollows, Alive
<1>4. LastKnown'
  BY <1>1 DEF LastKnown, Alive
<1> QED
  BY <1>2, <1>3, <1>4 DEF CacheInv

-----------------------------------------------------------------------------
(***************************************************************************)
(* The steps.                                                              *)
(***************************************************************************)
\* what happens elsewhere is to be read, or comes in
LEMMA InvWorld ==
  ASSUME GraphInv, WorldStep
  PROVE  GraphInv'
<1>1. TypeOK /\ TypeOK' /\ LifeOK /\ LastKnown /\ InboxFollows /\ CacheFollows
  BY TypeWorld DEF GraphInv, CacheInv
<1>2. ASSUME NEW x \in Remotes \cup RemoteEnds, Appear(x) \/ Vanish(x)
      PROVE  GraphInv'
  <2>1. x \in Things /\ x \notin LocalEnds /\ x \notin Selves
    BY EndsFacts, GraphAssumption
  <2>2. PICK v : /\ life' = [life EXCEPT ![x] = v] /\ v \in {"alive", "none"}
                 /\ v = "alive" => life[x] = "none" /\ received' = received
                 /\ v = "none" => received' = IF x \in Remotes THEN [received EXCEPT ![x] = 0]
                                                               ELSE received
    BY <1>2 DEF Appear, Vanish
  <2>3. /\ \A y \in Things : y # x => life'[y] = life[y]
        /\ life'[x] = v
    BY <1>1, <2>1, <2>2 DEF TypeOK
  <2>4. WorkInv'
    <3>1. \A y \in LocalEnds : life'[y] = life[y]
      BY <2>1, <2>3, EndsFacts
    <3> QED
      BY <1>2, <3>1, WorkKept DEF Appear, Vanish, graph, app
  <2>5. LifeOK'
    <3>1. \A me \in Selves : life'[me] = life[me]
      BY <2>1, <2>3, EndsFacts
    <3>2. self # NoOne => self \in Selves
      BY <1>1 DEF TypeOK
    <3> QED
      BY <1>1, <1>2, <3>1, <3>2 DEF LifeOK, Alive, Appear, Vanish, graph, disc, app
  <2>6. CacheFollows' /\ InboxFollows'
    BY <1>2, <2>1, <2>2, CacheKept DEF Appear, Vanish, graph
  <2>7. LastKnown'
    <3> SUFFICES ASSUME NEW p \in Remotes
                 PROVE  /\ ~Alive(p)' => received'[p] = 0
                        /\ received'[p] # 0 =>
                             IF inbox[p] = <<>> THEN known[p] = received'[p]
                                                ELSE inbox[p][Len(inbox[p])] = received'[p]
      BY <1>2 DEF LastKnown, Appear, Vanish, graph
    <3>1. p \in Things /\ received'[p] \in {received[p], 0}
      BY <1>1, <2>2, EndsFacts DEF TypeOK
    <3>2. ~Alive(p)' => received'[p] = 0
      BY <1>1, <2>2, <2>3, <3>1 DEF LastKnown, Alive, TypeOK
    <3> QED
      BY <1>1, <3>1, <3>2 DEF LastKnown
  <2> QED
    BY <1>1, <2>4, <2>5, <2>6, <2>7 DEF GraphInv, CacheInv
<1>3. ASSUME NEW p \in Remotes, InfoArrives(p)
      PROVE  GraphInv'
  <2>1. PICK v \in (received[p] + 1)..MaxInfo :
          /\ received' = [received EXCEPT ![p] = v]
          /\ inbox' = [inbox EXCEPT ![p] = Append(inbox[p], v)]
    BY <1>3 DEF InfoArrives
  <2>2. v \in 1..MaxInfo
    BY <1>1, GraphAssumption DEF TypeOK
  <2>3. /\ Append(inbox[p], v) # <<>>
        /\ Append(inbox[p], v)[Len(Append(inbox[p], v))] = v
    <3>1. inbox[p] \in Seq(1..MaxInfo)
      BY <1>1 DEF TypeOK
    <3> QED
      BY <2>2, <3>1, AppendProperties
  <2>4. /\ \A q \in Remotes : q # p => received'[q] = received[q] /\ inbox'[q] = inbox[q]
        /\ received'[p] = v /\ inbox'[p] = Append(inbox[p], v)
    BY <1>1, <2>1 DEF TypeOK
  <2>5. WorkInv' /\ LifeOK' /\ CacheFollows'
    BY <1>1, <1>3, WorkKept DEF InfoArrives, LifeOK, CacheFollows, Alive, graph, disc, app
  <2>6. InboxFollows'
    BY <1>1, <1>3, <2>4 DEF InfoArrives, InboxFollows, Alive
  <2>7. LastKnown'
    BY <1>1, <1>3, <2>3, <2>4 DEF InfoArrives, LastKnown, Alive, graph
  <2> QED
    BY <1>1, <2>5, <2>6, <2>7 DEF GraphInv, CacheInv
<1> QED
  BY <1>2, <1>3 DEF WorldStep

\* the discovery thread does to the cache what the world is now, not what it was
LEMMA InvDiscovery ==
  ASSUME GraphInv, DiscoveryStep
  PROVE  GraphInv'
<1>1. TypeOK /\ TypeOK' /\ LifeOK /\ LastKnown /\ InboxFollows /\ CacheFollows
  BY TypeDiscovery DEF GraphInv, CacheInv
<1>2. UNCHANGED <<life, received, assoc, self, owned, pc, job, thread_is_running>>
  BY DEF DiscoveryStep, CheckRunning, WakeUp, NextReader, HandleInfo, HandleParticipant,
         HandleEndpoint, dds, graph, disc, app
<1>3. WorkInv'
  BY <1>2, WorkKept
<1>4. CASE CheckRunning \/ WakeUp \/ NextReader
  <2>1. LifeOK'
    BY <1>1, <1>2, <1>4 DEF CheckRunning, WakeUp, NextReader, LifeOK, Alive, graph
  <2>2. CacheInv'
    BY <1>4, CacheSame DEF CheckRunning, WakeUp, NextReader, dds, graph
  <2> QED
    BY <1>1, <1>3, <2>1, <2>2 DEF GraphInv
<1>5. ASSUME NEW p \in Remotes, HandleInfo(p)
      PROVE  GraphInv'
  <2>1. /\ inbox[p] # <<>> /\ inbox' = [inbox EXCEPT ![p] = Tail(inbox[p])]
        /\ known' = [known EXCEPT ![p] = Head(inbox[p])]
        /\ cached' = cached \cup {p} /\ UNCHANGED <<unread, left, thread>>
    BY <1>5 DEF HandleInfo, disc
  <2>2. /\ inbox[p] \in Seq(1..MaxInfo)
        /\ Tail(inbox[p]) = <<>> => Head(inbox[p]) = inbox[p][Len(inbox[p])]
        /\ Tail(inbox[p]) # <<>> =>
             Tail(inbox[p])[Len(Tail(inbox[p]))] = inbox[p][Len(inbox[p])]
    <3>1. inbox[p] \in Seq(1..MaxInfo)
      BY <1>1 DEF TypeOK
    <3> QED
      BY <2>1, <3>1, LastOfTail
  <2>3. /\ \A q \in Remotes : q # p => inbox'[q] = inbox[q] /\ known'[q] = known[q]
        /\ inbox'[p] = Tail(inbox[p]) /\ known'[p] = Head(inbox[p])
    BY <1>1, <2>1 DEF TypeOK
  <2>4. LifeOK'
    BY <1>1, <1>2, <2>1 DEF LifeOK, Alive
  <2>5. CacheFollows'
    BY <1>1, <1>2, <2>1 DEF CacheFollows, InboxFollows, Alive
  <2>6. InboxFollows'
    BY <1>1, <1>2, <2>1, <2>3 DEF InboxFollows, Alive
  <2>7. LastKnown'
    BY <1>1, <1>2, <2>1, <2>2, <2>3 DEF LastKnown, Alive
  <2> QED
    BY <1>1, <1>3, <2>4, <2>5, <2>6, <2>7 DEF GraphInv, CacheInv
<1>6. ASSUME NEW x \in unread \cap Parts, HandleParticipant(x)
      PROVE  GraphInv'
  <2>1. /\ unread' = unread \ {x} /\ UNCHANGED <<inbox, thread>>
        /\ x = self => UNCHANGED <<cached, known, left>>
        /\ x # self /\ ~Alive(x) =>
             /\ cached' = cached \ {x} /\ known' = [known EXCEPT ![x] = 0]
             /\ left' = IF inbox[x] # <<>> THEN left \cup {x} ELSE left \ {x}
        /\ x # self /\ Alive(x) => cached' = cached \cup {x} /\ UNCHANGED <<known, left>>
    BY <1>6 DEF HandleParticipant, AliveNow, disc
  <2>2. LifeOK'
    BY <1>1, <1>2, <2>1 DEF LifeOK, Alive
  <2>3. CacheFollows'
    BY <1>1, <1>2, <2>1, GraphAssumption DEF CacheFollows, LifeOK, Alive, Parts
  <2>4. InboxFollows'
    BY <1>1, <1>2, <2>1, GraphAssumption DEF InboxFollows, LifeOK, Alive, Parts
  <2>5. LastKnown'
    <3>1. \A q \in Remotes : q # x \/ Alive(q) => known'[q] = known[q]
      BY <1>1, <2>1 DEF TypeOK
    <3> QED
      BY <1>1, <1>2, <2>1, <3>1 DEF LastKnown, Alive
  <2> QED
    BY <1>1, <1>3, <2>2, <2>3, <2>4, <2>5 DEF GraphInv, CacheInv
<1>7. ASSUME NEW x \in unread \cap AllEnds, HandleEndpoint(x)
      PROVE  GraphInv'
  <2>1. /\ unread' = unread \ {x} /\ UNCHANGED <<inbox, known, thread>>
        /\ Alive(x) => cached' = cached \cup {x} /\ left' = left
        /\ ~Alive(x) => cached' = cached \ {x} /\ left' = left \ {x}
        /\ x \notin Parts
    BY <1>7, ThingsAssumption DEF HandleEndpoint, AliveNow, disc
  <2>2. LifeOK'
    BY <1>1, <1>2, <2>1, EndsFacts DEF LifeOK, Alive, TypeOK
  <2>3. CacheFollows'
    BY <1>1, <1>2, <2>1 DEF CacheFollows, Alive
  <2>4. InboxFollows' /\ LastKnown'
    BY <1>1, <1>2, <2>1, EndsFacts DEF InboxFollows, LastKnown, Alive
  <2> QED
    BY <1>1, <1>3, <2>2, <2>3, <2>4 DEF GraphInv, CacheInv
<1> QED
  BY <1>4, <1>5, <1>6, <1>7 DEF DiscoveryStep

\* the context begins with its own participant in the cache, and ends when all
\* the entities are gone; what is cached then is left
LEMMA InvContext ==
  ASSUME GraphInv, ContextStep
  PROVE  GraphInv'
<1>1. TypeOK /\ TypeOK' /\ LifeOK /\ LastKnown /\ InboxFollows /\ CacheFollows
  BY TypeContext DEF GraphInv, CacheInv
<1>2. CASE StartContext
  <2>1. PICK me \in Selves : /\ life[me] = "none" /\ self' = me /\ life' = [life EXCEPT ![me] = "alive"]
                             /\ unread' = unread \cup {me} /\ cached' = cached \cup {me}
    BY <1>2 DEF StartContext
  <2>2. /\ me \in Things /\ me \notin LocalEnds /\ me \notin Remotes /\ me # NoOne
        /\ self = NoOne /\ thread_is_running' = TRUE /\ thread' = "check"
        /\ UNCHANGED <<received, inbox, known, assoc, app, left>>
    BY <1>2, EndsFacts, GraphAssumption DEF StartContext, Parts
  <2>3. life'[me] = "alive" /\ \A y \in Things : y # me => life'[y] = life[y]
    BY <1>1, <2>1, <2>2 DEF TypeOK
  <2>4. WorkInv'
    <3>1. \A y \in LocalEnds : life'[y] = life[y]
      BY <2>2, <2>3, EndsFacts
    <3> QED
      BY <2>2, <3>1, WorkKept DEF app
  <2>5. LifeOK'
    <3>1. \A p \in Selves : Alive(p)' => p = me
      BY <1>1, <2>2, <2>3, EndsFacts, GraphAssumption DEF LifeOK, Alive, Parts
    <3> QED
      BY <2>1, <2>2, <2>3, <3>1 DEF LifeOK, Alive
  <2>6. CacheFollows'
    BY <1>1, <2>1, <2>2, <2>3 DEF CacheFollows, Alive
  <2>7. InboxFollows' /\ LastKnown'
    BY <1>1, <2>1, <2>2, <2>3, EndsFacts DEF InboxFollows, LastKnown, Alive
  <2> QED
    BY <1>1, <2>4, <2>5, <2>6, <2>7 DEF GraphInv, CacheInv
<1>3. CASE StopContext
  <2>1. WorkInv' /\ CacheInv'
    BY <1>3, WorkKept, CacheSame DEF StopContext, dds, graph, app
  <2>2. LifeOK'
    BY <1>1, <1>3 DEF StopContext, LifeOK, Alive, dds, graph, app
  <2> QED
    BY <1>1, <2>1, <2>2 DEF GraphInv
<1>4. CASE JoinThread
  <2>1. /\ thread = "done" /\ thread' = "none" /\ self' = NoOne
        /\ life' = [x \in Things |-> IF x = self THEN "gone" ELSE IF Alive(x) THEN "none" ELSE life[x]]
        /\ unread' = {} /\ received' = [p \in Remotes |-> 0] /\ inbox' = [p \in Remotes |-> <<>>]
        /\ left' = left \cup cached /\ UNCHANGED <<cached, known, assoc, thread_is_running, app>>
    BY <1>4 DEF JoinThread, graph
  <2>2. /\ self \in Selves /\ ~thread_is_running /\ owned = {}
        /\ \A t \in Threads : pc[t] = "idle" /\ job[t] = NoOne
    BY <1>1, <2>1 DEF LifeOK, TypeOK
  <2>3. \A x \in Things : ~Alive(x)'
    BY <2>1 DEF Alive
  <2>4. WorkInv'
    <3>1. \A e \in LocalEntities : \A x \in EndsOf(e) : ~Alive(x)
      BY <2>2, GraphAssumption DEF GraphInv, WorkInv, WholeOrNothing, Working, Entities
    <3>2. \A x \in LocalEnds : life'[x] = life[x]
      BY <2>1, <2>2, <3>1, EndsFacts
    <3> QED
      BY <2>1, <3>2, WorkKept DEF app
  <2>5. LifeOK'
    BY <2>1, <2>2, <2>3, EndsFacts DEF LifeOK, app
  <2>6. CacheFollows'
    BY <1>1, <2>1, <2>3 DEF CacheFollows
  <2>7. InboxFollows' /\ LastKnown'
    BY <2>1 DEF InboxFollows, LastKnown
  <2> QED
    BY <1>1, <2>4, <2>5, <2>6, <2>7 DEF GraphInv, CacheInv
<1> QED
  BY <1>2, <1>3, <1>4 DEF ContextStep
\* a thread at work with e: nobody else is, and the rest is as it was
LEMMA OthersWork ==
  ASSUME GraphInv, NEW t \in Threads, pc[t] # "idle"
  PROVE  /\ job[t] \in LocalEntities /\ Working(job[t])
         /\ \A u \in Threads \ {t} : job[u] # job[t]
         /\ job[t] \notin owned /\ job[t] \notin assoc
BY DEF GraphInv, TypeOK, WorkInv, OnlyWorker, Unseen, Working

\* what threads do to the entity they work at
LEMMA InvEntity ==
  ASSUME GraphInv, NEW t \in Threads, EntityStep(t)
  PROVE  GraphInv'
<1>1. TypeOK /\ TypeOK' /\ LifeOK /\ LastKnown /\ InboxFollows /\ CacheFollows
  BY TypeEntity DEF GraphInv, CacheInv
<1>2. OnlyWorker /\ Unseen /\ MakingOnly /\ WholeOrNothing /\ WriterFirst
  BY DEF GraphInv, WorkInv
<1>3. NoOne \notin LocalEntities
  BY GraphAssumption DEF Entities
<1>4. ASSUME NEW e \in LocalEntities, CreateEntity(t, e) \/ DestroyEntity(t, e)
      PROVE  GraphInv'
  <2>1. /\ UNCHANGED <<dds, cached, known, self, disc, left>>
        /\ pc' = [pc EXCEPT ![t] = pc'[t]] /\ job' = [job EXCEPT ![t] = e] /\ pc[t] = "idle" /\ ~Working(e)
        /\ \/ pc'[t] = "make" /\ UNCHANGED <<owned, assoc>> /\ e \notin owned /\ thread_is_running
              /\ \A x \in EndsOf(e) : life[x] = "none"
           \/ pc'[t] = "undo" /\ owned' = owned \ {e} /\ assoc' = assoc \ {e} /\ e \in owned
    BY <1>1, <1>4 DEF CreateEntity, DestroyEntity, Take, Goto, RemoveFromGraph, graph, TypeOK
  <2>2. /\ \A u \in Threads \ {t} : job'[u] = job[u] /\ pc'[u] = pc[u] /\ job[u] # e
        /\ job'[t] = e /\ job[t] = NoOne
    BY <1>1, <2>1 DEF TypeOK, Working
  <2>3. OnlyWorker'
    BY <1>2, <2>2 DEF OnlyWorker
  <2>4. Unseen'
    <3>1. e \notin owned' \cup assoc'
      BY <1>2, <2>1 DEF WholeOrNothing
    <3> QED
      BY <1>2, <2>1, <2>2, <3>1 DEF Unseen
  <2>5. MakingOnly'
    BY <1>2, <2>1, <2>2 DEF MakingOnly, dds
  <2>6. WholeOrNothing'
    <3>1. \A f \in LocalEntities : ~Working(f)' => f # e /\ ~Working(f)
      BY <1>3, <2>2 DEF Working
    <3> QED
      BY <1>2, <2>1, <3>1 DEF WholeOrNothing, Whole, Alive, dds
  <2>7. WriterFirst'
    BY <1>2, <2>1 DEF WriterFirst, Alive, dds
  <2>8. LifeOK'
    BY <1>1, <2>1 DEF LifeOK, Alive, dds, disc
  <2>9. CacheInv'
    BY <2>1, CacheSame DEF dds
  <2> QED
    BY <1>1, <2>3, <2>4, <2>5, <2>6, <2>7, <2>8, <2>9 DEF GraphInv, WorkInv
<1>5. ASSUME NEW x \in EndsOf(job[t]), pc[t] # "idle",
             \/ /\ life' = [life EXCEPT ![x] = "alive"] /\ pc[t] = "make" /\ life[x] = "none"
                /\ \A y \in EndsOf(job[t]) : life[y] = "none" => x = y \/ x.side = "w"
             \/ /\ life' = [life EXCEPT ![x] = "gone"] /\ pc[t] = "undo" /\ Alive(x)
                /\ \A y \in EndsOf(job[t]) : Alive(y) => x = y \/ x.side = "r",
             unread' = unread \cup {x},
             UNCHANGED <<changes, version, received, inbox, graph, self, disc, app, left>>
      PROVE  GraphInv'
  <2>1. /\ x \in Things /\ x.of = job[t] /\ x \notin Parts /\ job[t] \in LocalEntities /\ job[t] \in Entities
        /\ \A u \in Threads \ {t} : job[u] # job[t]
    BY <1>5, OthersWork, EndsFacts
  <2>2. /\ \A y \in Things : y # x => life'[y] = life[y]
        /\ life'[x] \in {"alive", "gone"} /\ (pc[t] = "make" => life'[x] = "alive")
    BY <1>1, <1>5, <2>1 DEF TypeOK
  <2>3. \A e \in LocalEntities : e # job[t] => \A y \in EndsOf(e) : life'[y] = life[y]
    BY <2>1, <2>2, EndsFacts
  <2>4. OnlyWorker' /\ Unseen'
    BY <1>2, <1>5 DEF OnlyWorker, Unseen, app, graph
  <2>5. MakingOnly'
    <3> SUFFICES ASSUME NEW u \in Threads, pc[u] = "make", NEW y \in EndsOf(job[u])
                 PROVE  life'[y] # "gone"
      BY <1>5 DEF MakingOnly, app
    <3>1. job[u] \in LocalEntities /\ y \in Things /\ life[y] # "gone"
      BY <1>1, <1>2, EndsFacts DEF MakingOnly, TypeOK
    <3>2. u # t => life'[y] = life[y]
      BY <2>1, <2>3, <3>1
    <3> QED
      BY <2>2, <3>1, <3>2
  <2>6. WholeOrNothing'
    <3>1. \A e \in LocalEntities : (Working(e)' <=> Working(e)) /\ (~Working(e) => e # job[t])
      BY <1>5, OthersWork DEF Working, app
    <3> QED
      BY <1>2, <1>5, <2>3, <3>1 DEF WholeOrNothing, Whole, Alive, app, graph
  <2>7. WriterFirst'
    <3>1. ASSUME NEW y \in EndsOf(job[t]), NEW z \in EndsOf(job[t]), y.side = "r", z.side = "w", life'[y] = "alive"
          PROVE  life'[z] = "alive"
      <4>1. y \in Things /\ z \in Things /\ y # z
        BY <2>1, <3>1, EndsFacts
      <4>2. CASE life' = [life EXCEPT ![x] = "alive"] /\ pc[t] = "make" /\ life[x] = "none"
                 /\ \A w \in EndsOf(job[t]) : life[w] = "none" => x = w \/ x.side = "w"
        <5>1. life[z] \in {"none", "alive"}
          BY <1>1, <1>2, <4>1, <4>2 DEF MakingOnly, TypeOK
        <5>2. CASE x = z
          BY <2>2, <4>2, <5>2
        <5>3. CASE x = y
          <6>1. life[z] # "none"
            BY <3>1, <4>1, <4>2, <5>3
          <6> QED
            BY <2>2, <4>1, <5>1, <5>3, <6>1
        <5>4. CASE x # y /\ x # z
          BY <1>2, <2>1, <2>2, <3>1, <4>1, <5>4 DEF WriterFirst, Alive
        <5> QED
          BY <5>2, <5>3, <5>4
      <4>3. CASE life' = [life EXCEPT ![x] = "gone"] /\ Alive(x)
                 /\ \A w \in EndsOf(job[t]) : Alive(w) => x = w \/ x.side = "r"
        <5>1. x # y /\ Alive(y)
          BY <1>1, <2>1, <2>2, <3>1, <4>1, <4>3 DEF Alive, TypeOK
        <5>2. x.side = "r" /\ x # z
          BY <3>1, <4>3, <5>1
        <5> QED
          BY <1>2, <2>1, <2>2, <3>1, <4>1, <5>1, <5>2 DEF WriterFirst, Alive
      <4> QED
        BY <1>5, <4>2, <4>3
    <3> QED
      BY <1>2, <2>3, <3>1 DEF WriterFirst, Alive
  <2>8. LifeOK'
    <3>1. \A me \in Selves : life'[me] = life[me]
      BY <2>1, <2>2, EndsFacts
    <3>2. self # NoOne => self \in Selves
      BY <1>1 DEF TypeOK
    <3> QED
      BY <1>1, <1>5, <3>1, <3>2 DEF LifeOK, Alive, graph, disc, app
  <2>9. CacheFollows' /\ InboxFollows'
    <3>1. \E v : life' = [life EXCEPT ![x] = v]
      BY <1>5
    <3> QED
      BY <1>5, <2>1, <3>1, CacheKept DEF graph
  <2>10. LastKnown'
    BY <1>1, <1>5, <2>1, <2>2, EndsFacts DEF LastKnown, Alive, graph
  <2> QED
    BY <1>1, <2>4, <2>5, <2>6, <2>7, <2>8, <2>9, <2>10
       DEF GraphInv, WorkInv, CacheInv
<1>6. CASE MakeEnd(t)
  BY <1>5, <1>6, NextEndIs DEF MakeEnd
<1>7. CASE DeleteEnd(t)
  BY <1>5, <1>7 DEF DeleteEnd, Deletable
<1>8. CASE MakeFails(t) \/ AddGraphFails(t)
  <2>1. /\ UNCHANGED <<dds, graph, self, disc, owned, left, job>>
        /\ pc[t] = "make" /\ pc' = [pc EXCEPT ![t] = "undo"]
    BY <1>8 DEF MakeFails, AddGraphFails, CleanUp, Goto
  <2>2. pc'[t] = "undo" /\ \A u \in Threads \ {t} : pc'[u] = pc[u]
    BY <1>1, <2>1 DEF TypeOK
  <2>3. OnlyWorker' /\ Unseen' /\ MakingOnly' /\ WholeOrNothing' /\ WriterFirst'
    BY <1>2, <2>1, <2>2 DEF OnlyWorker, Unseen, MakingOnly, WholeOrNothing, WriterFirst, Working,
         Whole, Alive, dds, graph
  <2>4. LifeOK'
    BY <1>1, <2>1, <2>2 DEF LifeOK, Alive, dds, graph, disc
  <2>5. CacheInv'
    BY <2>1, CacheSame DEF dds, graph
  <2> QED
    BY <1>1, <2>3, <2>4, <2>5 DEF GraphInv, WorkInv
<1>9. CASE AddGraph(t) \/ Deleted(t)
  <2>1. /\ UNCHANGED <<dds, cached, known, self, disc, left>>
        /\ pc[t] # "idle" /\ pc' = [pc EXCEPT ![t] = "idle"] /\ job' = [job EXCEPT ![t] = NoOne]
        /\ \/ owned' = owned \cup {job[t]} /\ assoc' = assoc \cup {job[t]} /\ pc[t] = "make" /\ Whole(job[t])
           \/ UNCHANGED <<owned, assoc>> /\ Deletable(job[t]) = {}
    BY <1>9 DEF AddGraph, Deleted, Leave, Goto, graph
  <2>2. /\ \A u \in Threads \ {t} : job'[u] = job[u] /\ pc'[u] = pc[u] /\ job[u] # job[t]
        /\ job'[t] = NoOne /\ pc'[t] = "idle" /\ job[t] \in LocalEntities /\ job[t] \notin owned \cup assoc
    BY <1>1, <2>1, OthersWork DEF TypeOK
  <2>3. OnlyWorker'
    BY <1>2, <2>2 DEF OnlyWorker
  <2>4. Unseen'
    BY <1>2, <2>1, <2>2 DEF Unseen
  <2>5. MakingOnly' /\ WriterFirst'
    BY <1>2, <2>1, <2>2 DEF MakingOnly, WriterFirst, Alive, dds
  <2>6. Deletable(job[t]) = {} => \A x \in EndsOf(job[t]) : ~Alive(x)
    BY <2>2, EndsFacts DEF Deletable
  <2>7. WholeOrNothing'
    <3>1. \A f \in LocalEntities : f # job[t] => (Working(f)' <=> Working(f))
      BY <1>3, <2>2 DEF Working
    <3> QED
      BY <1>2, <2>1, <2>2, <2>6, <3>1 DEF WholeOrNothing, Whole, Alive, dds
  <2>8. LifeOK'
    BY <1>1, <2>1, <2>2 DEF LifeOK, Alive, dds, disc
  <2>9. CacheInv'
    BY <2>1, CacheSame DEF dds
  <2> QED
    BY <1>1, <2>3, <2>4, <2>5, <2>7, <2>8, <2>9 DEF GraphInv, WorkInv
<1> QED
  BY <1>4, <1>6, <1>7, <1>8, <1>9 DEF EntityStep

-----------------------------------------------------------------------------
(***************************************************************************)
(* The theorems.                                                           *)
(***************************************************************************)
\* the invariant holds at first, after every step, and so always
LEMMA GraphInit == Init => GraphInv
<1> SUFFICES ASSUME Init PROVE GraphInv
  OBVIOUS
<1>1. TypeOK
  <2>1. 0 \in 0..MaxInfo /\ 0 \in 0..MaxChanges
    BY GraphAssumption
  <2> QED
    BY <2>1, EmptySeq DEF Init, TypeOK
<1>2. \A x \in Things : ~Alive(x)
  BY DEF Init, Alive
<1>3. LifeOK
  BY <1>2, EndsFacts DEF Init, LifeOK
<1>4. WorkInv
  BY <1>2, EndsFacts DEF Init, WorkInv, OnlyWorker, Unseen, MakingOnly, WholeOrNothing, WriterFirst
<1>5. CacheInv
  BY <1>2 DEF Init, CacheInv, CacheFollows, InboxFollows, LastKnown
<1> QED
  BY <1>1, <1>3, <1>4, <1>5 DEF GraphInv

\* every step keeps the invariant
LEMMA GraphStep == GraphInv /\ [Next]_vars => GraphInv'
<1> SUFFICES ASSUME GraphInv, [Next]_vars PROVE GraphInv'
  OBVIOUS
<1>1. CASE UNCHANGED vars
  <2>1. TypeOK' /\ LifeOK'
    BY <1>1 DEF GraphInv, TypeOK, LifeOK, Alive, vars, dds, graph, disc, app
  <2>2. WorkInv' /\ CacheInv'
    BY <1>1, WorkKept, CacheSame DEF vars, dds, graph, app
  <2> QED
    BY <2>1, <2>2 DEF GraphInv
<1> QED
  BY <1>1, InvWorld, InvDiscovery, InvContext, InvEntity DEF Next

\* the invariant holds in every execution
LEMMA GraphAlways == Spec => []GraphInv
BY GraphInit, GraphStep, PTL DEF Spec

\* every variable keeps its type, and a thread without a call has no job
THEOREM GraphTypeCorrect == Spec => []TypeOK
BY GraphAlways, PTL DEF GraphInv

\* rmw_create_*, rmw_destroy_*: an entity nobody works at is complete and in the
\* graph, or it is neither in the graph nor in DDS, whatever failed
THEOREM AlwaysWholeOrNothing == Spec => []WholeOrNothing
BY GraphAlways, PTL DEF GraphInv, WorkInv

\* add_*_graph, remove_*_graph: what is in the graph of this context exists
THEOREM AnnouncedExist == Spec => []AssociatedExist
<1>1. GraphInv => AssociatedExist
  <2> SUFFICES ASSUME GraphInv, NEW e \in assoc PROVE Whole(e)
    BY DEF AssociatedExist
  <2>1. e \in LocalEntities /\ ~Working(e)
    BY GraphAssumption DEF GraphInv, TypeOK, WorkInv, Unseen, Working, Entities
  <2> QED
    BY <2>1 DEF GraphInv, WorkInv, WholeOrNothing
<1> QED
  BY <1>1, GraphAlways, PTL

\* when all the readers are empty, nothing is left to be handled
LEMMA NothingUnread ==
  ASSUME TypeOK, AtRest
  PROVE  unread = {} /\ \A p \in Remotes : inbox[p] = <<>>
BY DEF TypeOK, AtRest, HasData, ReaderOf, Readers

\* discovery_thread: whenever it has emptied its readers the cache holds what
\* there is, but for what is left of earlier lives, and everyone's last message
THEOREM CacheFollowsWorld == Spec => []CacheIsWorld
<1>1. GraphInv => CacheIsWorld
  BY NothingUnread DEF GraphInv, CacheInv, CacheFollows, LastKnown, CacheIsWorld
<1> QED
  BY <1>1, GraphAlways, PTL
-----------------------------------------------------------------------------
(***************************************************************************)
(* The queries.                                                            *)
(***************************************************************************)
RT(n) == make_fqtopic("rt", n, <<>>, FALSE)
RQ(n) == make_fqtopic("rq", n, <<"Request">>, FALSE)
RR(n) == make_fqtopic("rr", n, <<"Reply">>, FALSE)
Requester(x) == (KindOf[x.of] = "cli" /\ x.side = "w") \/ (KindOf[x.of] = "srv" /\ x.side = "r")
Replier(x)   == (KindOf[x.of] = "cli" /\ x.side = "r") \/ (KindOf[x.of] = "srv" /\ x.side = "w")

\* the topic of an endpoint tells what it is
LEMMA TopicTells ==
  ASSUME NEW x \in AllEnds
  PROVE  /\ x.of \in Entities /\ x \in EndsOf(x.of) /\ Qualified(NameOf[x.of])
         /\ KindOf[x.of] \in {"pub", "sub"} => TopicOf(x) = RT(NameOf[x.of])
         /\ Requester(x) => TopicOf(x) = RQ(NameOf[x.of])
         /\ Replier(x) => TopicOf(x) = RR(NameOf[x.of])
         /\ KindOf[x.of] \in {"cli", "srv"} <=> Requester(x) \/ Replier(x)
         /\ KindOf[x.of] \in {"pub", "sub", "cli", "srv"}
         /\ x.side \in {"w", "r"}
<1>1. x.of \in Entities /\ x \in EndsOf(x.of)
  BY EndsFacts DEF AllEnds, Entities
<1>2. x.side \in {"w", "r"} /\ KindOf[x.of] \in {"pub", "sub", "cli", "srv"} /\ Qualified(NameOf[x.of])
  BY <1>1, EndsFacts, GraphAssumption, ThingsAssumption
<1> QED
  BY <1>1, <1>2 DEF TopicOf, RT, RQ, RR, Requester, Replier

\* the endpoints on a topic are those of the entities of that name and kind
LEMMA OnTopic ==
  ASSUME NEW x \in AllEnds, NEW n, Qualified(n)
  PROVE  /\ TopicOf(x) = RT(n) <=> KindOf[x.of] \in {"pub", "sub"} /\ NameOf[x.of] = n
         /\ TopicOf(x) = RQ(n) <=> Requester(x) /\ NameOf[x.of] = n
         /\ TopicOf(x) = RR(n) <=> Replier(x) /\ NameOf[x.of] = n
<1>1. Qualified(NameOf[x.of])
  BY TopicTells
<1>2. /\ RT(NameOf[x.of]) = RT(n) <=> NameOf[x.of] = n
      /\ RQ(NameOf[x.of]) = RQ(n) <=> NameOf[x.of] = n
      /\ RR(NameOf[x.of]) = RR(n) <=> NameOf[x.of] = n
      /\ RT(NameOf[x.of]) # RQ(n) /\ RT(NameOf[x.of]) # RR(n) /\ RQ(NameOf[x.of]) # RR(n)
  BY <1>1, TopicsApart DEF RT, RQ, RR
<1>3. RT(n) # RQ(NameOf[x.of]) /\ RT(n) # RR(NameOf[x.of]) /\ RQ(n) # RR(NameOf[x.of])
  BY <1>1, TopicsApart, ZenonT(40) DEF RT, RQ, RR
<1>4. ~(Requester(x) /\ Replier(x))
  BY DEF Requester, Replier
<1> QED
  BY <1>2, <1>3, <1>4, TopicTells

\* and are demangled to that name
LEMMA DemangledEnd ==
  ASSUME NEW x \in AllEnds
  PROVE  /\ NameOf[x.of] # Nothing
         /\ demangle_ros_topic(TopicOf(x))
              = IF KindOf[x.of] \in {"pub", "sub"} THEN NameOf[x.of] ELSE Nothing
         /\ demangle_request(TopicOf(x)) = IF Requester(x) THEN NameOf[x.of] ELSE Nothing
         /\ demangle_reply(TopicOf(x)) = IF Replier(x) THEN NameOf[x.of] ELSE Nothing
         /\ demangle_service_from_topic(TopicOf(x))
              = IF KindOf[x.of] \in {"cli", "srv"} THEN NameOf[x.of] ELSE Nothing
<1> DEFINE n == NameOf[x.of]
<1>1. /\ demangle_ros_topic(RT(n)) = n /\ demangle_request(RT(n)) = Nothing
      /\ demangle_reply(RT(n)) = Nothing
      /\ demangle_ros_topic(RQ(n)) = Nothing /\ demangle_request(RQ(n)) = n
      /\ demangle_reply(RQ(n)) = Nothing
      /\ demangle_ros_topic(RR(n)) = Nothing /\ demangle_request(RR(n)) = Nothing
      /\ demangle_reply(RR(n)) = n /\ n # Nothing
  BY TopicTells, Demangled DEF RT, RQ, RR
<1>2. /\ demangle_service_from_topic(RT(n)) = Nothing
      /\ demangle_service_from_topic(RQ(n)) = n /\ demangle_service_from_topic(RR(n)) = n
  BY <1>1 DEF demangle_service_from_topic
<1>3. ~(Requester(x) /\ Replier(x))
  BY DEF Requester, Replier
<1> HIDE DEF n
<1>4. /\ KindOf[x.of] \in {"pub", "sub"} => TopicOf(x) = RT(n)
      /\ Requester(x) => TopicOf(x) = RQ(n)
      /\ Replier(x) => TopicOf(x) = RR(n)
  BY TopicTells DEF n
<1>5. CASE KindOf[x.of] \in {"pub", "sub"}
  BY <1>1, <1>2, <1>4, <1>5, TopicTells DEF n
<1>6. CASE Requester(x)
  BY <1>1, <1>2, <1>3, <1>4, <1>6, TopicTells DEF n, Requester
<1>7. CASE Replier(x)
  BY <1>1, <1>2, <1>3, <1>4, <1>7, TopicTells DEF n, Replier
<1> QED
  BY <1>5, <1>6, <1>7, TopicTells

\* the endpoints of each kind of entity: a publisher writes, a subscription
\* reads, clients and services do both
End(e, s) == [of |-> e, side |-> s]
\* (EndsOf, kind by kind)
LEMMA EndsOfKind ==
  ASSUME NEW e \in Entities
  PROVE  /\ KindOf[e] = "pub" => EndsOf(e) = {End(e, "w")}
         /\ KindOf[e] = "sub" => EndsOf(e) = {End(e, "r")}
         /\ KindOf[e] \in {"cli", "srv"} => EndsOf(e) = {End(e, "w"), End(e, "r")}
         /\ \A x \in EndsOf(e) : x = End(e, x.side) /\ x \in AllEnds
         /\ \A s \in {"w", "r"} : End(e, s).of = e /\ End(e, s).side = s
<1>1. ASSUME NEW x \in EndsOf(e) PROVE x = End(e, x.side) /\ x \in AllEnds
  BY <1>1, EndsFacts DEF EndsOf, End
<1>2. \A s \in {"w", "r"} : End(e, s).of = e /\ End(e, s).side = s
  BY DEF End
<1> QED
  BY <1>1, <1>2 DEF EndsOf, Sides, End

\* as many endpoints as entities, when each entity has one of them
LEMMA AsMany ==
  ASSUME NEW S, S \subseteq AllEnds, NEW T, T \subseteq Entities,
         \A x \in S : x.of \in T, \A x, y \in S : x.of = y.of => x = y,
         \A e \in T : \E x \in S : x.of = e
  PROVE  Cardinality(S) = Cardinality(T)
<1> DEFINE f == [x \in S |-> x.of]
<1>1. f \in [S -> T] /\ \A x \in S : f[x] = x.of
  OBVIOUS
<1> HIDE DEF f
<1>2. \A x, y \in S : f[x] = f[y] => x = y
  BY <1>1
<1>3. \A e \in T : \E x \in S : f[x] = e
  BY <1>1
<1>4. f \in Bijection(S, T)
  BY <1>1, <1>2, <1>3, Fun_IsBij
<1>5. ExistsBijection(S, T)
  BY <1>4, Fun_ExistsBij
<1>6. ExistsBijection(T, S)
  BY <1>5, Fun_ExistsBijSymmetric
<1>7. IsFiniteSet(T)
  BY ThingsAssumption, FS_Subset
<1> QED
  BY <1>6, <1>7, FS_Bijection

\* at rest, with nothing left of what is gone, the cache has the endpoints there are
Settled == GraphInv /\ AtRest /\ left \cap AllEnds = {}
\* (what handle_builtintopic_endpoint was last told of each of them is true)
LEMMA CachedAlive == Settled => \A x \in AllEnds : x \in cached <=> Alive(x)
BY NothingUnread, EndsFacts DEF Settled, GraphInv, CacheInv, CacheFollows

\* what is found on a topic are endpoints of the entities of that name
LEMMA FoundOnTopic ==
  ASSUME Settled, NEW n, Qualified(n)
  PROVE  /\ rmw_get_publishers_info_by_topic(n)
              = {x \in AllEnds : Alive(x) /\ x.side = "w" /\ KindOf[x.of] \in {"pub", "sub"} /\ NameOf[x.of] = n}
         /\ rmw_get_subscriptions_info_by_topic(n)
              = {x \in AllEnds : Alive(x) /\ x.side = "r" /\ KindOf[x.of] \in {"pub", "sub"} /\ NameOf[x.of] = n}
         /\ \A s \in {"w", "r"} :
              /\ Requesting(n, s)
                   = {x \in AllEnds : Alive(x) /\ x.side = s /\ Requester(x) /\ NameOf[x.of] = n}
              /\ Replying(n, s)
                   = {x \in AllEnds : Alive(x) /\ x.side = s /\ Replier(x) /\ NameOf[x.of] = n}
<1>1. \A x \in AllEnds : x \in cached <=> Alive(x)
  BY CachedAlive
<1>2. \A x \in AllEnds :
        /\ TopicOf(x) = RT(n) <=> KindOf[x.of] \in {"pub", "sub"} /\ NameOf[x.of] = n
        /\ TopicOf(x) = RQ(n) <=> Requester(x) /\ NameOf[x.of] = n
        /\ TopicOf(x) = RR(n) <=> Replier(x) /\ NameOf[x.of] = n
  BY OnTopic
<1>3. /\ rmw_get_publishers_info_by_topic(n) = {x \in cached \cap AllEnds : TopicOf(x) = RT(n) /\ x.side = "w"}
      /\ rmw_get_subscriptions_info_by_topic(n) = {x \in cached \cap AllEnds : TopicOf(x) = RT(n) /\ x.side = "r"}
      /\ \A s \in {"w", "r"} :
           /\ Requesting(n, s) = {x \in cached \cap AllEnds : TopicOf(x) = RQ(n) /\ x.side = s}
           /\ Replying(n, s) = {x \in cached \cap AllEnds : TopicOf(x) = RR(n) /\ x.side = s}
  BY DEF rmw_get_publishers_info_by_topic, rmw_get_subscriptions_info_by_topic, Requesting,
         Replying, CachedOn, RT, RQ, RR
<1> QED
  BY <1>1, <1>2, <1>3

\* an entity of one endpoint is complete when that is there; one of two, when
\* both are
LEMMA WholeOfKind ==
  ASSUME NEW e \in Entities
  PROVE  /\ KindOf[e] = "pub" => (Whole(e) <=> Alive(End(e, "w")))
         /\ KindOf[e] = "sub" => (Whole(e) <=> Alive(End(e, "r")))
         /\ KindOf[e] \in {"cli", "srv"} =>
              (Whole(e) <=> Alive(End(e, "w")) /\ Alive(End(e, "r")))
         /\ Whole(e) => \E x \in EndsOf(e) : Alive(x)
BY EndsOfKind, GraphAssumption DEF Whole

\* publishers and subscriptions are counted by their one endpoint
LEMMA CountTopic ==
  ASSUME Settled, NEW n, Qualified(n)
  PROVE  /\ rmw_count_publishers(n) = Cardinality(Complete("pub", n))
         /\ rmw_count_subscribers(n) = Cardinality(Complete("sub", n))
<1>1. \A kind \in {"pub", "sub"} :
        Complete(kind, n) = {e \in Entities : KindOf[e] = kind /\ NameOf[e] = n /\ Whole(e)}
  BY WholeOfKind DEF Complete, Present
<1>2. rmw_count_publishers(n) = Cardinality(Complete("pub", n))
  <2> DEFINE S == rmw_get_publishers_info_by_topic(n)
             T == Complete("pub", n)
  <2>1. S = {x \in AllEnds : Alive(x) /\ x.side = "w" /\ KindOf[x.of] \in {"pub", "sub"} /\ NameOf[x.of] = n}
    BY FoundOnTopic
  <2>2. T = {e \in Entities : KindOf[e] = "pub" /\ NameOf[e] = n /\ Whole(e)}
    BY <1>1
  <2> HIDE DEF S, T
  <2>3. ASSUME NEW x \in S PROVE x = End(x.of, "w") /\ x.of \in T
    <3>1. /\ x \in AllEnds /\ x.of \in Entities /\ x \in EndsOf(x.of) /\ x.side = "w"
          /\ x = End(x.of, "w") /\ NameOf[x.of] = n /\ Alive(x)
      BY <2>1, <2>3, TopicTells, EndsOfKind
    <3>2. KindOf[x.of] = "pub"
      BY <2>1, <3>1, EndsOfKind, GraphAssumption
    <3> QED
      BY <2>2, <3>1, <3>2, WholeOfKind
  <2>4. ASSUME NEW e \in T PROVE End(e, "w") \in S /\ End(e, "w").of = e
    <3>1. e \in Entities /\ KindOf[e] = "pub" /\ NameOf[e] = n /\ Alive(End(e, "w"))
      BY <2>2, <2>4, WholeOfKind
    <3>2. End(e, "w") \in AllEnds /\ End(e, "w").of = e /\ End(e, "w").side = "w"
      BY <3>1, EndsOfKind
    <3> QED
      BY <2>1, <3>1, <3>2
  <2>5. /\ S \subseteq AllEnds /\ T \subseteq Entities
        /\ \A x, y \in S : x.of = y.of => x = y
    BY <2>1, <2>2, <2>3
  <2>6. Cardinality(S) = Cardinality(T)
    BY <2>3, <2>4, <2>5, AsMany
  <2> QED
    BY <2>6 DEF rmw_count_publishers, S, T
<1>3. rmw_count_subscribers(n) = Cardinality(Complete("sub", n))
  <2> DEFINE S == rmw_get_subscriptions_info_by_topic(n)
             T == Complete("sub", n)
  <2>1. S = {x \in AllEnds : Alive(x) /\ x.side = "r" /\ KindOf[x.of] \in {"pub", "sub"} /\ NameOf[x.of] = n}
    BY FoundOnTopic
  <2>2. T = {e \in Entities : KindOf[e] = "sub" /\ NameOf[e] = n /\ Whole(e)}
    BY <1>1
  <2> HIDE DEF S, T
  <2>3. ASSUME NEW x \in S PROVE x = End(x.of, "r") /\ x.of \in T
    <3>1. /\ x \in AllEnds /\ x.of \in Entities /\ x \in EndsOf(x.of) /\ x.side = "r"
          /\ x = End(x.of, "r") /\ NameOf[x.of] = n /\ Alive(x)
      BY <2>1, <2>3, TopicTells, EndsOfKind
    <3>2. KindOf[x.of] = "sub"
      BY <2>1, <3>1, EndsOfKind, GraphAssumption
    <3> QED
      BY <2>2, <3>1, <3>2, WholeOfKind
  <2>4. ASSUME NEW e \in T PROVE End(e, "r") \in S /\ End(e, "r").of = e
    <3>1. e \in Entities /\ KindOf[e] = "sub" /\ NameOf[e] = n /\ Alive(End(e, "r"))
      BY <2>2, <2>4, WholeOfKind
    <3>2. End(e, "r") \in AllEnds /\ End(e, "r").of = e /\ End(e, "r").side = "r"
      BY <3>1, EndsOfKind
    <3> QED
      BY <2>1, <3>1, <3>2
  <2>5. /\ S \subseteq AllEnds /\ T \subseteq Entities
        /\ \A x, y \in S : x.of = y.of => x = y
    BY <2>1, <2>2, <2>3
  <2>6. Cardinality(S) = Cardinality(T)
    BY <2>3, <2>4, <2>5, AsMany
  <2> QED
    BY <2>6 DEF rmw_count_subscribers, S, T
<1> QED
  BY <1>2, <1>3

\* clients and services are described when both their endpoints are there
LEMMA PairedAreComplete ==
  ASSUME Settled, NEW n, Qualified(n)
  PROVE  /\ rmw_get_clients_info_by_service(n) = Complete("cli", n)
         /\ rmw_get_servers_info_by_service(n) = Complete("srv", n)
<1>1. \A kind \in {"cli", "srv"} :
        Complete(kind, n) = {e \in Entities : KindOf[e] = kind /\ NameOf[e] = n
                                            /\ Alive(End(e, "w")) /\ Alive(End(e, "r"))}
  BY WholeOfKind DEF Complete, Present
<1>2. ASSUME NEW s \in {"w", "r"}
      PROVE  /\ {x.of : x \in Requesting(n, s)}
                   = {e \in Entities : NameOf[e] = n /\ KindOf[e] = (IF s = "w" THEN "cli" ELSE "srv")
                                       /\ Alive(End(e, s))}
             /\ {x.of : x \in Replying(n, s)}
                   = {e \in Entities : NameOf[e] = n /\ KindOf[e] = (IF s = "r" THEN "cli" ELSE "srv")
                                       /\ Alive(End(e, s))}
  <2>1. \A x \in AllEnds : x.side = s => x = End(x.of, s) /\ x.of \in Entities
    BY TopicTells, EndsOfKind
  <2>2. \A e \in Entities : KindOf[e] \in {"cli", "srv"} =>
          End(e, s) \in AllEnds /\ End(e, s).of = e /\ End(e, s).side = s
    BY EndsOfKind
  <2>3. \A x \in AllEnds : x.side = s =>
          /\ Requester(x) <=> KindOf[x.of] = (IF s = "w" THEN "cli" ELSE "srv")
          /\ Replier(x) <=> KindOf[x.of] = (IF s = "r" THEN "cli" ELSE "srv")
    BY DEF Requester, Replier
  <2>4. /\ Requesting(n, s) = {x \in AllEnds : Alive(x) /\ x.side = s /\ Requester(x) /\ NameOf[x.of] = n}
        /\ Replying(n, s) = {x \in AllEnds : Alive(x) /\ x.side = s /\ Replier(x) /\ NameOf[x.of] = n}
    BY FoundOnTopic
  <2>5. {x.of : x \in Requesting(n, s)}
          = {e \in Entities : NameOf[e] = n /\ KindOf[e] = (IF s = "w" THEN "cli" ELSE "srv")
                              /\ Alive(End(e, s))}
    BY <2>1, <2>2, <2>3, <2>4
  <2>6. {x.of : x \in Replying(n, s)}
          = {e \in Entities : NameOf[e] = n /\ KindOf[e] = (IF s = "r" THEN "cli" ELSE "srv")
                              /\ Alive(End(e, s))}
    BY <2>1, <2>2, <2>3, <2>4
  <2> QED
    BY <2>5, <2>6
<1> QED
  BY <1>1, <1>2 DEF rmw_get_clients_info_by_service, rmw_get_servers_info_by_service, Paired

\* and counted by their readers, when DDS knows no half of one
LEMMA CountService ==
  ASSUME Settled, NEW n, Qualified(n), ~HalfKnown(n)
  PROVE  /\ rmw_count_clients(n) = Cardinality(Complete("cli", n))
         /\ rmw_count_services(n) = Cardinality(Complete("srv", n))
<1>1. \A kind \in {"cli", "srv"} :
        Complete(kind, n) = {e \in Entities : KindOf[e] = kind /\ NameOf[e] = n /\ Whole(e)}
  BY WholeOfKind DEF Complete, Present
<1>2. ASSUME NEW e \in Entities, KindOf[e] \in {"cli", "srv"}, NameOf[e] = n, Alive(End(e, "r"))
      PROVE  Whole(e)
  <2>1. CASE e \in LocalEntities
    <3>1. End(e, "r") \in EndsOf(e) /\ End(e, "w") \in EndsOf(e)
      BY <1>2, EndsOfKind
    <3>2. End(e, "r").side = "r" /\ End(e, "w").side = "w"
      BY DEF End
    <3>3. Alive(End(e, "w"))
      BY <1>2, <2>1, <3>1, <3>2 DEF Settled, GraphInv, WorkInv, WriterFirst
    <3> QED
      BY <1>2, <3>3, WholeOfKind
  <2>2. CASE e \in RemoteEntities
    BY <1>2, <2>2 DEF HalfKnown
  <2> QED
    BY <2>1, <2>2 DEF Entities
<1>3. rmw_count_clients(n) = Cardinality(Complete("cli", n))
  <2> DEFINE S == Replying(n, "r")
             T == Complete("cli", n)
  <2>1. S = {x \in AllEnds : Alive(x) /\ x.side = "r" /\ Replier(x) /\ NameOf[x.of] = n}
    BY FoundOnTopic
  <2>2. T = {e \in Entities : KindOf[e] = "cli" /\ NameOf[e] = n /\ Whole(e)}
    BY <1>1
  <2> HIDE DEF S, T
  <2>3. ASSUME NEW x \in S PROVE x = End(x.of, "r") /\ x.of \in T
    <3>1. /\ x \in AllEnds /\ x.of \in Entities /\ x \in EndsOf(x.of) /\ x.side = "r"
          /\ x = End(x.of, "r") /\ NameOf[x.of] = n /\ Alive(x) /\ Replier(x)
      BY <2>1, <2>3, TopicTells, EndsOfKind
    <3>2. KindOf[x.of] = "cli"
      BY <3>1 DEF Replier
    <3>3. Whole(x.of)
      BY <1>2, <3>1, <3>2
    <3> QED
      BY <2>2, <3>1, <3>2, <3>3
  <2>4. ASSUME NEW e \in T PROVE End(e, "r") \in S /\ End(e, "r").of = e
    <3>1. e \in Entities /\ KindOf[e] = "cli" /\ NameOf[e] = n /\ Alive(End(e, "r"))
      BY <2>2, <2>4, WholeOfKind
    <3>2. /\ End(e, "r") \in AllEnds /\ End(e, "r").of = e /\ End(e, "r").side = "r"
          /\ Replier(End(e, "r"))
      BY <3>1, EndsOfKind DEF Replier
    <3> QED
      BY <2>1, <3>1, <3>2
  <2>5. /\ S \subseteq AllEnds /\ T \subseteq Entities
        /\ \A x, y \in S : x.of = y.of => x = y
    BY <2>1, <2>2, <2>3
  <2>6. Cardinality(S) = Cardinality(T)
    BY <2>3, <2>4, <2>5, AsMany
  <2> QED
    BY <2>6 DEF rmw_count_clients, S, T
<1>4. rmw_count_services(n) = Cardinality(Complete("srv", n))
  <2> DEFINE S == Requesting(n, "r")
             T == Complete("srv", n)
  <2>1. S = {x \in AllEnds : Alive(x) /\ x.side = "r" /\ Requester(x) /\ NameOf[x.of] = n}
    BY FoundOnTopic
  <2>2. T = {e \in Entities : KindOf[e] = "srv" /\ NameOf[e] = n /\ Whole(e)}
    BY <1>1
  <2> HIDE DEF S, T
  <2>3. ASSUME NEW x \in S PROVE x = End(x.of, "r") /\ x.of \in T
    <3>1. /\ x \in AllEnds /\ x.of \in Entities /\ x \in EndsOf(x.of) /\ x.side = "r"
          /\ x = End(x.of, "r") /\ NameOf[x.of] = n /\ Alive(x) /\ Requester(x)
      BY <2>1, <2>3, TopicTells, EndsOfKind
    <3>2. KindOf[x.of] = "srv"
      BY <3>1 DEF Requester
    <3>3. Whole(x.of)
      BY <1>2, <3>1, <3>2
    <3> QED
      BY <2>2, <3>1, <3>2, <3>3
  <2>4. ASSUME NEW e \in T PROVE End(e, "r") \in S /\ End(e, "r").of = e
    <3>1. e \in Entities /\ KindOf[e] = "srv" /\ NameOf[e] = n /\ Alive(End(e, "r"))
      BY <2>2, <2>4, WholeOfKind
    <3>2. /\ End(e, "r") \in AllEnds /\ End(e, "r").of = e /\ End(e, "r").side = "r"
          /\ Requester(End(e, "r"))
      BY <3>1, EndsOfKind DEF Requester
    <3> QED
      BY <2>1, <3>1, <3>2
  <2>5. /\ S \subseteq AllEnds /\ T \subseteq Entities
        /\ \A x, y \in S : x.of = y.of => x = y
    BY <2>1, <2>2, <2>3
  <2>6. Cardinality(S) = Cardinality(T)
    BY <2>3, <2>4, <2>5, AsMany
  <2> QED
    BY <2>6 DEF rmw_count_services, S, T
<1> QED
  BY <1>3, <1>4

\* names are listed when there is an endpoint of theirs
LEMMA NamesListed ==
  ASSUME Settled, NEW n, Qualified(n)
  PROVE  /\ n \in rmw_get_topic_names <=> Present({"pub", "sub"}, n) # {}
         /\ n \in rmw_get_service_names <=> Present({"cli", "srv"}, n) # {}
<1>1. \A x \in AllEnds : x \in cached <=> Alive(x)
  BY CachedAlive
<1>2. n # Nothing
  BY DEF Qualified, Nothing
<1>3. \A x \in AllEnds : /\ x.of \in Entities /\ x \in EndsOf(x.of)
                         /\ KindOf[x.of] \in {"pub", "sub", "cli", "srv"}
  BY TopicTells
<1>4. \A e \in Entities : \A x \in EndsOf(e) : x.of = e /\ x \in AllEnds
  BY EndsFacts
<1>5. n \in rmw_get_topic_names <=> Present({"pub", "sub"}, n) # {}
  <2>1. n \in rmw_get_topic_names
          <=> \E x \in AllEnds \cap cached : demangle_ros_topic(TopicOf(x)) = n
    BY <1>2 DEF rmw_get_topic_names, Listed
  <2>2. \A x \in AllEnds : demangle_ros_topic(TopicOf(x)) = n
          <=> KindOf[x.of] \in {"pub", "sub"} /\ NameOf[x.of] = n
    BY <1>2, DemangledEnd
  <2>3. Present({"pub", "sub"}, n) # {}
          <=> \E e \in Entities : /\ KindOf[e] \in {"pub", "sub"} /\ NameOf[e] = n
                                  /\ \E x \in EndsOf(e) : Alive(x)
    BY DEF Present
  <2> QED
    BY <1>1, <1>3, <1>4, <2>1, <2>2, <2>3
<1>6. n \in rmw_get_service_names <=> Present({"cli", "srv"}, n) # {}
  <2>1. n \in rmw_get_service_names
          <=> \E x \in AllEnds \cap cached : demangle_service_from_topic(TopicOf(x)) = n
    BY <1>2 DEF rmw_get_service_names, Listed
  <2>2. \A x \in AllEnds : demangle_service_from_topic(TopicOf(x)) = n
          <=> KindOf[x.of] \in {"cli", "srv"} /\ NameOf[x.of] = n
    BY <1>2, DemangledEnd
  <2>3. Present({"cli", "srv"}, n) # {}
          <=> \E e \in Entities : /\ KindOf[e] \in {"cli", "srv"} /\ NameOf[e] = n
                                  /\ \E x \in EndsOf(e) : Alive(x)
    BY DEF Present
  <2> QED
    BY <1>1, <1>3, <1>4, <2>1, <2>2, <2>3
<1> QED
  BY <1>5, <1>6

\* what is in the graph is complete, and the application has it
LEMMA OwnedAreThere ==
  ASSUME GraphInv
  PROVE  /\ assoc = owned
         /\ \A e \in owned : e \in LocalEntities /\ e \in Entities /\ Whole(e)
<1>1. ASSUME NEW e \in LocalEntities PROVE e \in owned <=> e \in assoc
  <2>1. CASE Working(e)
    <3>1. PICK t \in Threads : job[t] = e
      BY <2>1 DEF Working
    <3>2. pc[t] # "idle"
      BY <1>1, <3>1, GraphAssumption DEF GraphInv, TypeOK, Entities
    <3> QED
      BY <3>1, <3>2 DEF GraphInv, WorkInv, Unseen
  <2>2. CASE ~Working(e)
    BY <1>1, <2>2 DEF GraphInv, WorkInv, WholeOrNothing
  <2> QED
    BY <2>1, <2>2
<1>2. assoc \subseteq LocalEntities /\ owned \subseteq LocalEntities
  BY DEF GraphInv, TypeOK
<1>3. ASSUME NEW e \in owned PROVE Whole(e)
  <2>1. ~Working(e)
    BY <1>2, GraphAssumption DEF GraphInv, TypeOK, WorkInv, Unseen, Working, Entities
  <2> QED
    BY <1>2, <1>3, <2>1 DEF GraphInv, WorkInv, WholeOrNothing
<1> QED
  BY <1>1, <1>2, <1>3 DEF Entities

\* of a node are listed the names of what the application has there
LEMMA NodeListed ==
  ASSUME Settled, NEW kind \in {"pub", "sub", "cli", "srv"}
  PROVE  NamesOfNode(kind) = {NameOf[e] : e \in {f \in owned : KindOf[f] = kind}}
<1>1. \A x \in AllEnds : x \in cached <=> Alive(x)
  BY CachedAlive
<1>2. assoc = owned /\ \A e \in owned : e \in LocalEntities /\ e \in Entities /\ Whole(e)
  BY OwnedAreThere DEF Settled
<1> DEFINE names == {NameOf[e] : e \in {f \in owned : KindOf[f] = kind}}
           ends(s) == OfNode(s) \cap cached
<1>3. ASSUME NEW s \in {"w", "r"}
      PROVE  /\ \A x \in ends(s) : x \in AllEnds /\ x.of \in owned /\ x.side = s
                                   /\ x \in EndsOf(x.of)
             /\ \A e \in owned : End(e, s) \in EndsOf(e) =>
                  End(e, s) \in ends(s) /\ End(e, s).of = e
  <2>1. \A x \in ends(s) : x \in AllEnds /\ x.of \in owned /\ x.side = s /\ x \in EndsOf(x.of)
    BY <1>2, EndsFacts DEF OfNode, AllEnds
  <2>2. ASSUME NEW e \in owned, End(e, s) \in EndsOf(e)
        PROVE  End(e, s) \in ends(s) /\ End(e, s).of = e
    <3>1. End(e, s).of = e /\ End(e, s).side = s /\ End(e, s) \in AllEnds /\ End(e, s) \in LocalEnds
      BY <1>2, <2>2, EndsOfKind, EndsFacts
    <3>2. Alive(End(e, s))
      BY <1>2, <2>2 DEF Whole
    <3> QED
      BY <1>1, <1>2, <3>1, <3>2 DEF OfNode
  <2> QED
    BY <2>1, <2>2
<1>4. \A x \in AllEnds : /\ NameOf[x.of] # Nothing
                         /\ x.of \in Entities
                         /\ x.side = "r" => /\ Requester(x) <=> KindOf[x.of] = "srv"
                                            /\ Replier(x) <=> KindOf[x.of] = "cli"
  BY TopicTells, DemangledEnd DEF Requester, Replier
<1>5. CASE kind = "pub"
  <2>1. NamesOfNode(kind) = {demangle_ros_topic(TopicOf(x)) : x \in ends("w")} \ {Nothing}
    BY <1>5 DEF NamesOfNode, Listed
  <2>2. ASSUME NEW x \in ends("w")
        PROVE  demangle_ros_topic(TopicOf(x)) \in names \cup {Nothing}
    <3>1. x \in AllEnds /\ x.of \in owned /\ x.side = "w" /\ x \in EndsOf(x.of)
      BY <1>3, <2>2
    <3>2. KindOf[x.of] # "sub"
      BY <1>2, <3>1, EndsOfKind
    <3> QED
      BY <1>5, <3>1, <3>2, DemangledEnd
  <2>3. ASSUME NEW e \in owned, KindOf[e] = kind
        PROVE  \E x \in ends("w") : demangle_ros_topic(TopicOf(x)) = NameOf[e]
    <3>1. End(e, "w") \in ends("w") /\ End(e, "w").of = e
      BY <1>2, <1>3, <1>5, <2>3, EndsOfKind
    <3>2. End(e, "w") \in AllEnds
      BY <1>3, <3>1
    <3> QED
      BY <1>5, <2>3, <3>1, <3>2, DemangledEnd
  <2>4. \A e \in owned : NameOf[e] # Nothing
    BY <1>2, ThingsAssumption DEF Qualified, Nothing
  <2> QED
    BY <2>1, <2>2, <2>3, <2>4
<1>6. CASE kind = "sub"
  <2>1. NamesOfNode(kind) = {demangle_ros_topic(TopicOf(x)) : x \in ends("r")} \ {Nothing}
    BY <1>6 DEF NamesOfNode, Listed
  <2>2. ASSUME NEW x \in ends("r")
        PROVE  demangle_ros_topic(TopicOf(x)) \in names \cup {Nothing}
    <3>1. x \in AllEnds /\ x.of \in owned /\ x.side = "r" /\ x \in EndsOf(x.of)
      BY <1>3, <2>2
    <3>2. KindOf[x.of] # "pub"
      BY <1>2, <3>1, EndsOfKind
    <3> QED
      BY <1>6, <3>1, <3>2, DemangledEnd
  <2>3. ASSUME NEW e \in owned, KindOf[e] = kind
        PROVE  \E x \in ends("r") : demangle_ros_topic(TopicOf(x)) = NameOf[e]
    <3>1. End(e, "r") \in ends("r") /\ End(e, "r").of = e
      BY <1>2, <1>3, <1>6, <2>3, EndsOfKind
    <3>2. End(e, "r") \in AllEnds
      BY <1>3, <3>1
    <3> QED
      BY <1>6, <2>3, <3>1, <3>2, DemangledEnd
  <2>4. \A e \in owned : NameOf[e] # Nothing
    BY <1>2, ThingsAssumption DEF Qualified, Nothing
  <2> QED
    BY <2>1, <2>2, <2>3, <2>4
<1>7. CASE kind = "srv"
  <2>1. NamesOfNode(kind) = {demangle_request(TopicOf(x)) : x \in ends("r")} \ {Nothing}
    BY <1>7 DEF NamesOfNode, Listed
  <2>2. ASSUME NEW x \in ends("r")
        PROVE  demangle_request(TopicOf(x)) \in names \cup {Nothing}
    <3>1. x \in AllEnds /\ x.of \in owned /\ x.side = "r"
      BY <1>3, <2>2
    <3> QED
      BY <1>4, <1>7, <3>1, DemangledEnd
  <2>3. ASSUME NEW e \in owned, KindOf[e] = kind
        PROVE  \E x \in ends("r") : demangle_request(TopicOf(x)) = NameOf[e]
    <3>1. End(e, "r") \in ends("r") /\ End(e, "r").of = e
      BY <1>2, <1>3, <1>7, <2>3, EndsOfKind
    <3>2. End(e, "r") \in AllEnds /\ End(e, "r").side = "r"
      BY <1>3, <3>1
    <3> QED
      BY <1>4, <1>7, <2>3, <3>1, <3>2, DemangledEnd
  <2>4. \A e \in owned : NameOf[e] # Nothing
    BY <1>2, ThingsAssumption DEF Qualified, Nothing
  <2> QED
    BY <2>1, <2>2, <2>3, <2>4
<1>8. CASE kind = "cli"
  <2>1. NamesOfNode(kind) = {demangle_reply(TopicOf(x)) : x \in ends("r")} \ {Nothing}
    BY <1>8 DEF NamesOfNode, Listed
  <2>2. ASSUME NEW x \in ends("r")
        PROVE  demangle_reply(TopicOf(x)) \in names \cup {Nothing}
    <3>1. x \in AllEnds /\ x.of \in owned /\ x.side = "r"
      BY <1>3, <2>2
    <3> QED
      BY <1>4, <1>8, <3>1, DemangledEnd
  <2>3. ASSUME NEW e \in owned, KindOf[e] = kind
        PROVE  \E x \in ends("r") : demangle_reply(TopicOf(x)) = NameOf[e]
    <3>1. End(e, "r") \in ends("r") /\ End(e, "r").of = e
      BY <1>2, <1>3, <1>8, <2>3, EndsOfKind
    <3>2. End(e, "r") \in AllEnds /\ End(e, "r").side = "r"
      BY <1>3, <3>1
    <3> QED
      BY <1>4, <1>8, <2>3, <3>1, <3>2, DemangledEnd
  <2>4. \A e \in owned : NameOf[e] # Nothing
    BY <1>2, ThingsAssumption DEF Qualified, Nothing
  <2> QED
    BY <2>1, <2>2, <2>3, <2>4
<1> QED
  BY <1>5, <1>6, <1>7, <1>8

\* rmw_get_*_names_and_types*, rmw_count_*, rmw_get_*_info_by_*: when the discovery
\* thread has nothing to do, and nothing is left of earlier lives, the queries tell
\* of the publishers, subscriptions, clients and services there are, no more and
\* no less, under the names they were given
THEOREM QueriesTell == Spec => []QueriesTellWhole
<1>1. GraphInv => QueriesTellWhole
  <2>1. SUFFICES ASSUME GraphInv, AtRest, left \cap AllEnds = {} PROVE QueriesTellWhole
    BY DEF QueriesTellWhole
  <2>2. Settled
    BY <2>1 DEF Settled
  <2>3. ASSUME NEW n \in {NameOf[e] : e \in Entities}
        PROVE  /\ rmw_count_publishers(n) = Cardinality(Complete("pub", n))
               /\ rmw_count_subscribers(n) = Cardinality(Complete("sub", n))
               /\ ~HalfKnown(n) => /\ rmw_count_clients(n) = Cardinality(Complete("cli", n))
                                   /\ rmw_count_services(n) = Cardinality(Complete("srv", n))
               /\ rmw_get_clients_info_by_service(n) = Complete("cli", n)
               /\ rmw_get_servers_info_by_service(n) = Complete("srv", n)
               /\ n \in rmw_get_topic_names <=> Present({"pub", "sub"}, n) # {}
               /\ n \in rmw_get_service_names <=> Present({"cli", "srv"}, n) # {}
    <3>1. Qualified(n)
      BY ThingsAssumption
    <3> QED
      BY <2>2, <3>1, CountTopic, CountService, PairedAreComplete, NamesListed
  <2> QED
    BY <2>2, <2>3, NodeListed DEF QueriesTellWhole
<1> QED
  BY <1>1, GraphAlways, PTL
=============================================================================
