------------------------------ MODULE Context ------------------------------
(***************************************************************************)
(* Contexts, the domains they share and their discovery threads            *)
(* (rmw_node.cpp: rmw_init ... rmw_destroy_node, rmw_context_impl_s::init, *)
(* fini and clean_up, check_create_domain, check_destroy_domain and        *)
(* discovery_thread).                                                      *)
(*                                                                         *)
(* The first node of a context makes its participant, the last one tears   *)
(* it down, under the context's initialization_mutex; the first context    *)
(* with nodes in a domain makes the domain, the last one deletes it, under *)
(* gcdds().domains_lock.  Deleting a domain deletes every participant in   *)
(* it, whoever made it.                                                    *)
(***************************************************************************)
EXTENDS Integers, FiniteSets

CONSTANTS Contexts,    \* addresses of rmw_context_impl_t objects
          Threads,     \* threads that create and destroy nodes
          Domains,     \* DDS domain ids
          Options,     \* rmw_discovery_options_t values
          NotSet,      \* the options whose discovery range is not set
          NoDomain,    \* UINT32_MAX: the domain id of a context never used
          NoOne,       \* nobody holds the mutex
          MaxNodes,    \* bound: nodes a context has, or is given, at a time
          Failures     \* which calls may fail; see Fail below

ASSUME DomainAssumption  == NoDomain \notin Domains
ASSUME MutexAssumption   == NoOne \notin Threads
ASSUME NonEmptyContexts  == Contexts # {} /\ Domains # {} /\ Options # {}
ASSUME FiniteAssumption  == IsFiniteSet(Contexts) /\ IsFiniteSet(Threads)
ASSUME MaxNodesAssumption == MaxNodes \in Nat

VARIABLES
  \* rmw_context_t and rmw_context_impl_s
  open,         \* the contexts rmw_init has set up
  is_shutdown, options, actual_domain_id, domain_id, node_count,
  mutex,        \* who holds initialization_mutex
  nodes,        \* the nodes the application has
  ppant,        \* "none", "up", or "lost": deleted with the domain
  made,         \* which of common.pub, common.sub, graph_guard_condition exist
  callback,     \* the graph cache has an on_change callback
  \* the discovery thread of a context
  thread_is_running,
  listener_gc,  \* listener_thread_gc: "none", "armed" or "triggered"
  thread,       \* where the thread is
  waitset,      \* waitsets it has created and not deleted
  news,         \* a reader it listens to has data
  \* gcdds().domains, and the domains of Cyclone made by dds_create_domain
  entry, refcount, discovery_options, domain_handle,
  \* threads in rmw_create_node or rmw_destroy_node: where, on which context
  pc, on

ctx  == <<open, is_shutdown, options, actual_domain_id>>
ents == <<ppant, made, callback>>
disc == <<thread_is_running, listener_gc, thread, waitset, news>>
doms == <<entry, refcount, discovery_options, domain_handle>>
vars == <<ctx, domain_id, node_count, mutex, nodes, ents, disc, doms, pc, on>>

AnyContext == CHOOSE c \in Contexts : TRUE
AnyDomain  == CHOOSE d \in Domains : TRUE
AnyOptions == CHOOSE o \in Options : TRUE
Fail(what) == what \in Failures    \* may this call fail in this instance?

Init ==
  /\ open = {} /\ is_shutdown = [c \in Contexts |-> FALSE]
  /\ options = [c \in Contexts |-> AnyOptions]
  /\ actual_domain_id = [c \in Contexts |-> AnyDomain]
  /\ domain_id = [c \in Contexts |-> NoDomain]
  /\ node_count = [c \in Contexts |-> 0] /\ nodes = [c \in Contexts |-> 0]
  /\ mutex = [c \in Contexts |-> NoOne]
  /\ ppant = [c \in Contexts |-> "none"] /\ made = [c \in Contexts |-> {}]
  /\ callback = [c \in Contexts |-> FALSE]
  /\ thread_is_running = [c \in Contexts |-> FALSE]
  /\ listener_gc = [c \in Contexts |-> "none"]
  /\ thread = [c \in Contexts |-> "none"]
  /\ waitset = [c \in Contexts |-> FALSE] /\ news = [c \in Contexts |-> FALSE]
  /\ entry = {} /\ refcount = [d \in Domains |-> 0]
  /\ discovery_options = [d \in Domains |-> AnyOptions]
  /\ domain_handle = [d \in Domains |-> FALSE]
  /\ pc = [t \in Threads |-> "idle"]
  /\ on = [t \in Threads |-> AnyContext]

Goto(t, from, to) == pc[t] = from /\ pc' = [pc EXCEPT ![t] = to]
Unlock(c) == mutex' = [mutex EXCEPT ![c] = NoOne]
InCall(t, c) == pc[t] # "idle" /\ on[t] = c
CallsOn(c) == {t \in Threads : InCall(t, c)}

(***************************************************************************)
(* rmw_init, rmw_shutdown, rmw_context_fini.                               *)
(***************************************************************************)
RmwInit(c, d, o) ==
  /\ c \notin open
  /\ open' = open \cup {c}
  /\ is_shutdown' = [is_shutdown EXCEPT ![c] = FALSE]
  /\ options' = [options EXCEPT ![c] = o]
  /\ actual_domain_id' = [actual_domain_id EXCEPT ![c] = d]
  /\ domain_id' = [domain_id EXCEPT ![c] = NoDomain]
  /\ node_count' = [node_count EXCEPT ![c] = 0]
  /\ UNCHANGED <<mutex, nodes, ents, disc, doms, pc, on>>

RmwShutdown(c) ==
  /\ c \in open /\ ~is_shutdown[c]
  /\ is_shutdown' = [is_shutdown EXCEPT ![c] = TRUE]
  /\ UNCHANGED <<open, options, actual_domain_id, domain_id, node_count, mutex,
                 nodes, ents, disc, doms, pc, on>>

\* the application has destroyed its nodes and has no call in progress: the
\* destructor only complains, on stderr, if it has not
RmwContextFini(c) ==
  /\ c \in open /\ is_shutdown[c]
  /\ nodes[c] = 0 /\ CallsOn(c) = {}
  /\ open' = open \ {c}
  /\ is_shutdown' = [is_shutdown EXCEPT ![c] = FALSE]
  /\ options' = [options EXCEPT ![c] = AnyOptions]
  /\ actual_domain_id' = [actual_domain_id EXCEPT ![c] = AnyDomain]
  /\ domain_id' = [domain_id EXCEPT ![c] = NoDomain]
  /\ UNCHANGED <<node_count, mutex, nodes, ents, disc, doms, pc, on>>

(***************************************************************************)
(* rmw_create_node and rmw_context_impl_s::init.                           *)
(***************************************************************************)
RmwCreateNode(t, c) ==
  /\ c \in open /\ ~is_shutdown[c]
  /\ nodes[c] + Cardinality(CallsOn(c)) < MaxNodes       \* bound
  /\ Goto(t, "idle", "init") /\ on' = [on EXCEPT ![t] = c]
  /\ UNCHANGED <<ctx, domain_id, node_count, mutex, nodes, ents, disc, doms>>

\* "initialization has already been done"
InitAgain(t) ==
  LET c == on[t] IN
  /\ mutex[c] = NoOne /\ node_count[c] # 0
  /\ node_count' = [node_count EXCEPT ![c] = @ + 1]
  /\ Goto(t, "init", "named")
  /\ UNCHANGED <<ctx, domain_id, mutex, nodes, ents, disc, doms, on>>

InitFirst(t) ==
  LET c == on[t] IN
  /\ mutex[c] = NoOne /\ node_count[c] = 0
  /\ mutex' = [mutex EXCEPT ![c] = t]
  /\ domain_id' = [domain_id EXCEPT ![c] = actual_domain_id[c]]
  /\ Goto(t, "init", "domain")
  /\ UNCHANGED <<ctx, node_count, nodes, ents, disc, doms, on>>

\* the end of a call: AnyContext is what on holds when idle
Leave(t, from) == Goto(t, from, "idle") /\ on' = [on EXCEPT ![t] = AnyContext]

\* check_create_domain, under domains_lock: the domain is there ...
Shares(d, o) == discovery_options[d] = o        \* rmw_discovery_options_equal
JoinDomain(t) ==
  LET c == on[t]  d == domain_id[c] IN
  /\ Goto(t, "domain", "ppant")
  /\ refcount[d] # 0 /\ Shares(d, options[c])
  /\ refcount' = [refcount EXCEPT ![d] = @ + 1]
  /\ UNCHANGED <<ctx, domain_id, node_count, mutex, nodes, ents, disc, entry,
                 discovery_options, domain_handle, on>>

RefuseCleansUp(t) ==             \* (a variant that gets it wrong)
  /\ Goto(t, "domain", "stop")
  /\ refcount[domain_id[on[t]]] # 0 /\ ~Shares(domain_id[on[t]], options[on[t]])
  /\ UNCHANGED <<ctx, domain_id, node_count, mutex, nodes, ents, disc, doms, on>>
\* ... "with different discovery parameters" ...
RefuseDomain(t) ==
  LET c == on[t]  d == domain_id[c] IN
  /\ Leave(t, "domain") /\ Unlock(c)
  /\ refcount[d] # 0 /\ ~Shares(d, options[c])
  /\ UNCHANGED <<ctx, domain_id, node_count, nodes, ents, disc, doms>>

\* ... or not yet
MakeDomain(t) ==
  LET c == on[t]  d == domain_id[c] IN
  /\ Goto(t, "domain", "ppant")
  /\ refcount[d] = 0 /\ options[c] # NotSet
  /\ entry' = entry \cup {d}
  /\ refcount' = [refcount EXCEPT ![d] = 1]
  /\ discovery_options' = [discovery_options EXCEPT ![d] = options[c]]
  /\ domain_handle' = [domain_handle EXCEPT ![d] = TRUE]
  /\ UNCHANGED <<ctx, domain_id, node_count, mutex, nodes, ents, disc, on>>

\* "automatic discovery range must be set": the entry stays, with a reference
MakeDomainNotSet(t) ==
  LET c == on[t]  d == domain_id[c] IN
  /\ Leave(t, "domain") /\ Unlock(c)
  /\ refcount[d] = 0 /\ options[c] = NotSet
  /\ entry' = entry \cup {d}
  /\ refcount' = [refcount EXCEPT ![d] = 1]
  /\ discovery_options' = [discovery_options EXCEPT ![d] = options[c]]
  /\ UNCHANGED <<ctx, domain_id, node_count, nodes, ents, disc, domain_handle>>

\* no CYCLONEDDS_URI, or dds_create_domain fails: the entry is erased
MakeDomainFails(t) ==
  LET c == on[t]  d == domain_id[c] IN
  /\ Leave(t, "domain") /\ Unlock(c)
  /\ Fail("domain") /\ refcount[d] = 0 /\ options[c] # NotSet
  /\ entry' = entry \ {d}
  /\ UNCHANGED <<ctx, domain_id, node_count, nodes, ents, disc, refcount,
                 discovery_options, domain_handle>>

FailsWithoutCleanUp(t, at) ==    \* (a variant that gets it wrong)
  /\ Fail(at) /\ Leave(t, at) /\ Unlock(on[t])
  /\ UNCHANGED <<ctx, domain_id, node_count, nodes, ents, disc, doms>>
\* a failure in init from here on: clean_up, then the error is returned
InitFails(t, at) ==
  /\ Fail(at) /\ Goto(t, at, "stop")
  /\ UNCHANGED <<ctx, domain_id, node_count, mutex, nodes, ents, disc, doms, on>>

\* dds_create_participant, with the built-in readers, dds_pub and dds_sub
CreateParticipant(t) ==
  /\ Goto(t, "ppant", "pub")
  /\ ppant' = [ppant EXCEPT ![on[t]] = "up"]
  /\ UNCHANGED <<ctx, domain_id, node_count, mutex, nodes, made, callback, disc,
                 doms, on>>

\* the same, when one of the readers, dds_pub or dds_sub cannot be created
CreateReadersFail(t) ==
  /\ Fail("ppant") /\ Goto(t, "ppant", "stop")
  /\ ppant' = [ppant EXCEPT ![on[t]] = "up"]
  /\ UNCHANGED <<ctx, domain_id, node_count, mutex, nodes, made, callback, disc,
                 doms, on>>

\* common.pub, then common.sub
CreateEndpoint(t, what, then) ==
  /\ Goto(t, what, then)
  /\ made' = [made EXCEPT ![on[t]] = @ \cup {what}]
  /\ UNCHANGED <<ctx, domain_id, node_count, mutex, nodes, ppant, callback, disc,
                 doms, on>>

\* graph_guard_condition, with the callback of the graph cache that uses it
CreateGraphGuard(t) ==
  /\ Goto(t, "gc", "start")
  /\ made' = [made EXCEPT ![on[t]] = @ \cup {"gc"}]
  /\ callback' = [callback EXCEPT ![on[t]] = TRUE]
  /\ UNCHANGED <<ctx, domain_id, node_count, mutex, nodes, ppant, disc, doms, on>>

\* discovery_thread_start, and the count of this node.  When it fails
\* (InitFails at "start") it has undone what it did.
DiscoveryThreadStart(t) ==
  LET c == on[t] IN
  /\ Goto(t, "start", "count")
  /\ thread_is_running' = [thread_is_running EXCEPT ![c] = TRUE]
  /\ listener_gc' = [listener_gc EXCEPT ![c] = "armed"]
  /\ thread' = [thread EXCEPT ![c] = "setup"]
  /\ UNCHANGED <<ctx, domain_id, node_count, mutex, nodes, ents, waitset, news,
                 doms, on>>

NotCounted(t) ==                 \* (a variant that gets it wrong)
  /\ Goto(t, "count", "named") /\ Unlock(on[t])
  /\ UNCHANGED <<ctx, domain_id, node_count, nodes, ents, disc, doms, on>>
InitDone(t) ==
  LET c == on[t] IN
  /\ node_count' = [node_count EXCEPT ![c] = @ + 1]
  /\ Goto(t, "count", "named") /\ Unlock(c)
  /\ UNCHANGED <<ctx, domain_id, nodes, ents, disc, doms, on>>

\* the rest of rmw_create_node: the node is allocated and added to the graph
NodeCreated(t) ==
  /\ Leave(t, "named")
  /\ nodes' = [nodes EXCEPT ![on[t]] = @ + 1]
  /\ UNCHANGED <<ctx, domain_id, node_count, mutex, ents, disc, doms>>

\* ... or not, and finalize_context calls fini
NodeKept(t) == Leave(t, "named")           \* (a variant that gets it wrong)
FiniOnFailure(t) == Goto(t, "named", "fini") /\ on' = on
NodeFails(t) ==
  /\ Fail("node") /\ FiniOnFailure(t)
  /\ UNCHANGED <<ctx, domain_id, node_count, mutex, nodes, ents, disc, doms>>

(***************************************************************************)
(* rmw_destroy_node, rmw_context_impl_s::fini and clean_up.                *)
(***************************************************************************)
RmwDestroyNode(t, c) ==
  /\ nodes[c] > 0
  /\ nodes' = [nodes EXCEPT ![c] = @ - 1]
  /\ Goto(t, "idle", "fini") /\ on' = [on EXCEPT ![t] = c]
  /\ UNCHANGED <<ctx, domain_id, node_count, mutex, ents, disc, doms>>

FiniNotLast(t) ==
  LET c == on[t] IN
  /\ mutex[c] = NoOne /\ node_count[c] # 1
  /\ node_count' = [node_count EXCEPT ![c] = @ - 1]
  /\ Leave(t, "fini")
  /\ UNCHANGED <<ctx, domain_id, mutex, nodes, ents, disc, doms>>

FiniLast(t) ==
  LET c == on[t] IN
  /\ mutex[c] = NoOne /\ node_count[c] = 1
  /\ mutex' = [mutex EXCEPT ![c] = t]
  /\ node_count' = [node_count EXCEPT ![c] = 0]
  /\ Goto(t, "fini", "stop")
  /\ UNCHANGED <<ctx, domain_id, nodes, ents, disc, doms, on>>

\* discovery_thread_stop: thread_is_running.exchange(false), then trigger the
\* thread's guard condition, join it and destroy the guard condition
DiscoveryThreadStop(t) ==
  LET c == on[t] IN
  /\ pc[t] = "stop"
  /\ pc' = [pc EXCEPT ![t] = IF thread_is_running[c] THEN "trigger" ELSE "clear"]
  /\ thread_is_running' = [thread_is_running EXCEPT ![c] = FALSE]
  /\ UNCHANGED <<ctx, domain_id, node_count, mutex, nodes, ents, listener_gc,
                 thread, waitset, news, doms, on>>

NotTriggered(c) == listener_gc' = listener_gc  \* (a variant that gets it wrong)
Triggered(c) == listener_gc' = [listener_gc EXCEPT ![c] = "triggered"]
TriggerListener(t) ==
  /\ Goto(t, "trigger", "join")
  /\ Triggered(on[t])
  /\ UNCHANGED <<ctx, domain_id, node_count, mutex, nodes, ents,
                 thread_is_running, thread, waitset, news, doms, on>>

Detached(c) == TRUE              \* (a variant that gets it wrong)
Joinable(c) == thread[c] = "done"
JoinThread(t) ==
  LET c == on[t] IN
  /\ Joinable(c)
  /\ Goto(t, "join", "clear")
  /\ thread' = [thread EXCEPT ![c] = IF @ = "done" THEN "none" ELSE @]
  /\ listener_gc' = [listener_gc EXCEPT ![c] = "none"]
  /\ UNCHANGED <<ctx, domain_id, node_count, mutex, nodes, ents,
                 thread_is_running, waitset, news, doms, on>>

\* the callback of the graph cache, before the guard condition it triggers
ClearCallback(t) ==
  /\ Goto(t, "clear", "unguard")
  /\ callback' = [callback EXCEPT ![on[t]] = FALSE]
  /\ UNCHANGED <<ctx, domain_id, node_count, mutex, nodes, ppant, made, disc,
                 doms, on>>

\* then, each if it was made: the graph guard condition, common.pub (with
\* publish_callback, which uses it) and common.sub
DestroyMade(t, from, what, then) ==
  /\ Goto(t, from, then)
  /\ made' = [made EXCEPT ![on[t]] = @ \ {what}]
  /\ UNCHANGED <<ctx, domain_id, node_count, mutex, nodes, ppant, callback, disc,
                 doms, on>>

DeleteParticipant(t) ==
  LET c == on[t] IN
  /\ Goto(t, "delete", "release")
  /\ ppant' = [ppant EXCEPT ![c] = "none"]
  /\ news' = [news EXCEPT ![c] = FALSE]
  /\ UNCHANGED <<ctx, domain_id, node_count, mutex, nodes, made, callback,
                 thread_is_running, listener_gc, thread, waitset, doms, on>>

\* check_destroy_domain, not the last reference ...
LeaveDomain(t) ==
  LET c == on[t]  d == domain_id[c] IN
  /\ Leave(t, "release") /\ Unlock(c)
  /\ refcount[d] # 1
  /\ refcount' = [refcount EXCEPT ![d] = @ - 1]
  /\ UNCHANGED <<ctx, domain_id, node_count, nodes, ents, disc, entry,
                 discovery_options, domain_handle>>

\* ... or the last one: Cyclone deletes every participant in the domain, if
\* it was made with dds_create_domain
DestroyDomain(t) ==
  LET c == on[t]  d == domain_id[c] IN
  /\ Leave(t, "release") /\ Unlock(c)
  /\ refcount[d] = 1
  /\ refcount' = [refcount EXCEPT ![d] = 0]
  /\ entry' = entry \ {d}
  /\ domain_handle' = [domain_handle EXCEPT ![d] = FALSE]
  /\ ppant' = [x \in Contexts |->
       IF domain_handle[d] /\ domain_id[x] = d /\ ppant[x] = "up"
         THEN "lost" ELSE ppant[x]]
  /\ UNCHANGED <<ctx, domain_id, node_count, nodes, made, callback, disc,
                 discovery_options>>

(***************************************************************************)
(* discovery_thread, one per context with nodes.                           *)
(***************************************************************************)
Move(c, from, to) == thread[c] = from /\ thread' = [thread EXCEPT ![c] = to]
AllButThread == <<ctx, domain_id, node_count, mutex, nodes, ents,
                  thread_is_running, listener_gc, doms, pc, on>>

SetUp(c) ==
  /\ Move(c, "setup", "check")
  /\ waitset' = [waitset EXCEPT ![c] = TRUE]
  /\ UNCHANGED <<AllButThread, news>>

\* no waitset, or one that cannot be attached to, which is deleted; the one
\* left when a status mask is refused is not
SetUpFails(c) ==
  /\ Fail("setup") /\ Move(c, "setup", "done")
  /\ \/ UNCHANGED waitset
     \/ waitset' = [waitset EXCEPT ![c] = TRUE]
  /\ UNCHANGED <<AllButThread, news>>

CheckRunning(c) ==
  /\ IF thread_is_running[c]
       THEN Move(c, "check", "wait") /\ UNCHANGED waitset
       ELSE Move(c, "check", "done") /\ waitset' = [waitset EXCEPT ![c] = FALSE]
  /\ UNCHANGED <<AllButThread, news>>

\* the guard condition stays triggered: nobody takes it
WakeUp(c) ==
  /\ listener_gc[c] = "triggered" \/ news[c]
  /\ Move(c, "wait", "handle")
  /\ UNCHANGED <<AllButThread, waitset, news>>

WaitFails(c) ==
  /\ Fail("wait") /\ Move(c, "wait", "done")
  /\ UNCHANGED <<AllButThread, waitset, news>>

\* the handlers take what the readers have and update the graph cache
Handle(c) ==
  /\ Move(c, "handle", "check")
  /\ news' = [news EXCEPT ![c] = FALSE]
  /\ UNCHANGED <<AllButThread, waitset>>

NewsArrives(c) ==
  /\ ppant[c] = "up" /\ ~news[c]
  /\ news' = [news EXCEPT ![c] = TRUE]
  /\ UNCHANGED <<AllButThread, thread, waitset>>

(***************************************************************************)
(* The specification.                                                      *)
(***************************************************************************)
LockStep(t) == InitAgain(t) \/ InitFirst(t) \/ FiniNotLast(t) \/ FiniLast(t)
InitStep(t) ==
  \/ JoinDomain(t) \/ RefuseDomain(t)
  \/ MakeDomain(t) \/ MakeDomainNotSet(t) \/ MakeDomainFails(t)
  \/ CreateParticipant(t) \/ CreateReadersFail(t)
  \/ CreateEndpoint(t, "pub", "sub") \/ CreateEndpoint(t, "sub", "gc")
  \/ CreateGraphGuard(t) \/ DiscoveryThreadStart(t) \/ InitDone(t)
  \/ \E at \in {"ppant", "pub", "sub", "gc", "start"} : InitFails(t, at)
  \/ NodeCreated(t) \/ NodeFails(t)
CleanUpStep(t) ==
  \/ DiscoveryThreadStop(t) \/ TriggerListener(t) \/ JoinThread(t)
  \/ ClearCallback(t) \/ DestroyMade(t, "unguard", "gc", "unpub")
  \/ DestroyMade(t, "unpub", "pub", "unsub") \/ DestroyMade(t, "unsub", "sub", "delete")
  \/ DeleteParticipant(t)
  \/ LeaveDomain(t) \/ DestroyDomain(t)
DiscoveryStep(c) ==
  \/ SetUp(c) \/ SetUpFails(c) \/ CheckRunning(c)
  \/ WakeUp(c) \/ WaitFails(c) \/ Handle(c)

Next ==
  \/ \E c \in Contexts :
       \/ \E d \in Domains, o \in Options : RmwInit(c, d, o)
       \/ RmwShutdown(c) \/ RmwContextFini(c)
       \/ NewsArrives(c) \/ DiscoveryStep(c)
  \/ \E t \in Threads :
       \/ \E c \in Contexts : RmwCreateNode(t, c) \/ RmwDestroyNode(t, c)
       \/ LockStep(t) \/ InitStep(t) \/ CleanUpStep(t)

Spec == Init /\ [][Next]_vars

\* a thread inside rmw_create_node or rmw_destroy_node runs on and so does a
\* discovery thread; an initialization_mutex is not fair, but a thread blocked
\* on it is not passed over for ever
Fairness ==
  /\ \A t \in Threads : WF_vars(InitStep(t) \/ CleanUpStep(t)) /\ SF_vars(LockStep(t))
  /\ \A c \in Contexts : WF_vars(DiscoveryStep(c))
FairSpec == Spec /\ Fairness

(***************************************************************************)
(* Properties.                                                             *)
(***************************************************************************)
InitPCs    == {"domain", "ppant", "pub", "sub", "gc", "start", "count"}
CleanUpPCs == {"stop", "trigger", "join", "clear", "unguard", "unpub", "unsub",
               "delete", "release"}
PCs == {"idle", "init", "named", "fini"} \cup InitPCs \cup CleanUpPCs

\* every variable has its type
TypeOK ==
  /\ open \subseteq Contexts /\ is_shutdown \in [Contexts -> BOOLEAN]
  /\ options \in [Contexts -> Options] /\ actual_domain_id \in [Contexts -> Domains]
  /\ domain_id \in [Contexts -> Domains \cup {NoDomain}]
  /\ node_count \in [Contexts -> Nat] /\ nodes \in [Contexts -> Nat]
  /\ mutex \in [Contexts -> Threads \cup {NoOne}]
  /\ ppant \in [Contexts -> {"none", "up", "lost"}]
  /\ made \in [Contexts -> SUBSET {"pub", "sub", "gc"}]
  /\ callback \in [Contexts -> BOOLEAN] /\ thread_is_running \in [Contexts -> BOOLEAN]
  /\ listener_gc \in [Contexts -> {"none", "armed", "triggered"}]
  /\ thread \in [Contexts -> {"none", "setup", "check", "wait", "handle", "done"}]
  /\ waitset \in [Contexts -> BOOLEAN] /\ news \in [Contexts -> BOOLEAN]
  /\ entry \subseteq Domains /\ refcount \in [Domains -> Nat]
  /\ discovery_options \in [Domains -> Options]
  /\ domain_handle \in [Domains -> BOOLEAN]
  /\ pc \in [Threads -> PCs] /\ on \in [Threads -> Contexts]

\* the contexts that hold a reference to domain d: those with nodes, and those
\* a thread is building up or taking down
Holding == {"ppant", "pub", "sub", "gc", "start", "count"} \cup CleanUpPCs
Holds(c, d) ==
  /\ domain_id[c] = d
  /\ node_count[c] > 0 \/ \E t \in Threads : on[t] = c /\ pc[t] \in Holding
Holders(d) == {c \in Contexts : Holds(c, d)}

\* gcdds().domains counts the contexts in a domain, whatever fails on the way:
\* check_create_domain says "true: n_nodes incremented ...  false: n_nodes
\* unchanged".  It does if all contexts have a discovery range; one without it
\* is refused and the reference taken for it stays
RefcountExact ==
  \A d \in Domains :
    /\ refcount[d] = Cardinality(Holders(d))
    /\ d \in entry <=> Holders(d) # {}
    /\ domain_handle[d] <=> d \in entry

\* what is true of it for all contexts: every context in a domain is counted
\* once, whatever fails on the way, an entry goes with its last reference, and
\* the only references that nobody holds are those taken for a discovery range
\* that is not set, one in each domain that was never made
Stranded(d) == d \in entry /\ ~domain_handle[d]
Unreturned(d) == IF Stranded(d) THEN 1 ELSE 0
RefcountCovers ==
  \A d \in Domains :
    /\ refcount[d] = Cardinality(Holders(d)) + Unreturned(d)
    /\ d \in entry <=> refcount[d] # 0
    /\ domain_handle[d] => d \in entry
    /\ Stranded(d) => discovery_options[d] = NotSet

\* contexts that share a domain do not harm each other: none's participant is
\* deleted by another that takes down what it believes to be an unused domain,
\* and all were asked for the same options ("Discovery parameters must match")
DomainSharedSafely ==
  \A c \in Contexts :
    /\ ppant[c] # "lost"
    /\ \A b \in Contexts :
         ppant[b] = "up" /\ ppant[c] = "up" /\ domain_id[b] = domain_id[c]
           => options[b] = options[c]

\* the discovery thread never outlives the entities it waits on nor finds the
\* graph cache without its callback, and the callback, whoever runs it, never
\* outlives the guard condition it triggers
ThreadUsesLive ==
  \A c \in Contexts :
    /\ thread[c] \notin {"none", "done"} =>
         /\ ppant[c] = "up" /\ "sub" \in made[c]
         /\ listener_gc[c] # "none" /\ callback[c]
    /\ callback[c] => "gc" \in made[c]

\* a context without nodes, with nobody working on it, has nothing left: not
\* after the last node, and not after a first node that failed half-way
EverythingResets ==
  \A c \in Contexts : nodes[c] = 0 /\ CallsOn(c) = {} =>
    /\ node_count[c] = 0 /\ mutex[c] = NoOne
    /\ ppant[c] = "none" /\ made[c] = {} /\ ~callback[c]
    /\ ~thread_is_running[c] /\ thread[c] = "none" /\ listener_gc[c] = "none"

\* rmw_create_node and rmw_destroy_node come back: the discovery thread is
\* always told to stop, and joined, while the mutex is held
CallsEnd == \A t \in Threads : pc[t] # "idle" ~> pc[t] = "idle"
=============================================================================
