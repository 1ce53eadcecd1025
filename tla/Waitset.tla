------------------------------ MODULE Waitset ------------------------------
(***************************************************************************)
(* rmw_wait and what it shares with the rest of rmw_node.cpp: the global   *)
(* registry of waitsets (gcdds().waitsets, gcdds().lock and the guard      *)
(* condition for empty waitsets), the entities each CddsWaitset caches and *)
(* keeps attached between two calls, and the destruction of entities,      *)
(* which drops them from those caches (clean_waitset_caches).              *)
(*                                                                         *)
(* A C++ object is an address that is allocated, freed and handed out      *)
(* again; a DDS entity is a handle that is never handed out again while    *)
(* somebody remembers it.  The caches hold addresses (and, for events,     *)
(* handles), Cyclone's waitset holds handles: what can go wrong is that    *)
(* the two stop agreeing.                                                  *)
(***************************************************************************)
EXTENDS Integers, Sequences, FiniteSets

CONSTANTS WS,           \* addresses of CddsWaitset objects
          Waiters,      \* threads that call rmw_wait
          Destroyers,   \* threads that destroy entities
          Addr,         \* addresses of the other implementation objects
          Handles,      \* dds_entity_t values
          NoHandle,     \* the value 0 (and what a freed object holds)
          NoOne,        \* nobody holds gcdds().lock
          CreatedKinds, \* the kinds of entities the application creates
          EvTypes,      \* rmw_event_type_t
          Supported,    \* the ones mask_map has a DDS status for
          Inconsistent, \* the ones whose status is DDS_INCONSISTENT_TOPIC
          ValidStatus,  \* per kind, the event types its DDS entity supports
          Calls,        \* the argument lists passed to rmw_wait
          MayFail,      \* may attaching the dummy guard condition fail?
          Overlap,      \* may an entity be destroyed while some rmw_wait
                        \*   that was not given it still has it cached?
          Concurrent    \* may rmw_wait be called on a waitset that another
                        \*   thread is still inside rmw_wait with?

Kinds == {"sub", "gc", "srv", "cl", "pub"}
CondKinds == {"sub", "gc", "srv", "cl"}   \* what rmw_wait waits for directly
Free == [kind |-> "free", h |-> NoHandle]

Elems  == [kind : CondKinds, addr : Addr]
EvArgs == [addr : Addr, type : EvTypes]
EvRefs == [h : Handles \cup {NoHandle}, type : EvTypes]

ASSUME KindAssumption    == CreatedKinds \subseteq Kinds
ASSUME NonEmptyAssumption == WS # {} /\ Addr # {}
ASSUME HandleAssumption  == NoHandle \notin Handles
ASSUME ThreadAssumption  == NoOne \notin Destroyers
ASSUME StatusAssumption  == ValidStatus \in [Kinds -> SUBSET EvTypes]
ASSUME SupportAssumption == Supported \subseteq EvTypes /\ Inconsistent \subseteq Supported
ASSUME CallAssumption    ==
  Calls \subseteq [ents : Seq(Elems), evs : Seq(EvArgs), finite : BOOLEAN]
ASSUME ContractAssumption == {MayFail, Overlap, Concurrent} \subseteq BOOLEAN

VARIABLES
  \* the heap and the DDS entities
  obj,       \* Addr -> what is allocated there
  live,      \* the DDS handles that exist
  trig,      \* handles of conditions that are triggered
  status,    \* per handle, the status changes not yet taken
  mask,      \* per handle, its status mask
  \* gcdds()
  waitsets, gc_for_empty_waitset, lock,
  closing,   \* registered waitsets whose rmw_destroy_wait_set has begun
  \* the fields of CddsWaitset
  inuse, ents, evs, nelems, trigs,
  \* Cyclone's waitset: attached conditions with their index, attached
  \* entities (events), the attached dummy guard condition
  attE, attS, attDummy,
  \* threads in rmw_wait: where, on which waitset, with what, reporting what
  pc, cw, args, rep,
  \* threads destroying: where, which object, waitsets still to be cleaned
  dpc, target, todo

heap  == <<obj, live, status, mask>>
cdds  == <<waitsets, gc_for_empty_waitset, closing>>
cwait == <<inuse, ents, evs, nelems, trigs>>
att   == <<attE, attS, attDummy>>
wvars == <<pc, cw, args, rep>>
dvars == <<dpc, target, todo>>
vars  == <<heap, trig, cdds, lock, cwait, att, wvars, dvars>>

NoArgs  == [ents |-> <<>>, evs |-> <<>>, finite |-> TRUE]
NoTrigs == [ents |-> {}, evs |-> {}]
AnyWS   == CHOOSE w \in WS : TRUE      \* what cw and target hold when idle
AnyAddr == CHOOSE a \in Addr : TRUE

(***************************************************************************)
(* Who uses what.                                                          *)
(***************************************************************************)
InCall(t) == pc[t] # "idle"
AddrsOf(a) == {a.ents[i].addr : i \in DOMAIN a.ents}
                \cup {a.evs[i].addr : i \in DOMAIN a.evs}
CachedAddrs(w) == {ents[w][i].addr : i \in DOMAIN ents[w]}
Dying == {target[d] : d \in {e \in Destroyers : dpc[e] # "idle"}}
\* an object the application may still hand to an rmw function
Usable(a) == obj[a] # Free /\ a \notin Dying
\* the handles nobody refers to: Cyclone hands out one of these
FreshHandles ==
  {h \in Handles \ live : \A w \in WS : \A i \in DOMAIN evs[w] : evs[w][i].h # h}

Init ==
  /\ obj = [a \in Addr |-> Free]
  /\ live = {} /\ trig = {}
  /\ status = [h \in Handles |-> {}] /\ mask = [h \in Handles |-> {}]
  /\ waitsets = {} /\ gc_for_empty_waitset = NoHandle /\ closing = {}
  /\ lock = NoOne
  /\ inuse = [w \in WS |-> FALSE]
  /\ ents = [w \in WS |-> <<>>] /\ evs = [w \in WS |-> <<>>]
  /\ nelems = [w \in WS |-> 0] /\ trigs = [w \in WS |-> NoTrigs]
  /\ attE = [w \in WS |-> {}] /\ attS = [w \in WS |-> {}]
  /\ attDummy = [w \in WS |-> NoHandle]
  /\ pc = [t \in Waiters |-> "idle"]
  /\ cw = [t \in Waiters |-> AnyWS]
  /\ args = [t \in Waiters |-> NoArgs]
  /\ rep = [t \in Waiters |-> NoTrigs]
  /\ dpc = [d \in Destroyers |-> "idle"]
  /\ target = [d \in Destroyers |-> AnyAddr]
  /\ todo = [d \in Destroyers |-> {}]

(***************************************************************************)
(* The application and the network: entities appear, data and status       *)
(* changes arrive, guard conditions are triggered, data and events taken.  *)
(***************************************************************************)
\* rmw_create_subscription and its siblings, as far as waiting goes: a new
\* object at a free address, for a new DDS entity
CreateEntity(a, k) ==
  /\ obj[a] = Free
  /\ k \in CreatedKinds
  /\ \E h \in FreshHandles :
       /\ obj' = [obj EXCEPT ![a] = [kind |-> k, h |-> h]]
       /\ live' = live \cup {h}
       /\ status' = [status EXCEPT ![h] = {}]
       /\ mask' = [mask EXCEPT ![h] = ValidStatus[k]]
  /\ UNCHANGED <<trig, cdds, lock, cwait, att, wvars, dvars>>

TriggerGuardCondition(a) ==      \* rmw_trigger_guard_condition
  /\ Usable(a) /\ obj[a].kind = "gc"
  /\ trig' = trig \cup {obj[a].h}
  /\ UNCHANGED <<heap, cdds, lock, cwait, att, wvars, dvars>>

DataArrives(a) ==                \* the read condition of a reader triggers
  /\ obj[a].kind \in {"sub", "srv", "cl"} /\ obj[a].h \in live
  /\ trig' = trig \cup {obj[a].h}
  /\ UNCHANGED <<heap, cdds, lock, cwait, att, wvars, dvars>>

TakeData(a) ==                   \* rmw_take until nothing is left
  /\ Usable(a) /\ obj[a].kind \in {"sub", "srv", "cl"}
  /\ trig' = trig \ {obj[a].h}
  /\ UNCHANGED <<heap, cdds, lock, cwait, att, wvars, dvars>>

StatusChanges(a, ty) ==          \* Cyclone raises a status of the entity
  /\ obj[a].h \in live /\ ty \in ValidStatus[obj[a].kind]
  /\ status' = [status EXCEPT ![obj[a].h] = @ \cup {ty}]
  /\ UNCHANGED <<obj, live, mask, trig, cdds, lock, cwait, att, wvars, dvars>>

TakeEvent(a, ty) ==              \* rmw_take_event
  /\ Usable(a) /\ ty \in status[obj[a].h]
  /\ status' = [status EXCEPT ![obj[a].h] = @ \ {ty}]
  /\ UNCHANGED <<obj, live, mask, trig, cdds, lock, cwait, att, wvars, dvars>>

(***************************************************************************)
(* rmw_create_wait_set, rmw_destroy_wait_set.                              *)
(***************************************************************************)
\* what the constructor and the destructor of CddsWaitset leave behind
ClearStruct(w) ==
  /\ inuse' = [inuse EXCEPT ![w] = FALSE]
  /\ ents' = [ents EXCEPT ![w] = <<>>] /\ evs' = [evs EXCEPT ![w] = <<>>]
  /\ nelems' = [nelems EXCEPT ![w] = 0]
  /\ trigs' = [trigs EXCEPT ![w] = NoTrigs]

\* the guard condition for empty waitsets is created with the first waitset
LazyDummy ==
  IF waitsets = {}
    THEN \E h \in FreshHandles : /\ gc_for_empty_waitset' = h
                                 /\ live' = live \cup {h}
    ELSE UNCHANGED <<gc_for_empty_waitset, live>>

\* the constructor and the section under gcdds().lock
CreateWaitSet(w) ==
  /\ w \notin waitsets /\ lock = NoOne
  /\ LazyDummy
  /\ ClearStruct(w)
  /\ attDummy' = [attDummy EXCEPT ![w] = gc_for_empty_waitset']
  /\ waitsets' = waitsets \cup {w}
  /\ UNCHANGED <<obj, status, mask, trig, closing, lock, attE, attS, wvars, dvars>>

\* fail_attach_dummy: the new waitset is deleted, the guard condition stays
CreateWaitSetFails ==
  /\ MayFail /\ lock = NoOne /\ waitsets # WS
  /\ LazyDummy
  /\ UNCHANGED <<obj, status, mask, trig, waitsets, closing, lock, cwait, att,
                 wvars, dvars>>

\* dds_delete(ws->waitseth), before the lock is taken.  The application has
\* no call of rmw_wait in progress on it and starts none.
DestroyWaitSet(w) ==
  /\ w \in waitsets \ closing
  /\ \A t \in Waiters : ~(InCall(t) /\ cw[t] = w)
  /\ closing' = closing \cup {w}
  /\ attE' = [attE EXCEPT ![w] = {}] /\ attS' = [attS EXCEPT ![w] = {}]
  /\ attDummy' = [attDummy EXCEPT ![w] = NoHandle]
  /\ UNCHANGED <<heap, trig, waitsets, gc_for_empty_waitset, lock, cwait,
                 wvars, dvars>>

\* the last waitset deletes the guard condition for empty waitsets
DropDummyAlways ==               \* (a variant that gets it wrong)
  /\ live' = live \ {gc_for_empty_waitset}
  /\ attDummy' = [v \in WS |-> NoHandle]
  /\ gc_for_empty_waitset' = NoHandle
DropDummy ==
  IF waitsets' = {}
    THEN /\ live' = live \ {gc_for_empty_waitset}
         /\ attDummy' = [v \in WS |-> NoHandle]
         /\ gc_for_empty_waitset' = NoHandle
    ELSE UNCHANGED <<live, attDummy, gc_for_empty_waitset>>

\* the rest: off the registry
EraseWaitSet(w) ==
  /\ w \in closing /\ lock = NoOne
  /\ closing' = closing \ {w}
  /\ waitsets' = waitsets \ {w}
  /\ DropDummy
  /\ ClearStruct(w)
  /\ UNCHANGED <<obj, status, mask, trig, lock, attE, attS, wvars, dvars>>

(***************************************************************************)
(* The helpers of rmw_wait.  Indices count from 1 here, from 0 in the code.*)
(***************************************************************************)
CondAt(e) == obj[e.addr].h       \* x->rdcondh, x->gcondh, ...
EventHandles(es) == {es[i].h : i \in DOMAIN es}
\* the entities gather_event_entities collects: is_event_supported
Gathered(es) == {es[i].h : i \in {j \in DOMAIN es : es[j].type \in Supported}}
Resolve(es) ==                   \* the events as the cache records them
  [i \in DOMAIN es |-> [h |-> obj[es[i].addr].h, type |-> es[i].type]]

\* subs, gcs, srvs and cls are compared pointer by pointer, events by handle
\* and type; entries carry their kind, so one comparison stands for five
RequireReattach(w, a) == ents[w] # a.ents \/ evs[w] # Resolve(a.evs)

\* every dds_waitset_attach of a condition, in order: attaching one a second
\* time fails, and the index is used up all the same
Attachments(es) ==
  {<<CondAt(es[i]), i>> : i \in {j \in DOMAIN es :
      \A k \in 1..(j-1) : CondAt(es[k]) # CondAt(es[j])}}

ForgetsEvents(w) ==              \* (the code before CHANGELOG.rst 4.2.2, #621)
  /\ attE' = [attE EXCEPT ![w] =
       {p \in @ : \A i \in DOMAIN ents[w] : CondAt(ents[w][i]) # p[1]}]
  /\ attS' = attS
  /\ ents' = [ents EXCEPT ![w] = <<>>] /\ evs' = [evs EXCEPT ![w] = <<>>]
  /\ nelems' = [nelems EXCEPT ![w] = 0]
\* waitset_detach: reads the handle of every cached object
WaitsetDetach(w) ==
  /\ attE' = [attE EXCEPT ![w] =
       {p \in @ : \A i \in DOMAIN ents[w] : CondAt(ents[w][i]) # p[1]}]
  /\ attS' = [attS EXCEPT ![w] = @ \ EventHandles(evs[w])]
  /\ ents' = [ents EXCEPT ![w] = <<>>] /\ evs' = [evs EXCEPT ![w] = <<>>]
  /\ nelems' = [nelems EXCEPT ![w] = 0]

\* gather_event_entities: one status mask per entity, over all its events that
\* are supported, without the inconsistent topic status ("should be reenabled
\* when Cyclone supports reporting inconsistent topic as an event")
Maskable == Supported \ Inconsistent
OneEventMask(a, h) ==            \* (a variant that gets it wrong)
  {a.evs[i].type : i \in {j \in DOMAIN a.evs :
     /\ obj[a.evs[j].addr].h = h /\ a.evs[j].type \in Maskable
     /\ \A k \in DOMAIN a.evs : k > j => obj[a.evs[k].addr].h # h}}
MaskFor(a, h) ==
  {a.evs[i].type : i \in {j \in DOMAIN a.evs :
     obj[a.evs[j].addr].h = h /\ a.evs[j].type \in Maskable}}
Settable(a) ==                   \* the handles dds_set_status_mask accepts
  {h \in Gathered(Resolve(a.evs)) :
     \E x \in AddrsOf(a) : obj[x].h = h /\ MaskFor(a, h) \subseteq ValidStatus[obj[x].kind]}
SetMasks(a, H) == mask' = [h \in Handles |-> IF h \in H THEN MaskFor(a, h) ELSE mask[h]]

\* ws->nelems after attaching
TooFewElems(a, H) == Len(a.ents) + Cardinality(H) - 1 \* (a variant that gets it wrong)
NElems(a, H) == Len(a.ents) + Cardinality(H)

\* what dds_waitset_wait returns: the indices of triggered conditions, and
\* the entities with an enabled status raised
Triggered(w) ==
  [ents |-> {p[2] : p \in {q \in attE[w] : q[1] \in trig}},
   evs  |-> {h \in attS[w] : status[h] \cap mask[h] # {}}]

\* std::sort and the sentinel: the returned indices in order, then one that no
\* entry has (the indices of events come after those of all entries)
Ascending(S) ==
  CHOOSE s \in [1..Cardinality(S) -> S] : \A i, j \in DOMAIN s : i < j => s[i] < s[j]
SortedTrigs(w) == Append(Ascending(trigs[w].ents), 0)
\* the walk of rmw_wait over the n entries: trig_idx[i] is the position it has
\* reached in the sorted indices when it looks at entry i
StuckOnGuards(w, es) ==          \* (the code before CHANGELOG.rst 3.0.1, #504)
  LET s == SortedTrigs(w)
      trig_idx[i \in 1..Len(es)] ==
        IF i = 1 THEN 1
        ELSE trig_idx[i-1] +
               (IF s[trig_idx[i-1]] = i - 1 /\ es[i-1].kind # "gc" THEN 1 ELSE 0)
  IN {i \in DOMAIN es : s[trig_idx[i]] = i}
Reported(w, es) ==
  LET s == SortedTrigs(w)
      trig_idx[i \in 1..Len(es)] ==
        IF i = 1 THEN 1
        ELSE trig_idx[i-1] + (IF s[trig_idx[i-1]] = i - 1 THEN 1 ELSE 0)
  IN {i \in DOMAIN es : s[trig_idx[i]] = i}

\* the guard conditions among them, which are reset
TakeAllGuards(es, got) ==        \* (a variant that gets it wrong)
  {CondAt(es[i]) : i \in {j \in DOMAIN es : es[j].kind = "gc"}}
TakenGuards(es, got) ==
  {CondAt(es[i]) : i \in {j \in got : es[j].kind = "gc"}}

(***************************************************************************)
(* rmw_wait, step by step.                                                 *)
(***************************************************************************)
Goto(t, from, to) == pc[t] = from /\ pc' = [pc EXCEPT ![t] = to]

\* what the application owes: its arguments are alive and stay so until the
\* call returns, and the calls it makes are the ones the contract allows
MayCall(w, a) ==
  /\ w \in waitsets \ closing
  /\ \A x \in AddrsOf(a) : Usable(x)
  /\ \A i \in DOMAIN a.ents : obj[a.ents[i].addr].kind = a.ents[i].kind
  /\ \A i \in DOMAIN a.evs : obj[a.evs[i].addr].kind \in {"sub", "pub"}
  /\ ~Overlap => CachedAddrs(w) \cap Dying = {} \/ inuse[w]
  /\ ~Concurrent => \A t \in Waiters : ~(InCall(t) /\ cw[t] = w)

\* "concurrent calls to rmw_wait on a single waitset is not supported"
Reject(t, w, a) ==
  /\ pc[t] = "idle" /\ MayCall(w, a) /\ inuse[w]
  /\ UNCHANGED vars

NoCheck(w) == TRUE               \* (a variant that gets it wrong)
Claimable(w) == ~inuse[w]
Claim(t, w, a) ==
  /\ MayCall(w, a) /\ Claimable(w)
  /\ Goto(t, "idle", "claimed")
  /\ cw' = [cw EXCEPT ![t] = w] /\ args' = [args EXCEPT ![t] = a]
  /\ inuse' = [inuse EXCEPT ![w] = TRUE]
  /\ UNCHANGED <<heap, trig, cdds, lock, ents, evs, nelems, trigs, att, rep, dvars>>

CacheHit(t) ==
  /\ ~RequireReattach(cw[t], args[t])
  /\ Goto(t, "claimed", "blocked")
  /\ UNCHANGED <<heap, trig, cdds, lock, cwait, att, cw, args, rep, dvars>>

Detach(t) ==
  /\ RequireReattach(cw[t], args[t])
  /\ Goto(t, "claimed", "detached")
  /\ WaitsetDetach(cw[t])
  /\ UNCHANGED <<heap, trig, cdds, lock, inuse, trigs, attDummy, cw, args, rep, dvars>>

Attach(t) ==
  LET w == cw[t]  a == args[t]  H == Gathered(Resolve(a.evs)) IN
  /\ H = Settable(a)
  /\ Goto(t, "detached", "blocked")
  /\ ents' = [ents EXCEPT ![w] = a.ents]
  /\ evs' = [evs EXCEPT ![w] = Resolve(a.evs)]
  /\ attE' = [attE EXCEPT ![w] = @ \cup Attachments(a.ents)]
  /\ attS' = [attS EXCEPT ![w] = @ \cup H]
  /\ SetMasks(a, H)
  /\ nelems' = [nelems EXCEPT ![w] = NElems(a, H)]
  /\ UNCHANGED <<obj, live, status, trig, cdds, lock, inuse, trigs, attDummy,
                 cw, args, rep, dvars>>

\* gather_event_entities fails at the first entity that refuses its mask: the
\* conditions are attached and cached, and the call returns without a release
GatherFails(t) ==
  LET w == cw[t]  a == args[t]  H == Gathered(Resolve(a.evs)) IN
  /\ H # Settable(a)
  /\ Goto(t, "detached", "idle")
  /\ ents' = [ents EXCEPT ![w] = a.ents]
  /\ attE' = [attE EXCEPT ![w] = @ \cup Attachments(a.ents)]
  /\ \E done \in SUBSET Settable(a) : SetMasks(a, done)
  /\ cw' = [cw EXCEPT ![t] = AnyWS] /\ args' = [args EXCEPT ![t] = NoArgs]
  /\ UNCHANGED <<obj, live, status, trig, cdds, lock, inuse, evs, nelems, trigs,
                 attS, attDummy, rep, dvars>>

\* dds_waitset_wait returns what is triggered ...
Wake(t) ==
  /\ Triggered(cw[t]) # NoTrigs
  /\ Goto(t, "blocked", "woken")
  /\ trigs' = [trigs EXCEPT ![cw[t]] = Triggered(cw[t])]
  /\ UNCHANGED <<heap, trig, cdds, lock, inuse, ents, evs, nelems, att, cw,
                 args, rep, dvars>>

\* ... or nothing: at the timeout, and at once when nothing is attached
TimeOut(t) ==
  /\ Triggered(cw[t]) = NoTrigs
  /\ \/ args[t].finite
     \/ attE[cw[t]] = {} /\ attS[cw[t]] = {} /\ attDummy[cw[t]] = NoHandle
  /\ Goto(t, "blocked", "woken")
  /\ trigs' = [trigs EXCEPT ![cw[t]] = NoTrigs]
  /\ UNCHANGED <<heap, trig, cdds, lock, inuse, ents, evs, nelems, att, cw,
                 args, rep, dvars>>

\* the argument arrays keep the entries whose index was returned; a reported
\* guard condition is reset; events are looked up afresh (handle_active_events)
Report(t) ==
  LET a == args[t]  got == Reported(cw[t], a.ents) IN
  /\ Goto(t, "woken", "reported")
  /\ rep' = [rep EXCEPT ![t] =
       [ents |-> got,
        evs  |-> {i \in DOMAIN a.evs :
                    a.evs[i].type \in Supported \cap status[obj[a.evs[i].addr].h]}]]
  /\ trig' = trig \ TakenGuards(a.ents, got)
  /\ UNCHANGED <<heap, cdds, lock, cwait, att, cw, args, dvars>>

Release(t) ==
  /\ Goto(t, "reported", "returning")
  /\ inuse' = [inuse EXCEPT ![cw[t]] = FALSE]
  /\ UNCHANGED <<heap, trig, cdds, lock, ents, evs, nelems, trigs, att, cw,
                 args, rep, dvars>>

\* the return code, read from ws->trigs after the release, is not kept
Return(t) ==
  /\ Goto(t, "returning", "idle")
  /\ cw' = [cw EXCEPT ![t] = AnyWS] /\ args' = [args EXCEPT ![t] = NoArgs]
  /\ rep' = [rep EXCEPT ![t] = NoTrigs]
  /\ UNCHANGED <<heap, trig, cdds, lock, cwait, att, dvars>>

(***************************************************************************)
(* Destroying a subscription, guard condition, service, client (or, with   *)
(* no cleaning, a publisher).                                              *)
(***************************************************************************)
\* what the application owes: nobody is waiting for the object, and, unless
\* Overlap, nobody is inside rmw_wait with a waitset that has it cached
MayDestroy(a) ==
  /\ Usable(a)
  /\ \A t \in Waiters : InCall(t) =>
       /\ a \notin AddrsOf(args[t])
       /\ Overlap \/ a \notin CachedAddrs(cw[t])

\* only publishers are destroyed without clean_waitset_caches
GuardsUncleaned(k) == IF k \in {"pub", "gc"} THEN "cleaned" ELSE "lock"   \* (wrong)
SubsUncleaned(k) == IF k \in {"pub", "sub"} THEN "cleaned" ELSE "lock"   \* (wrong)
FirstStep(k) == IF k = "pub" THEN "cleaned" ELSE "lock"
StartDestroy(d, a) ==
  /\ dpc[d] = "idle" /\ MayDestroy(a)
  /\ dpc' = [dpc EXCEPT ![d] = FirstStep(obj[a].kind)]
  /\ target' = [target EXCEPT ![d] = a]
  /\ UNCHANGED <<heap, trig, cdds, lock, cwait, att, wvars, todo>>

\* clean_waitset_caches, under gcdds().lock, one waitset after another
BeginClean(d) ==
  /\ dpc[d] = "lock" /\ lock = NoOne
  /\ lock' = d
  /\ dpc' = [dpc EXCEPT ![d] = "cleaning"]
  /\ todo' = [todo EXCEPT ![d] = waitsets]
  /\ UNCHANGED <<heap, trig, cdds, cwait, att, wvars, target>>

CleanOne(d, w) ==
  /\ dpc[d] = "cleaning" /\ w \in todo[d]
  /\ todo' = [todo EXCEPT ![d] = @ \ {w}]
  /\ IF inuse[w] THEN UNCHANGED <<ents, evs, nelems, attE, attS>>
                 ELSE WaitsetDetach(w)
  /\ UNCHANGED <<heap, trig, cdds, lock, inuse, trigs, attDummy, wvars, dpc, target>>

KeepsLock(d) ==                  \* (a variant that gets it wrong)
  /\ dpc[d] = "cleaning" /\ todo[d] = {}
  /\ dpc' = [dpc EXCEPT ![d] = "cleaned"]
  /\ UNCHANGED <<heap, trig, cdds, lock, cwait, att, wvars, target, todo>>
EndClean(d) ==
  /\ dpc[d] = "cleaning" /\ todo[d] = {}
  /\ dpc' = [dpc EXCEPT ![d] = "cleaned"]
  /\ lock' = NoOne
  /\ UNCHANGED <<heap, trig, cdds, cwait, att, wvars, target, todo>>

\* dds_delete: Cyclone drops a deleted entity from every waitset
DeleteEntity(d) ==
  LET h == obj[target[d]].h IN
  /\ dpc[d] = "cleaned"
  /\ dpc' = [dpc EXCEPT ![d] = "deleted"]
  /\ live' = live \ {h} /\ trig' = trig \ {h}
  /\ status' = [status EXCEPT ![h] = {}] /\ mask' = [mask EXCEPT ![h] = {}]
  /\ attE' = [w \in WS |-> {p \in attE[w] : p[1] # h}]
  /\ attS' = [w \in WS |-> attS[w] \ {h}]
  /\ UNCHANGED <<obj, cdds, lock, cwait, attDummy, wvars, target, todo>>

FreeObject(d) ==                 \* delete sub, delete gcond_impl, ...
  /\ dpc[d] = "deleted"
  /\ dpc' = [dpc EXCEPT ![d] = "idle"]
  /\ obj' = [obj EXCEPT ![target[d]] = Free]
  /\ target' = [target EXCEPT ![d] = AnyAddr]
  /\ UNCHANGED <<live, status, mask, trig, cdds, lock, cwait, att, wvars, todo>>

(***************************************************************************)
(* The specification.                                                      *)
(***************************************************************************)
EntityStep == \E a \in Addr :
  \/ \E k \in Kinds : CreateEntity(a, k)
  \/ TriggerGuardCondition(a) \/ DataArrives(a) \/ TakeData(a)
  \/ \E ty \in EvTypes : StatusChanges(a, ty) \/ TakeEvent(a, ty)
WaitSetStep ==
  \/ \E w \in WS : CreateWaitSet(w) \/ DestroyWaitSet(w) \/ EraseWaitSet(w)
  \/ CreateWaitSetFails
CallStep(t) == \E w \in WS, a \in Calls : Claim(t, w, a) \/ Reject(t, w, a)
WaitStep(t) ==
  \/ CacheHit(t) \/ Detach(t) \/ Attach(t) \/ GatherFails(t)
  \/ Wake(t) \/ TimeOut(t) \/ Report(t) \/ Release(t) \/ Return(t)
DestroyStep(d) ==
  \/ BeginClean(d) \/ \E w \in WS : CleanOne(d, w)
  \/ EndClean(d) \/ DeleteEntity(d) \/ FreeObject(d)

Next ==
  \/ EntityStep \/ WaitSetStep
  \/ \E t \in Waiters : CallStep(t) \/ WaitStep(t)
  \/ \E d \in Destroyers : (\E a \in Addr : StartDestroy(d, a)) \/ DestroyStep(d)

Spec == Init /\ [][Next]_vars

\* A thread inside rmw_wait or a destroy runs on; nobody is obliged to call.
\* gcdds().lock is not fair, so its acquisition needs strong fairness: the
\* lock is never held for ever, and a blocked thread is not passed over for ever
Fairness ==
  /\ \A t \in Waiters : WF_vars(WaitStep(t))
  /\ \A d \in Destroyers : WF_vars(DestroyStep(d)) /\ SF_vars(BeginClean(d))
FairSpec == Spec /\ Fairness

(***************************************************************************)
(* What the contract of rmw_wait is, refined by this module.               *)
(***************************************************************************)
Asked(t) == {CondAt(args[t].ents[i]) : i \in DOMAIN args[t].ents}
Told(t)  == {CondAt(args[t].ents[i]) : i \in Reported(cw[t], args[t].ents)}
Contract == INSTANCE WaitContract WITH
  Threads <- Waiters, Conditions <- Handles, on <- trig,
  phase <- [t \in Waiters |->
              CASE pc[t] \in {"claimed", "detached", "blocked"} -> "waiting"
                [] pc[t] = "woken" -> "woken"
                [] OTHER -> "out"],
  asked <- [t \in Waiters |->
              IF pc[t] \in {"claimed", "detached", "blocked"} THEN Asked(t) ELSE {}],
  told  <- [t \in Waiters |-> IF pc[t] = "woken" THEN Told(t) ELSE {}]

\* rmw_wait keeps the promise of WaitContract, whatever it caches: the entries
\* it leaves in the argument arrays are exactly the ones triggered at one
\* instant of the call, and a call whose entity stays triggered comes back
WaitImplementsContract == Contract!FairSpec

(***************************************************************************)
(* Properties.                                                             *)
(***************************************************************************)
PCs  == {"idle", "claimed", "detached", "blocked", "woken", "reported", "returning"}
DPCs == {"idle", "lock", "cleaning", "cleaned", "deleted"}
Objects == [kind : Kinds, h : Handles] \cup {Free}
ArgSet == Calls \cup {NoArgs}
AnyHandle == Handles \cup {NoHandle}
TrigSet == [ents : SUBSET Nat, evs : SUBSET AnyHandle]

\* every variable has its type
TypeOK ==
  /\ obj \in [Addr -> Objects]
  /\ live \subseteq Handles /\ trig \subseteq AnyHandle
  /\ status \in [Handles -> SUBSET EvTypes] /\ mask \in [Handles -> SUBSET EvTypes]
  /\ waitsets \subseteq WS /\ closing \subseteq waitsets
  /\ gc_for_empty_waitset \in AnyHandle
  /\ lock \in Destroyers \cup {NoOne}
  /\ inuse \in [WS -> BOOLEAN]
  /\ ents \in [WS -> Seq(Elems)] /\ evs \in [WS -> Seq(EvRefs)]
  /\ nelems \in [WS -> Nat] /\ trigs \in [WS -> TrigSet]
  /\ attE \in [WS -> SUBSET (AnyHandle \X Nat)] /\ attS \in [WS -> SUBSET AnyHandle]
  /\ attDummy \in [WS -> AnyHandle]
  /\ pc \in [Waiters -> PCs] /\ cw \in [Waiters -> WS]
  /\ args \in [Waiters -> ArgSet]
  /\ rep \in [Waiters -> [ents : SUBSET Nat, evs : SUBSET Nat]]
  /\ dpc \in [Destroyers -> DPCs] /\ target \in [Destroyers -> Addr]
  /\ todo \in [Destroyers -> SUBSET WS]

Busy(t) == pc[t] \notin {"idle", "returning"}
Claimed(w) == \E t \in Waiters : pc[t] = "claimed" /\ cw[t] = w
\* every cached pointer points to an object of the kind it was cached as
Sound(w) == \A i \in DOMAIN ents[w] : obj[ents[w][i].addr].kind = ents[w][i].kind

\* waitset_detach follows every cached pointer: none of them may point to
\* freed memory or to another kind of object when it can next run, in an
\* rmw_wait that has claimed the waitset or in clean_waitset_caches, which
\* "drops all cached entities from all waitsets" for that
CacheNeverDangles ==
  \A w \in waitsets : ~inuse[w] \/ Claimed(w) => Sound(w)

\* clean_waitset_caches never follows a dangling pointer, nor does the next
\* rmw_wait find one when it claims the waitset: even if entities that other
\* waitsets have cached are destroyed while rmw_wait runs on those (an rmw_wait
\* that has claimed its waitset already is another matter, see CacheNeverDangles)
SweepNeverDangles ==
  \A w \in waitsets : ~inuse[w] => Sound(w)

\* a blocked rmw_wait is attached to exactly the entities it was given, each
\* under the index the report uses, although it may not have attached anything
\* itself: the comparison with the cache is by address and addresses recur; and
\* ws->trigs has room for all of them and the dummy guard condition
AttachedAreArgs ==
  \A t \in Waiters : pc[t] = "blocked" =>
    /\ attE[cw[t]] = Attachments(args[t].ents)
    /\ attS[cw[t]] = Gathered(Resolve(args[t].evs))
    /\ Cardinality(attE[cw[t]]) + Cardinality(attS[cw[t]]) <= nelems[cw[t]] + 1

\* a waitset is worked on by one rmw_wait at a time
OneUser ==
  \A t, u \in Waiters : Busy(t) /\ Busy(u) /\ cw[t] = cw[u] => t = u

\* an rmw_wait without timeout does not come back before something triggered
\* ("avoid Cyclone's behaviour of always returning immediately when no
\* entities are attached to a waitset")
NeverReturnsEarly ==
  [][\A t \in Waiters : pc[t] = "blocked" /\ pc'[t] = "woken" =>
       trigs'[cw[t]] # NoTrigs \/ args[t].finite]_vars

\* the trigger of a guard condition disappears only with a report of it to an
\* rmw_wait, or with the guard condition
GuardTriggerKept ==
  [][\A a \in Addr : obj[a].kind = "gc" /\ obj[a].h \in trig \ trig' =>
       \/ a \in Dying
       \/ \E t \in Waiters : \E i \in rep'[t].ents :
            pc'[t] = "reported" /\ args[t].ents[i].addr = a]_vars

\* a status an rmw_wait waits for is in the mask of the entity, so raising it
\* wakes the wait (the mask is set when the waitset is attached, and never
\* again while the cache is hit); except an incompatible type, which is waited
\* for and never enabled (the TODO of gather_event_entities)
WaitedEventsEnabled ==
  \A t \in Waiters : pc[t] = "blocked" =>
    \A i \in DOMAIN args[t].evs : args[t].evs[i].type \in Supported =>
      (args[t].evs[i].type \in mask[obj[args[t].evs[i].addr].h]
         <=> args[t].evs[i].type \notin Inconsistent)

\* rmw_wait refuses a waitset with "concurrent calls to rmw_wait on a single
\* waitset is not supported" only while another call on it is in progress
RefusedOnlyIfConcurrent ==
  \A w \in waitsets : inuse[w] => \E t \in Waiters : Busy(t) /\ cw[t] = w

\* every destruction that starts comes to an end
DestroyEnds == \A d \in Destroyers : dpc[d] # "idle" ~> dpc[d] = "idle"

(***************************************************************************)
(* Why the caches do not dangle and OneUser holds: an inductive invariant. *)
(***************************************************************************)
\* the application keeps its side: the arguments of a call stay alive
ArgsHeld ==
  \A t \in Waiters : InCall(t) =>
    /\ cw[t] \in waitsets \ closing
    /\ \A x \in AddrsOf(args[t]) : Usable(x)
    /\ \A i \in DOMAIN args[t].ents : obj[args[t].ents[i].addr].kind = args[t].ents[i].kind
UsersClaim == \A t \in Waiters : Busy(t) => inuse[cw[t]]
CacheIsArgs ==
  \A t \in Waiters : pc[t] \in {"blocked", "woken", "reported"} =>
    ents[cw[t]] = args[t].ents
\* the waitsets whose cache somebody may still follow: with Overlap the ones
\* that rmw_wait has claimed are given up
CacheInUse(w) == ~inuse[w] \/ (~Overlap /\ Claimed(w))
\* nothing cached is being destroyed while the cache is compared and detached
ClaimedClean ==
  ~Overlap => \A t \in Waiters : pc[t] = "claimed" => CachedAddrs(cw[t]) \cap Dying = {}
\* what a destroying thread has cleaned stays clean
Cleaned(d, w) == \/ dpc[d] \in {"cleaned", "deleted"}
                 \/ dpc[d] = "cleaning" /\ w \notin todo[d]
CleanedGone ==
  \A d \in Destroyers : \A w \in waitsets :
    CacheInUse(w) /\ Cleaned(d, w) => target[d] \notin CachedAddrs(w)
CacheSound == \A w \in waitsets : CacheInUse(w) => Sound(w)

\* the invariant behind SweepNeverDangles and, for an application that destroys
\* nothing that an rmw_wait in progress has cached (~Overlap), CacheNeverDangles
CacheSafe ==
  /\ ArgsHeld /\ OneUser /\ UsersClaim /\ CacheIsArgs
  /\ ClaimedClean /\ CleanedGone /\ CacheSound
=============================================================================
