---------------------------- MODULE WaitsetProofs ----------------------------
(***************************************************************************)
(* What is proved about Waitset for every set of waitsets, threads,        *)
(* addresses, handles and argument lists.                                  *)
(***************************************************************************)
EXTENDS Waitset, FiniteSetTheorems, SequenceTheorems, WellFoundedInduction, TLAPS

\* a call's arguments are sequences over the declared sets
LEMMA ArgsAreSequences ==
  ASSUME NEW a \in ArgSet
  PROVE  /\ a.ents \in Seq(Elems) /\ a.evs \in Seq(EvArgs) /\ a.finite \in BOOLEAN
         /\ AddrsOf(a) \subseteq Addr
<1>1. a \in [ents : Seq(Elems), evs : Seq(EvArgs), finite : BOOLEAN]
  <2>1. CASE a \in Calls
    BY <2>1, CallAssumption
  <2>2. CASE a = NoArgs
    <3>1. <<>> \in Seq(Elems) /\ <<>> \in Seq(EvArgs)
      OBVIOUS
    <3> QED
      BY <2>2, <3>1 DEF NoArgs
  <2> QED
    BY <2>1, <2>2 DEF ArgSet
<1>2. a.ents \in Seq(Elems) /\ a.evs \in Seq(EvArgs) /\ a.finite \in BOOLEAN
  BY <1>1
<1>3. \A i \in DOMAIN a.ents : a.ents[i] \in Elems
  BY <1>2
<1>4. \A i \in DOMAIN a.evs : a.evs[i] \in EvArgs
  BY <1>2
<1> QED
  BY <1>2, <1>3, <1>4 DEF AddrsOf, Elems, EvArgs

\* an object at an address carries a handle or the value of a freed one
LEMMA HandleOf ==
  ASSUME TypeOK, NEW x \in Addr
  PROVE  /\ obj[x] \in Objects /\ obj[x].h \in AnyHandle
         /\ obj[x].kind \in Kinds \cup {"free"}
  BY DEF TypeOK, Objects, Free, AnyHandle

\* the events of a call, resolved to handles, fit the cache
LEMMA ResolveType ==
  ASSUME TypeOK, NEW a \in ArgSet
  PROVE  /\ Resolve(a.evs) \in Seq(EvRefs)
         /\ Gathered(Resolve(a.evs)) \subseteq AnyHandle
         /\ IsFiniteSet(Gathered(Resolve(a.evs)))
<1> DEFINE r == Resolve(a.evs)
<1>1. a.evs \in Seq(EvArgs)
  BY ArgsAreSequences
<1>2. /\ Len(a.evs) \in Nat /\ DOMAIN a.evs = 1..Len(a.evs)
      /\ \A i \in 1..Len(a.evs) : a.evs[i] \in EvArgs
  BY <1>1
<1>3. \A i \in 1..Len(a.evs) :
        [h |-> obj[a.evs[i].addr].h, type |-> a.evs[i].type] \in EvRefs
  BY <1>2, HandleOf DEF EvArgs, EvRefs, AnyHandle
<1>4. r = [i \in 1..Len(a.evs) |-> [h |-> obj[a.evs[i].addr].h, type |-> a.evs[i].type]]
  BY <1>2 DEF Resolve
<1> HIDE DEF r
<1>5. r \in Seq(EvRefs) /\ DOMAIN r = 1..Len(a.evs)
  <2>1. r \in [1..Len(a.evs) -> EvRefs]
    BY <1>3, <1>4
  <2> QED
    BY <2>1, <1>2, SeqDef
<1>6. Gathered(r) \subseteq AnyHandle
  <2>1. \A i \in DOMAIN r : r[i].h \in AnyHandle
    BY <1>3, <1>4, <1>5 DEF EvRefs, AnyHandle
  <2> QED
    BY <2>1 DEF Gathered
<1>7. IsFiniteSet(1..Len(a.evs))
  BY <1>1, FS_Interval
<1>8. IsFiniteSet({r[i].h : i \in 1..Len(a.evs)})
  <2> DEFINE f == [i \in 1..Len(a.evs) |-> r[i].h]
             T == {r[i].h : i \in 1..Len(a.evs)}
  <2>1. f \in Surjection(1..Len(a.evs), T)
    BY DEF Surjection
  <2> QED
    BY <2>1, <1>7, FS_Surjection
<1>9. IsFiniteSet(Gathered(r))
  <2>1. Gathered(r) \subseteq {r[i].h : i \in 1..Len(a.evs)}
    BY <1>5 DEF Gathered
  <2> QED
    BY <2>1, <1>8, FS_Subset
<1> QED
  BY <1>5, <1>6, <1>9 DEF r

\* TypeOK holds initially
LEMMA TypeInit == Init => TypeOK
<1> SUFFICES ASSUME Init PROVE TypeOK
  OBVIOUS
<1>1. AnyWS \in WS /\ AnyAddr \in Addr
  BY NonEmptyAssumption DEF AnyWS, AnyAddr
<1>2. \A w \in WS : <<>> \in Seq(Elems) /\ <<>> \in Seq(EvRefs)
  OBVIOUS
<1>3. NoTrigs \in TrigSet /\ NoTrigs \in [ents : SUBSET Nat, evs : SUBSET Nat]
  BY DEF NoTrigs, TrigSet
<1> QED
  BY <1>1, <1>2, <1>3 DEF Init, TypeOK, Objects, AnyHandle, ArgSet, PCs, DPCs

\* the steps of the application and the network keep the types
LEMMA TypeEntity == TypeOK /\ EntityStep => TypeOK'
<1> SUFFICES ASSUME TypeOK, NEW x \in Addr,
             \/ \E k \in Kinds : CreateEntity(x, k)
             \/ TriggerGuardCondition(x) \/ DataArrives(x) \/ TakeData(x)
             \/ \E ty \in EvTypes : StatusChanges(x, ty) \/ TakeEvent(x, ty)
             PROVE TypeOK'
  BY DEF EntityStep
<1> USE DEF TypeOK, heap, cdds, cwait, att, wvars, dvars
<1>1. ASSUME NEW k \in Kinds, CreateEntity(x, k) PROVE TypeOK'
  BY <1>1, StatusAssumption DEF CreateEntity, FreshHandles, Objects, AnyHandle
<1>2. CASE TriggerGuardCondition(x)
  BY <1>2, HandleOf DEF TriggerGuardCondition
<1>3. CASE DataArrives(x)
  BY <1>3, HandleOf DEF DataArrives
<1>4. CASE TakeData(x)
  BY <1>4 DEF TakeData
<1>5. ASSUME NEW ty \in EvTypes, StatusChanges(x, ty) PROVE TypeOK'
  BY <1>5 DEF StatusChanges
<1>6. ASSUME NEW ty \in EvTypes, TakeEvent(x, ty) PROVE TypeOK'
  BY <1>6 DEF TakeEvent
<1> QED
  BY <1>1, <1>2, <1>3, <1>4, <1>5, <1>6

\* a cleared CddsWaitset is well typed
LEMMA TypeClear ==
  ASSUME TypeOK, NEW w \in WS, ClearStruct(w)
  PROVE  /\ inuse' \in [WS -> BOOLEAN] /\ nelems' \in [WS -> Nat]
         /\ ents' \in [WS -> Seq(Elems)] /\ evs' \in [WS -> Seq(EvRefs)]
         /\ trigs' \in [WS -> TrigSet]
<1>1. <<>> \in Seq(Elems) /\ <<>> \in Seq(EvRefs) /\ NoTrigs \in TrigSet
  BY DEF NoTrigs, TrigSet
<1> QED
  BY <1>1 DEF TypeOK, ClearStruct

\* creating and destroying waitsets keeps the types
LEMMA TypeWaitSet == TypeOK /\ WaitSetStep => TypeOK'
<1> SUFFICES ASSUME TypeOK, WaitSetStep PROVE TypeOK'
  OBVIOUS
<1> USE DEF TypeOK, heap, cdds, cwait, att, wvars, dvars, AnyHandle
<1>1. ASSUME NEW w \in WS, CreateWaitSet(w) PROVE TypeOK'
  <2>1. gc_for_empty_waitset' \in AnyHandle /\ live' \subseteq Handles
    BY <1>1 DEF CreateWaitSet, LazyDummy, FreshHandles
  <2> QED
    BY <1>1, <2>1, TypeClear DEF CreateWaitSet
<1>2. ASSUME NEW w \in WS, DestroyWaitSet(w) PROVE TypeOK'
  BY <1>2 DEF DestroyWaitSet
<1>3. ASSUME NEW w \in WS, EraseWaitSet(w) PROVE TypeOK'
  <2>1. /\ gc_for_empty_waitset' \in AnyHandle /\ live' \subseteq Handles
        /\ attDummy' \in [WS -> AnyHandle]
    BY <1>3 DEF EraseWaitSet, DropDummy
  <2> QED
    BY <1>3, <2>1, TypeClear DEF EraseWaitSet
<1>4. CASE CreateWaitSetFails
  BY <1>4 DEF CreateWaitSetFails, LazyDummy, FreshHandles
<1> QED
  BY <1>1, <1>2, <1>3, <1>4 DEF WaitSetStep

\* waitset_detach leaves well-typed caches and attachments
LEMMA TypeDetach ==
  ASSUME TypeOK, NEW w \in WS, WaitsetDetach(w)
  PROVE  /\ attE' \in [WS -> SUBSET (AnyHandle \X Nat)]
         /\ attS' \in [WS -> SUBSET AnyHandle]
         /\ ents' \in [WS -> Seq(Elems)] /\ evs' \in [WS -> Seq(EvRefs)]
         /\ nelems' \in [WS -> Nat]
<1>1. <<>> \in Seq(Elems) /\ <<>> \in Seq(EvRefs)
  OBVIOUS
<1> QED
  BY <1>1 DEF TypeOK, WaitsetDetach

\* what is attached for a list of entities is a set of handles with indices
LEMMA AttachmentsType ==
  ASSUME TypeOK, NEW es \in Seq(Elems)
  PROVE  Attachments(es) \subseteq AnyHandle \X Nat
<1>1. \A i \in DOMAIN es : i \in Nat /\ es[i] \in Elems
  OBVIOUS
<1>2. \A i \in DOMAIN es : CondAt(es[i]) \in AnyHandle
  BY <1>1, HandleOf DEF CondAt, Elems
<1> QED
  BY <1>1, <1>2 DEF Attachments

\* a status mask is a set of event types
LEMMA MaskType ==
  ASSUME NEW a \in ArgSet, NEW h
  PROVE  MaskFor(a, h) \subseteq EvTypes
<1>1. \A i \in DOMAIN a.evs : a.evs[i] \in EvArgs
  BY ArgsAreSequences
<1> QED
  BY <1>1 DEF MaskFor, EvArgs

\* a step of a thread inside rmw_wait keeps the types
LEMMA TypeWait ==
  ASSUME TypeOK, NEW t \in Waiters, CallStep(t) \/ WaitStep(t)
  PROVE  TypeOK'
<1> DEFINE w == cw[t]  a == args[t]
<1>0. w \in WS /\ a \in ArgSet
  BY DEF TypeOK
<1>1. AnyWS \in WS /\ NoArgs \in ArgSet /\ NoTrigs \in TrigSet
      /\ NoTrigs \in [ents : SUBSET Nat, evs : SUBSET Nat]
  BY NonEmptyAssumption DEF AnyWS, ArgSet, NoTrigs, TrigSet
<1>2. ASSUME NEW v \in WS, NEW b \in Calls, Claim(t, v, b) PROVE TypeOK'
  BY <1>2 DEF Claim, Goto, TypeOK, ArgSet, PCs, heap, cdds, att, dvars
<1>3. ASSUME NEW v \in WS, NEW b \in Calls, Reject(t, v, b) PROVE TypeOK'
  BY <1>3 DEF Reject, TypeOK, vars, heap, cdds, cwait, att, wvars, dvars
<1>4. CASE CacheHit(t)
  BY <1>4 DEF CacheHit, Goto, TypeOK, PCs, heap, cdds, cwait, att, dvars
<1>5. CASE Detach(t)
  <2>1. WaitsetDetach(w)
    BY <1>5 DEF Detach
  <2> QED
    BY <1>0, <1>5, <2>1, TypeDetach DEF Detach, Goto, TypeOK, PCs, heap, cdds, dvars
<1>7. CASE Attach(t)
  <2> DEFINE H == Gathered(Resolve(a.evs))
  <2>1. a.ents \in Seq(Elems) /\ Resolve(a.evs) \in Seq(EvRefs)
        /\ H \subseteq AnyHandle /\ IsFiniteSet(H)
    BY <1>0, ArgsAreSequences, ResolveType
  <2>2. NElems(a, H) \in Nat
    BY <2>1, FS_CardinalityType DEF NElems
  <2>3. Attachments(a.ents) \subseteq AnyHandle \X Nat
    BY <2>1, AttachmentsType
  <2>4. mask' \in [Handles -> SUBSET EvTypes]
    <3>1. \A h \in Handles : MaskFor(a, h) \subseteq EvTypes
      BY <1>0, MaskType
    <3> QED
      BY <1>7, <3>1 DEF Attach, SetMasks, TypeOK
  <2>5. /\ pc' = [pc EXCEPT ![t] = "blocked"]
        /\ ents' = [ents EXCEPT ![w] = a.ents]
        /\ evs' = [evs EXCEPT ![w] = Resolve(a.evs)]
        /\ attE' = [attE EXCEPT ![w] = @ \cup Attachments(a.ents)]
        /\ attS' = [attS EXCEPT ![w] = @ \cup H]
        /\ nelems' = [nelems EXCEPT ![w] = NElems(a, H)]
    BY <1>7 DEF Attach, Goto
  <2>6. UNCHANGED <<obj, live, status, trig, cdds, lock, inuse, trigs, attDummy,
                    cw, args, rep, dvars>>
    BY <1>7 DEF Attach
  <2> HIDE DEF a, w, H
  <2> QED
    BY <1>0, <2>1, <2>2, <2>3, <2>4, <2>5, <2>6 DEF TypeOK, PCs, cdds, dvars
<1>8. CASE GatherFails(t)
  <2>1. a.ents \in Seq(Elems)
    BY <1>0, ArgsAreSequences
  <2>2. Attachments(a.ents) \subseteq AnyHandle \X Nat
    BY <2>1, AttachmentsType
  <2>3. mask' \in [Handles -> SUBSET EvTypes]
    <3>1. \A h \in Handles : MaskFor(a, h) \subseteq EvTypes
      BY <1>0, MaskType
    <3> QED
      BY <1>8, <3>1 DEF GatherFails, SetMasks, TypeOK
  <2>4. /\ pc' = [pc EXCEPT ![t] = "idle"]
        /\ ents' = [ents EXCEPT ![w] = a.ents]
        /\ attE' = [attE EXCEPT ![w] = @ \cup Attachments(a.ents)]
        /\ cw' = [cw EXCEPT ![t] = AnyWS] /\ args' = [args EXCEPT ![t] = NoArgs]
    BY <1>8 DEF GatherFails, Goto
  <2>5. UNCHANGED <<obj, live, status, trig, cdds, lock, inuse, evs, nelems, trigs,
                    attS, attDummy, rep, dvars>>
    BY <1>8 DEF GatherFails
  <2> HIDE DEF a, w
  <2> QED
    BY <1>0, <1>1, <2>1, <2>2, <2>3, <2>4, <2>5 DEF TypeOK, PCs, cdds, dvars
<1>9. CASE Wake(t)
  <2>1. Triggered(w) \in TrigSet
    BY <1>0 DEF Triggered, TrigSet, TypeOK
  <2> QED
    BY <1>0, <1>9, <2>1 DEF Wake, Goto, TypeOK, PCs, heap, cdds, att, dvars
<1>10. CASE TimeOut(t)
  BY <1>0, <1>1, <1>10 DEF TimeOut, Goto, TypeOK, PCs, heap, cdds, att, dvars
<1>11. CASE Report(t)
  <2> DEFINE got == Reported(w, a.ents)
             ev == {i \in DOMAIN a.evs :
                      a.evs[i].type \in Supported \cap status[obj[a.evs[i].addr].h]}
  <2>1. a.ents \in Seq(Elems) /\ a.evs \in Seq(EvArgs)
    BY <1>0, ArgsAreSequences
  <2>2. got \in SUBSET Nat
    BY <2>1 DEF Reported
  <2>3. ev \in SUBSET Nat
    BY <2>1
  <2>4. /\ pc' = [pc EXCEPT ![t] = "reported"]
        /\ rep' = [rep EXCEPT ![t] = [ents |-> got, evs |-> ev]]
        /\ trig' \subseteq trig
        /\ UNCHANGED <<heap, cdds, lock, cwait, att, cw, args, dvars>>
    BY <1>11 DEF Report, Goto
  <2> HIDE DEF got, ev
  <2> QED
    BY <2>2, <2>3, <2>4 DEF TypeOK, PCs, heap, cdds, cwait, att, dvars
<1>12. CASE Release(t)
  BY <1>0, <1>12 DEF Release, Goto, TypeOK, PCs, heap, cdds, att, dvars
<1>13. CASE Return(t)
  BY <1>1, <1>13 DEF Return, Goto, TypeOK, PCs, heap, cdds, cwait, att, dvars
<1> QED
  BY <1>2, <1>3, <1>4, <1>5, <1>7, <1>8, <1>9, <1>10, <1>11, <1>12, <1>13
     DEF CallStep, WaitStep

\* a step of a destroying thread keeps the types
LEMMA TypeDestroy ==
  ASSUME TypeOK, NEW d \in Destroyers,
         (\E x \in Addr : StartDestroy(d, x)) \/ DestroyStep(d)
  PROVE  TypeOK'
<1>0. target[d] \in Addr /\ AnyAddr \in Addr
  BY NonEmptyAssumption DEF TypeOK, AnyAddr
<1>1. ASSUME NEW x \in Addr, StartDestroy(d, x) PROVE TypeOK'
  BY <1>1 DEF StartDestroy, FirstStep, TypeOK, DPCs, heap, cdds, cwait, att, wvars
<1>2. CASE BeginClean(d)
  BY <1>2 DEF BeginClean, TypeOK, DPCs, heap, cdds, cwait, att, wvars
<1>3. ASSUME NEW w \in WS, CleanOne(d, w) PROVE TypeOK'
  <2>1. /\ attE' \in [WS -> SUBSET (AnyHandle \X Nat)]
        /\ attS' \in [WS -> SUBSET AnyHandle]
        /\ ents' \in [WS -> Seq(Elems)] /\ evs' \in [WS -> Seq(EvRefs)]
        /\ nelems' \in [WS -> Nat]
    <3>1. CASE inuse[w]
      BY <1>3, <3>1 DEF CleanOne, TypeOK
    <3>2. CASE ~inuse[w]
      BY <1>3, <3>2, TypeDetach DEF CleanOne
    <3> QED
      BY <3>1, <3>2
  <2> QED
    BY <1>3, <2>1 DEF CleanOne, TypeOK, heap, cdds, wvars
<1>4. CASE EndClean(d)
  BY <1>4 DEF EndClean, TypeOK, DPCs, heap, cdds, cwait, att, wvars
<1>5. CASE DeleteEntity(d)
  BY <1>5 DEF DeleteEntity, TypeOK, DPCs, cdds, cwait, wvars
<1>6. CASE FreeObject(d)
  BY <1>0, <1>6 DEF FreeObject, TypeOK, DPCs, Objects, cdds, cwait, att, wvars
<1> QED
  BY <1>1, <1>2, <1>3, <1>4, <1>5, <1>6 DEF DestroyStep

\* TypeOK is inductive
LEMMA TypeStep == TypeOK /\ [Next]_vars => TypeOK'
<1> SUFFICES ASSUME TypeOK, [Next]_vars PROVE TypeOK'
  OBVIOUS
<1>1. CASE UNCHANGED vars
  BY <1>1 DEF TypeOK, vars, heap, cdds, cwait, att, wvars, dvars
<1> QED
  BY <1>1, TypeEntity, TypeWaitSet, TypeWait, TypeDestroy DEF Next

\* every variable has its type, in every execution
THEOREM TypeCorrect == Spec => []TypeOK
<1> QED
  BY TypeInit, TypeStep, PTL DEF Spec

(***************************************************************************)
(* No clean_waitset_caches follows a dangling pointer, and no rmw_wait     *)
(* does either if the application destroys nothing that an rmw_wait in     *)
(* progress has cached (~Overlap).  CacheSafe is inductive either way.     *)
(***************************************************************************)
SafeVars == <<obj, waitsets, closing, inuse, ents, pc, cw, args, dpc, target, todo>>

\* CacheSafe only depends on SafeVars
LEMMA SafeFrame == CacheSafe /\ UNCHANGED SafeVars => CacheSafe'
<1> SUFFICES ASSUME CacheSafe, UNCHANGED SafeVars PROVE CacheSafe'
  OBVIOUS
<1> USE DEF SafeVars, CacheSafe
<1>1. ArgsHeld'
  BY DEF ArgsHeld, InCall, AddrsOf, Usable, Dying
<1>2. OneUser' /\ UsersClaim' /\ CacheIsArgs'
  BY DEF OneUser, UsersClaim, CacheIsArgs, Busy
<1>3. ClaimedClean'
  BY DEF ClaimedClean, CachedAddrs, Dying
<1>4. CleanedGone'
  BY DEF CleanedGone, CacheInUse, Claimed, Cleaned, CachedAddrs
<1>5. CacheSound'
  BY DEF CacheSound, Sound, CacheInUse, Claimed
<1> QED
  BY <1>1, <1>2, <1>3, <1>4, <1>5

\* the cached entries are entities rmw_wait waits for directly
LEMMA CachedKinds ==
  ASSUME TypeOK, NEW w \in WS, NEW i \in DOMAIN ents[w]
  PROVE  ents[w][i].kind \in CondKinds /\ ents[w][i].addr \in Addr
<1>1. ents[w] \in Seq(Elems)
  BY DEF TypeOK
<1>2. ents[w][i] \in Elems
  BY <1>1
<1> QED
  BY <1>2 DEF Elems

\* what is cached and safe to follow is an object of a waitable kind
LEMMA CachedObject ==
  ASSUME TypeOK, CacheSound, NEW w \in waitsets, CacheInUse(w),
         NEW x \in CachedAddrs(w)
  PROVE  obj[x].kind \in CondKinds
<1>1. PICK i \in DOMAIN ents[w] : ents[w][i].addr = x
  BY DEF CachedAddrs
<1>2. w \in WS
  BY DEF TypeOK
<1> QED
  BY <1>1, <1>2, CachedKinds DEF CacheSound, Sound

\* CacheSafe holds at first: nothing is cached
LEMMA SafeInit == Init => CacheSafe
BY DEF Init, CacheSafe, ArgsHeld, OneUser, UsersClaim, CacheIsArgs, ClaimedClean,
       CleanedGone, CacheSound, Sound, InCall, Busy, Cleaned, CacheInUse, Claimed

\* creating an entity reuses only addresses nothing refers to
LEMMA SafeCreate ==
  ASSUME TypeOK, CacheSafe, NEW x \in Addr, NEW k \in Kinds, CreateEntity(x, k)
  PROVE  CacheSafe'
<1>1. /\ obj[x] = Free /\ \A y \in Addr \ {x} : obj'[y] = obj[y]
      /\ obj'[x].kind = k /\ obj'[x] # Free /\ obj[x].kind = "free"
      /\ UNCHANGED <<waitsets, closing, inuse, ents, pc, cw, args, dpc, target, todo>>
  BY DEF CreateEntity, TypeOK, cdds, cwait, wvars, dvars, Free, Kinds
<1>2. \A w \in waitsets : CacheInUse(w) => x \notin CachedAddrs(w)
  BY <1>1, CachedObject DEF CondKinds, CacheSafe
<1>3. ArgsHeld'
  <2> SUFFICES ASSUME NEW t \in Waiters, InCall(t)'
               PROVE  /\ cw'[t] \in waitsets' \ closing'
                      /\ \A y \in AddrsOf(args[t]) : Usable(y)'
                      /\ \A i \in DOMAIN args[t].ents :
                           obj'[args[t].ents[i].addr].kind = args[t].ents[i].kind
    BY <1>1 DEF ArgsHeld, AddrsOf
  <2>1. InCall(t) /\ args[t] \in ArgSet
    BY <1>1 DEF InCall, TypeOK
  <2>2. \A y \in AddrsOf(args[t]) : Usable(y) /\ y \in Addr /\ y # x
    BY <1>1, <2>1, ArgsAreSequences DEF CacheSafe, ArgsHeld, Usable
  <2> QED
    BY <1>1, <2>1, <2>2 DEF CacheSafe, ArgsHeld, Usable, Dying, AddrsOf
<1>4. CacheSound'
  <2> SUFFICES ASSUME NEW w \in waitsets, CacheInUse(w), NEW i \in DOMAIN ents[w]
               PROVE  obj'[ents[w][i].addr].kind = ents[w][i].kind
    BY <1>1 DEF CacheSound, Sound, CacheInUse, Claimed
  <2>1. w \in WS /\ ents[w][i].addr \in Addr /\ ents[w][i].addr \in CachedAddrs(w)
    BY CachedKinds DEF TypeOK, CachedAddrs
  <2> QED
    BY <1>1, <1>2, <2>1 DEF CacheSafe, CacheSound, Sound
<1>5. (OneUser /\ UsersClaim /\ CacheIsArgs /\ ClaimedClean /\ CleanedGone)'
  BY <1>1, SMTT(15) DEF CacheSafe, OneUser, UsersClaim, CacheIsArgs, ClaimedClean, CleanedGone,
              Busy, CachedAddrs, Dying, Cleaned, CacheInUse, Claimed
<1> QED
  BY <1>3, <1>4, <1>5 DEF CacheSafe

\* the other steps of the application and the network do not touch SafeVars
LEMMA SafeEntity == TypeOK /\ CacheSafe /\ EntityStep => CacheSafe'
<1> SUFFICES ASSUME TypeOK, CacheSafe, NEW x \in Addr,
             \/ \E k \in Kinds : CreateEntity(x, k)
             \/ TriggerGuardCondition(x) \/ DataArrives(x) \/ TakeData(x)
             \/ \E ty \in EvTypes : StatusChanges(x, ty) \/ TakeEvent(x, ty)
             PROVE CacheSafe'
  BY DEF EntityStep
<1>1. CASE \/ TriggerGuardCondition(x) \/ DataArrives(x) \/ TakeData(x)
           \/ \E ty \in EvTypes : StatusChanges(x, ty) \/ TakeEvent(x, ty)
  <2>1. UNCHANGED SafeVars
    BY <1>1 DEF TriggerGuardCondition, DataArrives, TakeData, StatusChanges, TakeEvent,
                SafeVars, heap, cdds, cwait, wvars, dvars
  <2> QED
    BY <2>1, SafeFrame
<1> QED
  BY <1>1, SafeCreate

\* ArgsHeld survives a step that starts no call, leaves the objects and the
\* destructions alone and the waitsets of the calls registered and open
LEMMA ArgsFrame ==
  ASSUME ArgsHeld, UNCHANGED <<obj, dpc, target>>,
         \A t \in Waiters : InCall(t)' =>
           /\ InCall(t) /\ cw'[t] = cw[t] /\ args'[t] = args[t]
           /\ cw[t] \in waitsets' \ closing'
  PROVE  ArgsHeld'
<1>1. Dying' = Dying
  BY DEF Dying
<1>2. \A x : Usable(x)' <=> Usable(x)
  BY <1>1 DEF Usable
<1>3. \A t \in Waiters : InCall(t)' => AddrsOf(args[t])' = AddrsOf(args[t])
  BY DEF AddrsOf
<1> QED
  BY <1>2, <1>3 DEF ArgsHeld

\* ClaimedClean survives a step that leaves the caches of claimed waitsets and
\* the destructions alone
LEMMA ClaimedFrame ==
  ASSUME ClaimedClean, UNCHANGED <<pc, cw, dpc, target>>,
         \A t \in Waiters : pc[t] = "claimed" => ents'[cw[t]] = ents[cw[t]]
  PROVE  ClaimedClean'
<1>1. Dying' = Dying
  BY DEF Dying
<1>2. \A t \in Waiters : pc[t] = "claimed" => CachedAddrs(cw[t])' = CachedAddrs(cw[t])
  BY DEF CachedAddrs
<1> QED
  BY <1>1, <1>2 DEF ClaimedClean

\* creating and destroying waitsets: a new one has nothing cached, a closing
\* one is not being waited on
LEMMA SafeWaitSet == TypeOK /\ CacheSafe /\ WaitSetStep => CacheSafe'
<1> SUFFICES ASSUME TypeOK, CacheSafe, WaitSetStep PROVE CacheSafe'
  OBVIOUS
<1>1. ASSUME NEW w \in WS, CreateWaitSet(w) PROVE CacheSafe'
  <2>1. /\ w \notin waitsets /\ waitsets' = waitsets \cup {w}
        /\ inuse' = [inuse EXCEPT ![w] = FALSE] /\ ents' = [ents EXCEPT ![w] = <<>>]
        /\ UNCHANGED <<obj, closing, pc, cw, args, dpc, target, todo>>
    BY <1>1 DEF CreateWaitSet, ClearStruct, wvars, dvars
  <2>2. \A t \in Waiters : InCall(t) => cw[t] # w
    BY <2>1 DEF CacheSafe, ArgsHeld
  <2>3. \A v \in waitsets : v # w /\ v \in WS /\ ents'[v] = ents[v] /\ inuse'[v] = inuse[v]
    BY <2>1 DEF TypeOK
  <2>4. ents'[w] = <<>> /\ DOMAIN ents'[w] = {}
    BY <2>1 DEF TypeOK
  <2>5. ArgsHeld'
    BY <2>1, ArgsFrame DEF CacheSafe, ArgsHeld, InCall
  <2>6. OneUser' /\ UsersClaim' /\ CacheIsArgs'
    <3>1. \A t \in Waiters : Busy(t) => cw[t] \in waitsets
      BY DEF Busy, CacheSafe, ArgsHeld, InCall
    <3> QED
      BY <2>1, <2>3, <3>1 DEF CacheSafe, OneUser, UsersClaim, CacheIsArgs, Busy
  <2>8. ClaimedClean'
    <3>1. \A t \in Waiters : pc[t] = "claimed" => cw[t] \in waitsets
      BY DEF CacheSafe, ArgsHeld, InCall
    <3> QED
      BY <2>1, <2>3, <3>1, ClaimedFrame DEF CacheSafe
  <2>7. CleanedGone' /\ CacheSound'
    BY <2>1, <2>3, <2>4 DEF CacheSafe, CleanedGone, CacheSound, Sound, CacheInUse, Claimed,
       CachedAddrs, Cleaned
  <2> QED
    BY <2>5, <2>6, <2>7, <2>8 DEF CacheSafe
<1>2. ASSUME NEW w \in WS, DestroyWaitSet(w) PROVE CacheSafe'
  <2>1. /\ closing' = closing \cup {w} /\ \A t \in Waiters : InCall(t) => cw[t] # w
        /\ UNCHANGED <<obj, waitsets, inuse, ents, pc, cw, args, dpc, target, todo>>
    BY <1>2 DEF DestroyWaitSet, heap, cwait, wvars, dvars
  <2>2. ArgsHeld'
    BY <2>1 DEF CacheSafe, ArgsHeld, InCall, AddrsOf, Usable, Dying
  <2>3. OneUser' /\ UsersClaim' /\ CacheIsArgs' /\ ClaimedClean'
    BY <2>1 DEF CacheSafe, OneUser, UsersClaim, CacheIsArgs, ClaimedClean, Busy,
       CachedAddrs, Dying
  <2>4. CleanedGone' /\ CacheSound'
    BY <2>1 DEF CacheSafe, CleanedGone, CacheSound, Sound, CacheInUse, Claimed, Cleaned, CachedAddrs
  <2> QED
    BY <2>2, <2>3, <2>4 DEF CacheSafe
<1>3. ASSUME NEW w \in WS, EraseWaitSet(w) PROVE CacheSafe'
  <2>1. /\ w \in closing /\ closing' = closing \ {w} /\ waitsets' = waitsets \ {w}
        /\ inuse' = [inuse EXCEPT ![w] = FALSE] /\ ents' = [ents EXCEPT ![w] = <<>>]
        /\ UNCHANGED <<obj, pc, cw, args, dpc, target, todo>>
    BY <1>3 DEF EraseWaitSet, ClearStruct, wvars, dvars
  <2>2. \A t \in Waiters : InCall(t) => cw[t] # w
    BY <2>1 DEF CacheSafe, ArgsHeld
  <2>3. \A v \in WS : v # w => ents'[v] = ents[v] /\ inuse'[v] = inuse[v]
    BY <2>1 DEF TypeOK
  <2>4. \A t \in Waiters : cw[t] \in WS
    BY DEF TypeOK
  <2>5. ArgsHeld'
    BY <2>1, <2>2, ArgsFrame DEF CacheSafe, ArgsHeld, InCall
  <2>6. OneUser' /\ UsersClaim' /\ CacheIsArgs'
    BY <2>1, <2>2, <2>3, <2>4 DEF CacheSafe, OneUser, UsersClaim, CacheIsArgs, InCall, Busy
  <2>7. ClaimedClean'
    <3>1. \A t \in Waiters : pc[t] = "claimed" => cw[t] # w
      BY <2>2 DEF InCall
    <3> QED
      BY <2>1, <2>3, <2>4, <3>1, ClaimedFrame DEF CacheSafe
  <2>8. \A v \in waitsets' :
          /\ v \in waitsets /\ ents'[v] = ents[v]
          /\ CacheInUse(v)' => CacheInUse(v)
    BY <2>1, <2>3 DEF CacheInUse, Claimed, TypeOK
  <2>9. CleanedGone' /\ CacheSound'
    BY <2>1, <2>8 DEF CacheSafe, CleanedGone, CacheSound, Sound, CachedAddrs, Cleaned
  <2> QED
    BY <2>5, <2>6, <2>7, <2>9 DEF CacheSafe
<1>4. CASE CreateWaitSetFails
  BY <1>4, SafeFrame DEF CreateWaitSetFails, SafeVars, cwait, wvars, dvars
<1> QED
  BY <1>1, <1>2, <1>3, <1>4 DEF WaitSetStep

\* the two cache invariants survive a step that destroys nothing, if the caches
\* that come into use hold nothing that is dying and only what is alive
LEMMA CacheFrame ==
  ASSUME CleanedGone, CacheSound,
         UNCHANGED <<obj, waitsets, dpc, target, todo>>,
         \A w \in waitsets : CacheInUse(w)' =>
           \/ CacheInUse(w) /\ ents'[w] = ents[w]
           \/ /\ \A i \in DOMAIN ents'[w] : obj[ents'[w][i].addr].kind = ents'[w][i].kind
              /\ CachedAddrs(w)' \cap Dying = {}
  PROVE  CleanedGone' /\ CacheSound'
<1>1. CacheSound'
  BY DEF CacheSound, Sound
<1>2. CleanedGone'
  <2> SUFFICES ASSUME NEW d \in Destroyers, NEW w \in waitsets,
                      CacheInUse(w)', Cleaned(d, w)
               PROVE  target[d] \notin CachedAddrs(w)'
    BY DEF CleanedGone, Cleaned
  <2>1. CASE CacheInUse(w) /\ ents'[w] = ents[w]
    BY <2>1 DEF CleanedGone, CachedAddrs
  <2>2. CASE CachedAddrs(w)' \cap Dying = {}
    <3>1. target[d] \in Dying
      BY DEF Dying, Cleaned
    <3> QED
      BY <2>2, <3>1
  <2> QED
    BY <2>1, <2>2
<1> QED
  BY <1>1, <1>2

\* steps of a call that only move its program counter on, without using a cache
LEMMA SafeMove ==
  ASSUME TypeOK, CacheSafe, NEW t \in Waiters, NEW to \in {"blocked", "woken", "reported"},
         pc[t] # "idle", pc' = [pc EXCEPT ![t] = to],
         UNCHANGED <<obj, waitsets, closing, inuse, ents, cw, args, dpc, target, todo>>,
         to \in {"woken", "reported"} => pc[t] \in {"blocked", "woken"},
         to = "blocked" => pc[t] = "claimed" /\ ents[cw[t]] = args[t].ents
  PROVE  CacheSafe'
<1>1. \A u \in Waiters :
        /\ u # t => pc'[u] = pc[u]
        /\ InCall(u)' => InCall(u)
        /\ Busy(u)' => Busy(u)
        /\ pc'[u] = "claimed" => pc[u] = "claimed"
  BY DEF TypeOK, InCall, Busy, PCs
<1>2. Dying' = Dying
  BY DEF Dying
<1>3. ArgsHeld'
  BY <1>1, ArgsFrame DEF CacheSafe, ArgsHeld
<1>4. OneUser' /\ UsersClaim'
  BY <1>1 DEF CacheSafe, OneUser, UsersClaim, Busy, PCs
<1>5. CacheIsArgs'
  BY <1>1 DEF CacheSafe, CacheIsArgs, PCs, TypeOK
<1>6. ClaimedClean'
  BY <1>1, <1>2 DEF CacheSafe, ClaimedClean, CachedAddrs
<1>7. CleanedGone' /\ CacheSound'
  <2>1. \A w \in waitsets : CacheInUse(w)' => CacheInUse(w)
    BY <1>1 DEF CacheInUse, Claimed
  <2> QED
    BY <2>1, CacheFrame DEF CacheSafe
<1> QED
  BY <1>3, <1>4, <1>5, <1>6, <1>7 DEF CacheSafe

\* a call claims a waitset, and with ~Overlap nothing cached is dying
LEMMA SafeClaim ==
  ASSUME TypeOK, CacheSafe, NEW t \in Waiters, NEW w \in WS, NEW a \in Calls,
         Claim(t, w, a)
  PROVE  CacheSafe'
<1>1. /\ w \in waitsets \ closing /\ ~inuse[w] /\ pc[t] = "idle"
      /\ \A x \in AddrsOf(a) : Usable(x)
      /\ \A i \in DOMAIN a.ents : obj[a.ents[i].addr].kind = a.ents[i].kind
      /\ ~Overlap => CachedAddrs(w) \cap Dying = {}
      /\ pc'[t] = "claimed" /\ cw'[t] = w /\ args'[t] = a /\ inuse'[w] = TRUE
      /\ \A u \in Waiters \ {t} : pc'[u] = pc[u] /\ cw'[u] = cw[u] /\ args'[u] = args[u]
      /\ \A v \in WS \ {w} : inuse'[v] = inuse[v]
      /\ UNCHANGED <<obj, waitsets, closing, ents, dpc, target, todo>>
  BY DEF Claim, Claimable, MayCall, Goto, TypeOK, heap, cdds, dvars
<1>2. Dying' = Dying /\ \A x : Usable(x)' <=> Usable(x)
  BY <1>1 DEF Dying, Usable
<1>3. ArgsHeld'
  <2> SUFFICES ASSUME NEW u \in Waiters, InCall(u)'
               PROVE  /\ cw'[u] \in waitsets \ closing
                      /\ \A x \in AddrsOf(args'[u]) : Usable(x)
                      /\ \A i \in DOMAIN args'[u].ents :
                           obj[args'[u].ents[i].addr].kind = args'[u].ents[i].kind
    BY <1>1, <1>2 DEF ArgsHeld, AddrsOf
  <2>1. CASE u = t
    BY <1>1, <2>1
  <2>2. CASE u # t
    <3>1. InCall(u)
      BY <1>1, <2>2 DEF InCall
    <3> QED
      BY <1>1, <2>2, <3>1 DEF CacheSafe, ArgsHeld
  <2> QED
    BY <2>1, <2>2
<1>4. \A u \in Waiters : Busy(u) => cw[u] # w
  BY <1>1 DEF CacheSafe, UsersClaim
<1>5. OneUser'
  BY <1>1, <1>4 DEF CacheSafe, OneUser, Busy
<1>6. UsersClaim' /\ CacheIsArgs'
  <2>1. \A u \in Waiters : cw[u] \in WS
    BY DEF TypeOK
  <2>2. UsersClaim'
    BY <1>1, <1>4, <2>1 DEF CacheSafe, UsersClaim, Busy
  <2>3. CacheIsArgs'
    BY <1>1 DEF CacheSafe, CacheIsArgs
  <2> QED
    BY <2>2, <2>3
<1>7. ClaimedClean'
  BY <1>1, <1>2 DEF CacheSafe, ClaimedClean, CachedAddrs
<1>8. CleanedGone' /\ CacheSound'
  <2>1. \A v \in waitsets : v \in WS
    BY DEF TypeOK
  <2>2. CacheInUse(w)
    BY <1>1 DEF CacheInUse, Claimed
  <2>3. \A v \in waitsets : v # w => (CacheInUse(v)' => CacheInUse(v))
    BY <1>1, <2>1 DEF CacheInUse, Claimed
  <2> QED
    BY <1>1, <2>2, <2>3, CacheFrame DEF CacheSafe
<1> QED
  BY <1>3, <1>5, <1>6, <1>7, <1>8 DEF CacheSafe

\* Detach, Attach and GatherFails rewrite the cache of a waitset in use, which
\* nobody follows until it is released
LEMMA SafeRewrite ==
  ASSUME TypeOK, CacheSafe, NEW t \in Waiters, NEW es, NEW to \in {"detached", "blocked", "idle"},
         Busy(t), pc' = [pc EXCEPT ![t] = to], ents' = [ents EXCEPT ![cw[t]] = es],
         UNCHANGED <<obj, waitsets, closing, inuse, dpc, target, todo>>,
         \/ UNCHANGED <<cw, args>>
         \/ to = "idle" /\ cw' = [cw EXCEPT ![t] = AnyWS] /\ args' = [args EXCEPT ![t] = NoArgs],
         to = "blocked" => es = args[t].ents
  PROVE  CacheSafe'
<1>1. /\ pc'[t] = to /\ cw[t] \in WS /\ ents'[cw[t]] = es
      /\ \A u \in Waiters \ {t} : pc'[u] = pc[u] /\ cw'[u] = cw[u] /\ args'[u] = args[u]
      /\ \A v \in WS \ {cw[t]} : ents'[v] = ents[v]
      /\ to # "idle" => cw'[t] = cw[t] /\ args'[t] = args[t]
  BY DEF TypeOK
<1>2. /\ \A u \in Waiters \ {t} : Busy(u) => cw[u] \in WS \ {cw[t]}
      /\ inuse[cw[t]] /\ pc[t] # "idle"
  BY DEF CacheSafe, OneUser, UsersClaim, TypeOK, Busy
<1>3. ArgsHeld'
  <2>1. \A u \in Waiters : InCall(u)' =>
          InCall(u) /\ cw'[u] = cw[u] /\ args'[u] = args[u]
    BY <1>1, <1>2 DEF InCall
  <2> QED
    BY <2>1, ArgsFrame DEF CacheSafe, ArgsHeld
<1>4. OneUser' /\ UsersClaim'
  BY <1>1, <1>2 DEF CacheSafe, OneUser, UsersClaim, Busy
<1>5. CacheIsArgs'
  BY <1>1, <1>2 DEF CacheSafe, CacheIsArgs, Busy
<1>6. \A u \in Waiters : pc'[u] = "claimed" =>
        u # t /\ pc[u] = "claimed" /\ cw'[u] = cw[u] /\ cw[u] # cw[t] /\ ents'[cw[u]] = ents[cw[u]]
  BY <1>1, <1>2 DEF Busy
<1>7. ClaimedClean'
  BY <1>6 DEF CacheSafe, ClaimedClean, CachedAddrs, Dying
<1>8. CleanedGone' /\ CacheSound'
  <2>1. \A v \in waitsets : CacheInUse(v)' => CacheInUse(v) /\ ents'[v] = ents[v]
    BY <1>1, <1>2, <1>6 DEF CacheInUse, Claimed, TypeOK
  <2> QED
    BY <2>1, CacheFrame DEF CacheSafe
<1> QED
  BY <1>3, <1>4, <1>5, <1>7, <1>8 DEF CacheSafe

\* a released cache holds the arguments of the call, which are alive
LEMMA SafeRelease ==
  ASSUME TypeOK, CacheSafe, NEW t \in Waiters, Release(t)
  PROVE  CacheSafe'
<1> DEFINE w == cw[t]
<1>1. /\ pc[t] = "reported" /\ pc'[t] = "returning" /\ w \in WS /\ inuse'[w] = FALSE
      /\ \A u \in Waiters \ {t} : pc'[u] = pc[u]
      /\ \A v \in WS \ {w} : inuse'[v] = inuse[v]
      /\ UNCHANGED <<obj, waitsets, closing, ents, cw, args, dpc, target, todo>>
  BY DEF Release, Goto, TypeOK, heap, cdds, dvars
<1>2. \A u \in Waiters \ {t} : Busy(u) => cw[u] # w
  BY <1>1 DEF CacheSafe, OneUser, Busy
<1>3. ArgsHeld'
  BY <1>1, ArgsFrame DEF CacheSafe, ArgsHeld, InCall
<1>4. OneUser' /\ UsersClaim'
  BY <1>1, <1>2 DEF CacheSafe, OneUser, UsersClaim, Busy, TypeOK
<1>5. CacheIsArgs'
  BY <1>1 DEF CacheSafe, CacheIsArgs
<1>6. ClaimedClean'
  BY <1>1 DEF CacheSafe, ClaimedClean, CachedAddrs, Dying
<1>7. ents[w] = args[t].ents
  BY <1>1 DEF CacheSafe, CacheIsArgs
<1>8. /\ \A i \in DOMAIN ents[w] : obj[ents[w][i].addr].kind = ents[w][i].kind
      /\ CachedAddrs(w) \cap Dying = {}
  <2>1. InCall(t)
    BY <1>1 DEF InCall
  <2>2. CachedAddrs(w) \subseteq AddrsOf(args[t])
    BY <1>7 DEF CachedAddrs, AddrsOf
  <2> QED
    BY <1>7, <2>1, <2>2 DEF CacheSafe, ArgsHeld, Usable
<1>9. CleanedGone' /\ CacheSound'
  <2>1. \A v \in waitsets : v # w /\ CacheInUse(v)' => CacheInUse(v) /\ ents'[v] = ents[v]
    BY <1>1 DEF CacheInUse, Claimed, TypeOK
  <2>2. ents'[w] = ents[w] /\ CachedAddrs(w)' = CachedAddrs(w)
    BY <1>1 DEF CachedAddrs
  <2> QED
    BY <1>1, <1>8, <2>1, <2>2, CacheFrame DEF CacheSafe
<1> QED
  BY <1>3, <1>4, <1>5, <1>6, <1>9 DEF CacheSafe

\* a step of a thread in rmw_wait keeps CacheSafe
LEMMA SafeWait ==
  ASSUME TypeOK, CacheSafe, NEW t \in Waiters, CallStep(t) \/ WaitStep(t)
  PROVE  CacheSafe'
<1>1. ASSUME NEW w \in WS, NEW a \in Calls, Reject(t, w, a) PROVE CacheSafe'
  BY <1>1, SafeFrame DEF Reject, SafeVars, vars, heap, cdds, cwait, wvars, dvars
<1>2. CASE CacheHit(t)
  BY <1>2, SafeMove DEF CacheHit, RequireReattach, Goto, heap, cdds, cwait, dvars
<1>3. CASE Detach(t)
  <2>1. Busy(t) /\ pc' = [pc EXCEPT ![t] = "detached"] /\ ents' = [ents EXCEPT ![cw[t]] = <<>>]
    BY <1>3 DEF Detach, WaitsetDetach, Goto, Busy
  <2> QED
    BY <1>3, <2>1, SafeRewrite DEF Detach, heap, cdds, dvars
<1>4. CASE Attach(t)
  <2>1. /\ Busy(t) /\ pc' = [pc EXCEPT ![t] = "blocked"]
        /\ ents' = [ents EXCEPT ![cw[t]] = args[t].ents]
    BY <1>4 DEF Attach, Goto, Busy
  <2> QED
    BY <1>4, <2>1, SafeRewrite DEF Attach, cdds, dvars
<1>5. CASE GatherFails(t)
  <2>1. /\ Busy(t) /\ pc' = [pc EXCEPT ![t] = "idle"]
        /\ ents' = [ents EXCEPT ![cw[t]] = args[t].ents]
    BY <1>5 DEF GatherFails, Goto, Busy
  <2> QED
    BY <1>5, <2>1, SafeRewrite DEF GatherFails, cdds, dvars
<1>6. CASE Wake(t) \/ TimeOut(t)
  BY <1>6, SafeMove DEF Wake, TimeOut, Goto, heap, cdds, dvars
<1>7. CASE Report(t)
  BY <1>7, SafeMove DEF Report, Goto, heap, cdds, cwait, dvars
<1>8. CASE Return(t)
  <2>1. /\ pc[t] = "returning" /\ pc'[t] = "idle"
        /\ \A u \in Waiters \ {t} : pc'[u] = pc[u] /\ cw'[u] = cw[u] /\ args'[u] = args[u]
        /\ UNCHANGED <<obj, waitsets, closing, inuse, ents, dpc, target, todo>>
    BY <1>8 DEF Return, Goto, TypeOK, heap, cdds, cwait, dvars
  <2>2. ArgsHeld'
    BY <2>1, ArgsFrame DEF CacheSafe, ArgsHeld, InCall
  <2>3. OneUser' /\ UsersClaim' /\ CacheIsArgs'
    BY <2>1 DEF CacheSafe, OneUser, UsersClaim, CacheIsArgs, Busy
  <2>4. ClaimedClean'
    BY <2>1 DEF CacheSafe, ClaimedClean, CachedAddrs, Dying
  <2>5. CleanedGone' /\ CacheSound'
    <3>1. \A v \in waitsets : CacheInUse(v)' => CacheInUse(v)
      BY <2>1 DEF CacheInUse, Claimed
    <3> QED
      BY <2>1, <3>1, CacheFrame DEF CacheSafe
  <2> QED
    BY <2>2, <2>3, <2>4, <2>5 DEF CacheSafe
<1> QED
  BY <1>1, <1>2, <1>3, <1>4, <1>5, <1>6, <1>7, <1>8, SafeClaim, SafeRelease
     DEF CallStep, WaitStep

\* StartDestroy: what becomes dying is in no call and in no claimed cache
LEMMA SafeStart ==
  ASSUME TypeOK, CacheSafe, NEW d \in Destroyers, NEW x \in Addr,
         StartDestroy(d, x)
  PROVE  CacheSafe'
<1>1. /\ dpc[d] = "idle" /\ dpc'[d] = FirstStep(obj[x].kind) /\ target'[d] = x
      /\ \A e \in Destroyers \ {d} : dpc'[e] = dpc[e] /\ target'[e] = target[e]
      /\ \A t \in Waiters : InCall(t) =>
           x \notin AddrsOf(args[t]) /\ (~Overlap => x \notin CachedAddrs(cw[t]))
      /\ UNCHANGED <<obj, waitsets, closing, inuse, ents, pc, cw, args, todo>>
  BY DEF StartDestroy, MayDestroy, TypeOK, heap, cdds, cwait, wvars
<1>2. Dying' \subseteq Dying \cup {x}
  BY <1>1 DEF Dying
<1>3. ArgsHeld'
  <2>1. \A t \in Waiters : (InCall(t)' <=> InCall(t)) /\ AddrsOf(args[t])' = AddrsOf(args[t])
    BY <1>1 DEF InCall, AddrsOf
  <2>2. \A t \in Waiters : InCall(t) => \A y \in AddrsOf(args[t]) : Usable(y)'
    BY <1>1, <1>2 DEF CacheSafe, ArgsHeld, Usable
  <2> QED
    BY <1>1, <2>1, <2>2 DEF CacheSafe, ArgsHeld
<1>4. OneUser' /\ UsersClaim' /\ CacheIsArgs' /\ CacheSound'
  BY <1>1 DEF CacheSafe, OneUser, UsersClaim, CacheIsArgs, CacheSound, Sound, Busy, CacheInUse, Claimed
<1>5. ClaimedClean'
  BY <1>1, <1>2 DEF CacheSafe, ClaimedClean, CachedAddrs, InCall
<1>6. CleanedGone'
  <2> SUFFICES ASSUME NEW e \in Destroyers, NEW w \in waitsets, CacheInUse(w), Cleaned(e, w)'
               PROVE  target'[e] \notin CachedAddrs(w)
    BY <1>1 DEF CleanedGone, CacheInUse, Claimed, CachedAddrs
  <2>1. CASE e = d
    <3>1. obj[x].kind = "pub"
      BY <1>1, <2>1 DEF Cleaned, FirstStep
    <3> QED
      BY <1>1, <2>1, <3>1, CachedObject DEF CacheSafe, CondKinds
  <2>2. CASE e # d
    BY <1>1, <2>2 DEF CacheSafe, CleanedGone, Cleaned
  <2> QED
    BY <2>1, <2>2
<1> QED
  BY <1>3, <1>4, <1>5, <1>6 DEF CacheSafe

\* clean_waitset_caches on one waitset: what is not in use is emptied
LEMMA SafeClean ==
  ASSUME TypeOK, CacheSafe, NEW d \in Destroyers, NEW w \in WS, CleanOne(d, w)
  PROVE  CacheSafe'
<1>1. /\ dpc[d] = "cleaning" /\ todo'[d] = todo[d] \ {w}
      /\ \A e \in Destroyers \ {d} : todo'[e] = todo[e]
      /\ \A v \in WS \ {w} : ents'[v] = ents[v]
      /\ inuse[w] => ents' = ents
      /\ ~inuse[w] => ents'[w] = <<>>
      /\ UNCHANGED <<obj, waitsets, closing, inuse, pc, cw, args, dpc, target>>
  BY DEF CleanOne, WaitsetDetach, TypeOK, heap, cdds, wvars
<1>2. \A t \in Waiters : Busy(t) => ents'[cw[t]] = ents[cw[t]]
  BY <1>1 DEF CacheSafe, UsersClaim, TypeOK
<1>3. ArgsHeld'
  BY <1>1, ArgsFrame DEF CacheSafe, ArgsHeld, InCall
<1>4. OneUser' /\ UsersClaim' /\ CacheIsArgs'
  BY <1>1, <1>2 DEF CacheSafe, OneUser, UsersClaim, CacheIsArgs, Busy
<1>5. ClaimedClean'
  BY <1>1, <1>2, ClaimedFrame DEF CacheSafe, Busy
<1>6. \A v \in waitsets : \/ ents'[v] = ents[v] \/ ents'[v] = <<>>
  BY <1>1 DEF TypeOK
<1>7. CacheSound'
  BY <1>1, <1>6 DEF CacheSafe, CacheSound, Sound, CacheInUse, Claimed
<1>8. CleanedGone'
  <2> SUFFICES ASSUME NEW e \in Destroyers, NEW v \in waitsets, CacheInUse(v), Cleaned(e, v)'
               PROVE  target[e] \notin CachedAddrs(v)'
    BY <1>1 DEF CleanedGone, CacheInUse, Claimed
  <2>1. CASE ents'[v] = <<>>
    BY <2>1 DEF CachedAddrs
  <2>2. CASE ents'[v] = ents[v] /\ Cleaned(e, v)
    BY <2>2 DEF CacheSafe, CleanedGone, CachedAddrs
  <2>3. CASE ents'[v] = ents[v] /\ ~Cleaned(e, v) /\ ents'[v] # <<>>
    <3>1. e = d /\ v = w /\ inuse[w]
      BY <1>1, <2>3 DEF Cleaned, TypeOK
    <3>2. ~Overlap /\ \E t \in Waiters : pc[t] = "claimed" /\ cw[t] = v
      BY <3>1 DEF CacheInUse, Claimed
    <3>3. target[e] \in Dying
      BY <1>1, <3>1 DEF Dying
    <3> QED
      BY <2>3, <3>2, <3>3 DEF CacheSafe, ClaimedClean, CachedAddrs
  <2> QED
    BY <1>6, <2>1, <2>2, <2>3
<1> QED
  BY <1>3, <1>4, <1>5, <1>7, <1>8 DEF CacheSafe

\* freeing an object: no cache in use holds it any more
LEMMA SafeFree ==
  ASSUME TypeOK, CacheSafe, NEW d \in Destroyers, FreeObject(d)
  PROVE  CacheSafe'
<1> DEFINE x == target[d]
<1>1. /\ dpc[d] = "deleted" /\ dpc'[d] = "idle" /\ x \in Addr
      /\ \A e \in Destroyers \ {d} : dpc'[e] = dpc[e] /\ target'[e] = target[e]
      /\ \A y \in Addr \ {x} : obj'[y] = obj[y]
      /\ UNCHANGED <<waitsets, closing, inuse, ents, pc, cw, args, todo>>
  BY DEF FreeObject, TypeOK, cdds, cwait, wvars
<1>2. Dying' \subseteq Dying /\ x \in Dying
  BY <1>1 DEF Dying
<1>3. ArgsHeld'
  <2>1. \A t \in Waiters : InCall(t) =>
          /\ \A y \in AddrsOf(args[t]) : y \in Addr /\ y # x /\ Usable(y)
          /\ \A i \in DOMAIN args[t].ents : args[t].ents[i].addr \in AddrsOf(args[t])
    <3> SUFFICES ASSUME NEW t \in Waiters, InCall(t)
                 PROVE  /\ \A y \in AddrsOf(args[t]) : y \in Addr /\ y # x /\ Usable(y)
                        /\ \A i \in DOMAIN args[t].ents : args[t].ents[i].addr \in AddrsOf(args[t])
      OBVIOUS
    <3>1. args[t] \in ArgSet
      BY DEF TypeOK
    <3>2. AddrsOf(args[t]) \subseteq Addr
      BY <3>1, ArgsAreSequences
    <3>3. \A i \in DOMAIN args[t].ents : args[t].ents[i].addr \in AddrsOf(args[t])
      BY DEF AddrsOf
    <3> QED
      BY <1>2, <3>2, <3>3 DEF CacheSafe, ArgsHeld, Usable
  <2>2. \A y \in Addr : y # x /\ Usable(y) => Usable(y)'
    BY <1>1, <1>2 DEF Usable
  <2> QED
    BY <1>1, <2>1, <2>2 DEF CacheSafe, ArgsHeld, InCall, AddrsOf
<1>4. OneUser' /\ UsersClaim' /\ CacheIsArgs'
  BY <1>1 DEF CacheSafe, OneUser, UsersClaim, CacheIsArgs, Busy
<1>5. ClaimedClean'
  BY <1>1, <1>2 DEF CacheSafe, ClaimedClean, CachedAddrs
<1>6. CleanedGone'
  BY <1>1 DEF CacheSafe, CleanedGone, Cleaned, CacheInUse, Claimed, CachedAddrs
<1>7. CacheSound'
  <2> SUFFICES ASSUME NEW w \in waitsets, CacheInUse(w), NEW i \in DOMAIN ents[w]
               PROVE  obj'[ents[w][i].addr].kind = ents[w][i].kind
    BY <1>1 DEF CacheSound, Sound, CacheInUse, Claimed
  <2>1. ents[w][i].addr \in Addr /\ ents[w][i].addr \in CachedAddrs(w)
    BY CachedKinds DEF TypeOK, CachedAddrs
  <2>2. x \notin CachedAddrs(w)
    BY <1>1 DEF CacheSafe, CleanedGone, Cleaned
  <2> QED
    BY <1>1, <2>1, <2>2 DEF CacheSafe, CacheSound, Sound
<1> QED
  BY <1>3, <1>4, <1>5, <1>6, <1>7 DEF CacheSafe

\* a step of a destroying thread keeps CacheSafe
LEMMA SafeDestroy ==
  ASSUME TypeOK, CacheSafe, NEW d \in Destroyers,
         (\E x \in Addr : StartDestroy(d, x)) \/ DestroyStep(d)
  PROVE  CacheSafe'
<1>1. CASE BeginClean(d) \/ EndClean(d) \/ DeleteEntity(d)
  <2>1. /\ \A e \in Destroyers : dpc'[e] # "idle" <=> dpc[e] # "idle"
        /\ \A e \in Destroyers : \A w \in waitsets : Cleaned(e, w)' => Cleaned(e, w)
        /\ UNCHANGED <<obj, waitsets, closing, inuse, ents, pc, cw, args, target>>
    BY <1>1 DEF BeginClean, EndClean, DeleteEntity, Cleaned, TypeOK, heap, cdds, cwait, wvars
  <2>2. Dying' = Dying
    BY <2>1 DEF Dying
  <2>3. ArgsHeld'
    BY <2>1, <2>2 DEF CacheSafe, ArgsHeld, InCall, AddrsOf, Usable
  <2>4. OneUser' /\ UsersClaim' /\ CacheIsArgs' /\ CacheSound'
    BY <2>1 DEF CacheSafe, OneUser, UsersClaim, CacheIsArgs, CacheSound, Sound, Busy, CacheInUse, Claimed
  <2>5. ClaimedClean' /\ CleanedGone'
    BY <2>1, <2>2 DEF CacheSafe, ClaimedClean, CleanedGone, CacheInUse, Claimed, CachedAddrs
  <2> QED
    BY <2>3, <2>4, <2>5 DEF CacheSafe
<1> QED
  BY <1>1, SafeStart, SafeClean, SafeFree DEF DestroyStep

\* CacheSafe is inductive relative to TypeOK
LEMMA SafeStep == TypeOK /\ CacheSafe /\ [Next]_vars => CacheSafe'
<1> SUFFICES ASSUME TypeOK, CacheSafe, [Next]_vars PROVE CacheSafe'
  OBVIOUS
<1>1. CASE UNCHANGED vars
  BY <1>1, SafeFrame DEF vars, SafeVars, heap, cdds, cwait, wvars, dvars
<1> QED
  BY <1>1, SafeEntity, SafeWaitSet, SafeWait, SafeDestroy DEF Next

\* the inductive invariant holds in every execution
THEOREM CacheSafeAlways == Spec => []CacheSafe
<1>1. TypeOK /\ CacheSafe /\ [Next]_vars => CacheSafe'
  BY SafeStep
<1> QED
  BY <1>1, SafeInit, TypeCorrect, PTL DEF Spec

\* clean_waitset_caches never follows a pointer to a freed or recycled object,
\* whatever is destroyed while rmw_wait runs, and no rmw_wait finds one in the
\* waitset it claims, for any number of waitsets, threads and entities
THEOREM NoDanglingCache == Spec => []SweepNeverDangles
<1>1. CacheSafe => SweepNeverDangles
  BY DEF CacheSafe, CacheSound, CacheInUse, SweepNeverDangles
<1> QED
  BY <1>1, CacheSafeAlways, PTL

\* nor does any rmw_wait that has claimed its waitset (4534) follow one when it
\* compares or detaches it (4537-4548), if nothing that this waitset has cached
\* is destroyed meanwhile
COROLLARY NoDanglingClaim == ASSUME ~Overlap PROVE Spec => []CacheNeverDangles
<1>1. CacheSafe => CacheNeverDangles
  BY DEF CacheSafe, CacheSound, CacheInUse, CacheNeverDangles
<1> QED
  BY <1>1, CacheSafeAlways, PTL

\* no two threads work on one waitset, although the flag that keeps them apart
\* is dropped before rmw_wait returns
THEOREM OneUserPerWaitset == Spec => []OneUser
<1>1. CacheSafe => OneUser
  BY DEF CacheSafe
<1> QED
  BY <1>1, CacheSafeAlways, PTL
-----------------------------------------------------------------------------
(***************************************************************************)
(* What is attached.  The handle of an object that is not deleted yet is   *)
(* nobody else's.                                                          *)
(***************************************************************************)
Real(x) == obj[x] # Free /\ \A d \in Destroyers : ~(dpc[d] = "deleted" /\ target[d] = x)
HandlesOnce ==
  /\ \A x, y \in Addr : Real(x) /\ Real(y) /\ obj[x].h = obj[y].h => x = y
  /\ \A x \in Addr : Real(x) => obj[x].h \in live /\ obj[x].h # gc_for_empty_waitset
  /\ gc_for_empty_waitset \in live \cup {NoHandle}
  /\ \A d, e \in Destroyers : dpc[d] # "idle" /\ dpc[e] # "idle" /\ target[d] = target[e] => d = e
  /\ \A d \in Destroyers : dpc[d] # "idle" => obj[target[d]] # Free
  /\ trig \subseteq Handles

\* a waitset that nobody uses, or whose user has not lost it
Kept(w) == ~inuse[w] \/ \E t \in Waiters : Busy(t) /\ cw[t] = w
\* what is attached to a waitset is what it has cached, as far as it exists
AttachFollows ==
  /\ \A w \in WS \ (waitsets \ closing) : attE[w] = {} /\ attS[w] = {}
  /\ \A w \in waitsets \ closing : Kept(w) =>
       /\ attE[w] = Attachments(ents[w])
       /\ attS[w] = Gathered(evs[w]) \cap live
       /\ nelems[w] = Len(ents[w]) + Cardinality(Gathered(evs[w]))
\* from here on nothing is destroyed that an rmw_wait in progress has cached
UserCaches ==
  /\ ~Overlap
  /\ \A t \in Waiters :
    /\ pc[t] = "detached" => ents[cw[t]] = <<>> /\ evs[cw[t]] = <<>>
    /\ pc[t] = "blocked" => evs[cw[t]] = Resolve(args[t].evs)
\* (the entities collected are among those the events belong to)
LEMMA GatheredAll == \A es : Gathered(es) \subseteq EventHandles(es)
  BY DEF Gathered, EventHandles
AttachInv == HandlesOnce /\ AttachFollows /\ UserCaches

\* an object that is there has a handle
LEMMA RealHandle ==
  ASSUME TypeOK, NEW x \in Addr, obj[x] # Free
  PROVE  obj[x].h \in Handles /\ obj[x].kind \in Kinds
BY DEF TypeOK, Objects

\* steps that leave the objects alone and delete nothing
LEMMA HandlesFrame ==
  ASSUME HandlesOnce, UNCHANGED <<obj, target>>, trig' \subseteq Handles,
         \A d \in Destroyers : /\ dpc'[d] = "deleted" <=> dpc[d] = "deleted"
                               /\ dpc'[d] = "idle" <=> dpc[d] = "idle",
         \/ UNCHANGED <<live, gc_for_empty_waitset>>
         \/ gc_for_empty_waitset' \in Handles \ live /\ live' = live \cup {gc_for_empty_waitset'}
         \/ gc_for_empty_waitset' = NoHandle /\ live' = live \ {gc_for_empty_waitset},
         TypeOK
  PROVE  HandlesOnce'
<1>1. \A x \in Addr : Real(x)' <=> Real(x)
  BY DEF Real
<1>2. \A x \in Addr : Real(x) => obj[x].h \in Handles
  BY RealHandle DEF Real
<1>3. (\A x, y \in Addr : Real(x) /\ Real(y) /\ obj[x].h = obj[y].h => x = y)'
  BY <1>1 DEF HandlesOnce
<1>4. (\A x \in Addr : Real(x) => obj[x].h \in live /\ obj[x].h # gc_for_empty_waitset)'
  BY <1>1, <1>2, HandleAssumption DEF HandlesOnce
<1>5. (gc_for_empty_waitset \in live \cup {NoHandle})'
  BY DEF HandlesOnce
<1> QED
  BY <1>3, <1>4, <1>5 DEF HandlesOnce

\* a step of the application or the network
LEMMA HandlesEntity == TypeOK /\ HandlesOnce /\ EntityStep => HandlesOnce'
<1> SUFFICES ASSUME TypeOK, HandlesOnce, NEW x \in Addr,
             \/ \E k \in Kinds : CreateEntity(x, k)
             \/ TriggerGuardCondition(x) \/ DataArrives(x) \/ TakeData(x)
             \/ \E ty \in EvTypes : StatusChanges(x, ty) \/ TakeEvent(x, ty)
             PROVE HandlesOnce'
  BY DEF EntityStep
<1>1. ASSUME NEW k \in Kinds, CreateEntity(x, k) PROVE HandlesOnce'
  <2>1. PICK h \in FreshHandles :
          obj' = [obj EXCEPT ![x] = [kind |-> k, h |-> h]] /\ live' = live \cup {h}
    BY <1>1 DEF CreateEntity
  <2>2. /\ h \in Handles \ live /\ obj[x] = Free /\ obj'[x].h = h /\ obj'[x] # Free
        /\ \A y \in Addr \ {x} : obj'[y] = obj[y]
        /\ UNCHANGED <<gc_for_empty_waitset, dpc, target, trig>>
    BY <1>1, <2>1, HandleAssumption DEF CreateEntity, FreshHandles, TypeOK, cdds, dvars, Free, Kinds
  <2>3. \A d \in Destroyers : dpc[d] # "idle" => target[d] # x
    BY <2>2 DEF HandlesOnce
  <2>4. \A y \in Addr \ {x} : Real(y)' <=> Real(y)
    BY <2>2 DEF Real
  <2>5. \A y \in Addr \ {x} : Real(y) => obj[y].h \in live /\ obj[y].h # h
    BY <2>2 DEF HandlesOnce
  <2>6. (\A y, z \in Addr : Real(y) /\ Real(z) /\ obj[y].h = obj[z].h => y = z)'
    BY <2>2, <2>4, <2>5 DEF HandlesOnce
  <2>7. (\A y \in Addr : Real(y) => obj[y].h \in live /\ obj[y].h # gc_for_empty_waitset)'
    <3>1. gc_for_empty_waitset # h
      BY <2>2, HandleAssumption DEF HandlesOnce
    <3> QED
      BY <2>1, <2>2, <2>4, <2>5, <3>1 DEF HandlesOnce
  <2> QED
    BY <2>1, <2>2, <2>3, <2>6, <2>7 DEF HandlesOnce, TypeOK
<1>2. CASE TriggerGuardCondition(x) \/ DataArrives(x) \/ TakeData(x)
  <2>1. obj[x] # Free
    BY <1>2 DEF TriggerGuardCondition, DataArrives, TakeData, Usable, Free
  <2>2. trig' \subseteq Handles
    BY <1>2, <2>1, RealHandle DEF TriggerGuardCondition, DataArrives, TakeData, HandlesOnce
  <2> QED
    BY <1>2, <2>2, HandlesFrame DEF TriggerGuardCondition, DataArrives, TakeData, heap, cdds, dvars
<1>3. CASE \E ty \in EvTypes : StatusChanges(x, ty) \/ TakeEvent(x, ty)
  <2>1. UNCHANGED <<obj, live, trig, gc_for_empty_waitset, dpc, target>>
    BY <1>3 DEF StatusChanges, TakeEvent, cdds, dvars
  <2>2. trig' \subseteq Handles
    BY <2>1 DEF HandlesOnce
  <2> QED
    BY <2>1, <2>2, HandlesFrame
<1> QED
  BY <1>1, <1>2, <1>3

\* the creation and the destruction of waitsets
LEMMA HandlesWaitSet == TypeOK /\ HandlesOnce /\ WaitSetStep => HandlesOnce'
<1> SUFFICES ASSUME TypeOK, HandlesOnce, WaitSetStep PROVE HandlesOnce'
  OBVIOUS
<1>1. trig \subseteq Handles
  BY DEF HandlesOnce
<1>2. LazyDummy =>
        \/ UNCHANGED <<live, gc_for_empty_waitset>>
        \/ gc_for_empty_waitset' \in Handles \ live /\ live' = live \cup {gc_for_empty_waitset'}
  BY DEF LazyDummy, FreshHandles
<1>3. ASSUME NEW w \in WS, CreateWaitSet(w) PROVE HandlesOnce'
  <2>1. UNCHANGED <<obj, trig, dpc, target>> /\ LazyDummy
    BY <1>3 DEF CreateWaitSet, dvars
  <2> QED
    BY <1>1, <1>2, <2>1, HandlesFrame
<1>4. CASE CreateWaitSetFails
  <2>1. UNCHANGED <<obj, trig, dpc, target>> /\ LazyDummy
    BY <1>4 DEF CreateWaitSetFails, dvars
  <2> QED
    BY <1>1, <1>2, <2>1, HandlesFrame
<1>5. ASSUME NEW w \in WS, DestroyWaitSet(w) PROVE HandlesOnce'
  <2>1. UNCHANGED <<obj, live, trig, gc_for_empty_waitset, dpc, target>>
    BY <1>5 DEF DestroyWaitSet, heap, dvars
  <2> QED
    BY <1>1, <2>1, HandlesFrame
<1>6. ASSUME NEW w \in WS, EraseWaitSet(w) PROVE HandlesOnce'
  <2>1. /\ UNCHANGED <<obj, trig, dpc, target>>
        /\ \/ UNCHANGED <<live, gc_for_empty_waitset>>
           \/ gc_for_empty_waitset' = NoHandle /\ live' = live \ {gc_for_empty_waitset}
    BY <1>6 DEF EraseWaitSet, DropDummy, dvars
  <2> QED
    BY <1>1, <2>1, HandlesFrame
<1> QED
  BY <1>3, <1>4, <1>5, <1>6 DEF WaitSetStep

\* a step of rmw_wait
LEMMA HandlesWait ==
  ASSUME TypeOK, HandlesOnce, NEW t \in Waiters, CallStep(t) \/ WaitStep(t)
  PROVE  HandlesOnce'
<1>1. UNCHANGED <<obj, live, gc_for_empty_waitset, dpc, target>> /\ trig' \subseteq trig
  <2>1. CASE Attach(t) \/ GatherFails(t)
    BY <2>1 DEF Attach, GatherFails, cdds, dvars
  <2>2. CASE Report(t)
    BY <2>2 DEF Report, heap, cdds, dvars
  <2>3. CASE CacheHit(t) \/ Detach(t) \/ Wake(t) \/ TimeOut(t) \/ Release(t) \/ Return(t)
    BY <2>3 DEF CacheHit, Detach, Wake, TimeOut, Release, Return, heap, cdds, dvars
  <2>4. CASE CallStep(t)
    BY <2>4 DEF CallStep, Claim, Reject, vars, heap, cdds, dvars
  <2> QED
    BY <2>1, <2>2, <2>3, <2>4 DEF WaitStep
<1>3. trig' \subseteq Handles
  BY <1>1 DEF HandlesOnce
<1> QED
  BY <1>1, <1>3, HandlesFrame

\* a step of a destruction
LEMMA HandlesDestroy ==
  ASSUME TypeOK, HandlesOnce, NEW d \in Destroyers,
         (\E x \in Addr : StartDestroy(d, x)) \/ DestroyStep(d)
  PROVE  HandlesOnce'
<1>1. trig \subseteq Handles
  BY DEF HandlesOnce
<1>2. ASSUME NEW x \in Addr, StartDestroy(d, x) PROVE HandlesOnce'
  <2>1. /\ dpc[d] = "idle" /\ dpc'[d] \in {"cleaned", "lock"} /\ target'[d] = x
        /\ \A e \in Destroyers \ {d} : dpc'[e] = dpc[e] /\ target'[e] = target[e]
        /\ obj[x] # Free /\ x \notin Dying
        /\ UNCHANGED <<obj, live, trig, gc_for_empty_waitset>>
    BY <1>2 DEF StartDestroy, MayDestroy, Usable, FirstStep, TypeOK, heap, cdds
  <2>2. \A y \in Addr : Real(y)' <=> Real(y)
    BY <2>1 DEF Real
  <2>3. \A e \in Destroyers \ {d} : dpc[e] # "idle" => target[e] # x
    BY <2>1 DEF Dying
  <2> QED
    BY <2>1, <2>2, <2>3 DEF HandlesOnce
<1>3. CASE BeginClean(d) \/ EndClean(d) \/ \E w \in WS : CleanOne(d, w)
  <2>1. /\ UNCHANGED <<obj, live, trig, gc_for_empty_waitset, target>>
        /\ \A e \in Destroyers : /\ dpc'[e] = "deleted" <=> dpc[e] = "deleted"
                                 /\ dpc'[e] = "idle" <=> dpc[e] = "idle"
    BY <1>3 DEF BeginClean, EndClean, CleanOne, TypeOK, heap, cdds
  <2> QED
    BY <1>1, <2>1, HandlesFrame
<1>4. CASE DeleteEntity(d)
  <2> DEFINE x == target[d]
             h == obj[x].h
  <2>1. /\ dpc[d] = "cleaned" /\ dpc'[d] = "deleted" /\ x \in Addr
        /\ \A e \in Destroyers \ {d} : dpc'[e] = dpc[e]
        /\ live' = live \ {h} /\ trig' = trig \ {h}
        /\ UNCHANGED <<obj, gc_for_empty_waitset, target>>
    BY <1>4 DEF DeleteEntity, TypeOK, cdds
  <2>2. Real(x)
    BY <2>1 DEF HandlesOnce, Real
  <2>3. \A y \in Addr : Real(y)' => Real(y) /\ y # x
    BY <2>1 DEF Real
  <2>4. h # gc_for_empty_waitset /\ \A y \in Addr : Real(y) /\ y # x => obj[y].h # h
    BY <2>1, <2>2 DEF HandlesOnce
  <2> HIDE DEF x, h
  <2>5. (\A y \in Addr : Real(y) => obj[y].h \in live /\ obj[y].h # gc_for_empty_waitset)'
    BY <2>1, <2>3, <2>4 DEF HandlesOnce
  <2>6. (\A y, z \in Addr : Real(y) /\ Real(z) /\ obj[y].h = obj[z].h => y = z)'
    BY <2>1, <2>3 DEF HandlesOnce
  <2>7. gc_for_empty_waitset \in live' \cup {NoHandle} /\ trig' \subseteq Handles
    BY <2>1, <2>4 DEF HandlesOnce
  <2> QED
    BY <2>1, <2>5, <2>6, <2>7 DEF HandlesOnce
<1>5. CASE FreeObject(d)
  <2>1. /\ dpc[d] = "deleted" /\ dpc'[d] = "idle" /\ target[d] \in Addr /\ obj'[target[d]] = Free
        /\ \A e \in Destroyers \ {d} : dpc'[e] = dpc[e] /\ target'[e] = target[e]
        /\ \A y \in Addr \ {target[d]} : obj'[y] = obj[y]
        /\ UNCHANGED <<live, trig, gc_for_empty_waitset>>
    BY <1>5 DEF FreeObject, TypeOK, cdds
  <2>2. \A e \in Destroyers \ {d} : dpc[e] # "idle" => target[e] # target[d] /\ target[e] \in Addr
    BY <2>1 DEF HandlesOnce, TypeOK
  <2>3. \A y \in Addr : Real(y)' => Real(y) /\ y # target[d]
    BY <2>1 DEF Real
  <2>4. (\A y, z \in Addr : Real(y) /\ Real(z) /\ obj[y].h = obj[z].h => y = z)'
    BY <2>1, <2>3 DEF HandlesOnce
  <2>5. (\A y \in Addr : Real(y) => obj[y].h \in live /\ obj[y].h # gc_for_empty_waitset)'
    BY <2>1, <2>3 DEF HandlesOnce
  <2> QED
    BY <2>1, <2>2, <2>4, <2>5 DEF HandlesOnce
<1> QED
  BY <1>2, <1>3, <1>4, <1>5 DEF DestroyStep

\* an object that is there and is not about to be deleted
Firm(x) ==
  obj[x] # Free /\ \A d \in Destroyers : dpc[d] \in {"cleaned", "deleted"} => target[d] # x

\* the arguments of a call in progress are
LEMMA ArgsFirm ==
  ASSUME TypeOK, CacheSafe, NEW t \in Waiters, InCall(t), NEW x \in AddrsOf(args[t])
  PROVE  x \in Addr /\ Firm(x) /\ Real(x) /\ x \notin Dying
<1>1. args[t] \in ArgSet
  BY DEF TypeOK
<1>2. x \in Addr /\ Usable(x)
  BY <1>1, ArgsAreSequences DEF CacheSafe, ArgsHeld
<1> QED
  BY <1>2 DEF Usable, Dying, Firm, Real

\* and so is what a waitset that is kept has cached
LEMMA KeptFirm ==
  ASSUME TypeOK, CacheSafe, UserCaches, NEW w \in waitsets, Kept(w), NEW x \in CachedAddrs(w)
  PROVE  x \in Addr /\ Firm(x)
<1>1. w \in WS
  BY DEF TypeOK
<1>2. x \in Addr
  BY <1>1, CachedKinds DEF CachedAddrs
<1>3. CASE CacheInUse(w)
  <2>1. obj[x].kind \in CondKinds
    BY <1>3, CachedObject DEF CacheSafe
  <2>2. \A d \in Destroyers : dpc[d] \in {"cleaned", "deleted"} => target[d] # x
    BY <1>3 DEF CacheSafe, CleanedGone, Cleaned
  <2> QED
    BY <1>2, <2>1, <2>2 DEF Firm, CondKinds, Free
<1>4. CASE ~CacheInUse(w)
  <2>1. PICK t \in Waiters : Busy(t) /\ cw[t] = w /\ pc[t] # "claimed"
    BY <1>4 DEF Kept, CacheInUse, Claimed, UserCaches
  <2>2. CASE pc[t] = "detached"
    <3>1. ents[w] = <<>>
      BY <2>1, <2>2 DEF UserCaches
    <3> QED
      BY <3>1 DEF CachedAddrs
  <2>3. CASE pc[t] \in {"blocked", "woken", "reported"}
    <3>1. ents[w] = args[t].ents /\ InCall(t)
      BY <2>1, <2>3 DEF CacheSafe, CacheIsArgs, InCall
    <3>2. x \in AddrsOf(args[t])
      BY <3>1 DEF CachedAddrs, AddrsOf
    <3> QED
      BY <3>1, <3>2, ArgsFirm
  <2> QED
    BY <2>1, <2>2, <2>3 DEF Busy, TypeOK, PCs
<1> QED
  BY <1>3, <1>4

\* what the attachments of a list are, while its objects keep their handles
LEMMA AttachmentsKept ==
  ASSUME NEW es \in Seq(Elems), \A i \in DOMAIN es : obj'[es[i].addr].h = obj[es[i].addr].h
  PROVE  Attachments(es)' = Attachments(es)
<1> DEFINE first(j) == \A k \in 1..(j-1) : CondAt(es[k]) # CondAt(es[j])
           F == {j \in DOMAIN es : first(j)}
<1>1. \A i \in DOMAIN es : CondAt(es[i])' = CondAt(es[i])
  BY DEF CondAt
<1>2. ASSUME NEW j \in DOMAIN es PROVE first(j)' <=> first(j)
  <2>1. \A k \in 1..(j-1) : k \in DOMAIN es
    OBVIOUS
  <2> QED
    BY <1>1, <2>1
<1> HIDE DEF first
<1>3. F' = F
  BY <1>2
<1>4. Attachments(es) = {<<CondAt(es[i]), i>> : i \in F}
  BY DEF Attachments, first
<1>5. Attachments(es)' = {<<CondAt(es[i])', i>> : i \in F'}
  BY DEF Attachments, first
<1> HIDE DEF F
<1>6. \A i \in F : i \in DOMAIN es
  BY DEF F
<1> QED
  BY <1>1, <1>3, <1>4, <1>5, <1>6

\* (the attachments of what a waitset has cached after a step)
LEMMA AttachmentsOf ==
  ASSUME NEW w, NEW es, ents'[w] = es
  PROVE  Attachments(ents[w])' = Attachments(es)'
BY DEF Attachments, CondAt

\* (the events of what a thread is given in a step)
LEMMA ResolvedOf ==
  ASSUME NEW t, NEW es, args'[t].evs = es
  PROVE  Resolve(args[t].evs)' = Resolve(es)'
BY DEF Resolve

\* a step that leaves the caches alone, and of what is firm the handles
LEMMA AttachObjects ==
  ASSUME TypeOK, CacheSafe, UserCaches, AttachFollows,
         UNCHANGED <<waitsets, closing, inuse, ents, evs, nelems, pc, cw, args>>,
         \A x \in Addr : Firm(x) => obj'[x].h = obj[x].h,
         \A w \in WS : attE'[w] \subseteq attE[w] /\ attS'[w] \subseteq attS[w],
         \A w \in WS : Gathered(evs[w]) \cap live' \subseteq live,
         \A w \in waitsets \ closing : Kept(w) => attS'[w] = attS[w] \cap live',
         \A w \in waitsets \ closing : \A x \in Addr :
           Firm(x) => \A p \in attE[w] : p[1] = obj[x].h => p \in attE'[w]
  PROVE  AttachFollows' /\ UserCaches'
<1>1. \A w \in WS : Kept(w)' <=> Kept(w)
  BY DEF Kept, Busy
<1>2. ASSUME NEW w \in waitsets \ closing, Kept(w)
      PROVE  /\ attE'[w] = Attachments(ents[w])'
             /\ attS'[w] = Gathered(evs[w]) \cap live'
             /\ nelems[w] = Len(ents[w]) + Cardinality(Gathered(evs[w]))
  <2>1. /\ w \in WS /\ attE[w] = Attachments(ents[w])
        /\ attS[w] = Gathered(evs[w]) \cap live
        /\ nelems[w] = Len(ents[w]) + Cardinality(Gathered(evs[w]))
    BY <1>2 DEF AttachFollows, TypeOK
  <2>2. PICK es \in Seq(Elems) : es = ents[w]
    BY <2>1 DEF TypeOK
  <2>3. \A i \in DOMAIN es : es[i].addr \in Addr /\ Firm(es[i].addr)
    BY <1>2, <2>2, KeptFirm DEF CachedAddrs
  <2>4. Attachments(es)' = Attachments(es)
    BY <2>3, AttachmentsKept
  <2>5. \A p \in Attachments(es) : \E i \in DOMAIN es : p[1] = obj[es[i].addr].h
    BY DEF Attachments, CondAt
  <2>6. attE'[w] = attE[w]
    <3>1. \A p \in attE[w] : \E x \in Addr : Firm(x) /\ p[1] = obj[x].h
      BY <2>1, <2>2, <2>3, <2>5
    <3>2. \A p \in attE[w] : p \in attE'[w]
      BY <1>2, <3>1
    <3> QED
      BY <2>1, <3>2
  <2>7. Attachments(ents[w])' = Attachments(es)'
    BY <2>2, AttachmentsOf
  <2>8. attS'[w] = Gathered(evs[w]) \cap live'
    BY <1>2, <2>1
  <2> QED
    BY <2>1, <2>2, <2>4, <2>6, <2>7, <2>8
<1>3. AttachFollows'
  <2>1. \A w \in WS : w \notin waitsets \ closing => attE'[w] = {} /\ attS'[w] = {}
    BY DEF AttachFollows
  <2>2. \A w \in WS : w \in waitsets' \ closing' <=> w \in waitsets \ closing
    OBVIOUS
  <2>3. \A w \in waitsets : w \in WS
    BY DEF TypeOK
  <2>4. \A w \in WS : Gathered(evs[w])' = Gathered(evs[w])
    BY DEF Gathered
  <2> QED
    BY <1>1, <1>2, <2>1, <2>2, <2>3, <2>4 DEF AttachFollows
<1>4. ASSUME NEW t \in Waiters, pc[t] = "blocked"
      PROVE  evs'[cw'[t]] = Resolve(args[t].evs)'
  <2>1. PICK vs : vs = args[t].evs
    OBVIOUS
  <2>2. \A i \in DOMAIN vs : vs[i].addr \in Addr /\ obj'[vs[i].addr].h = obj[vs[i].addr].h
    <3>1. InCall(t) /\ \A i \in DOMAIN vs : vs[i].addr \in AddrsOf(args[t])
      BY <1>4, <2>1 DEF InCall, AddrsOf
    <3> QED
      BY <3>1, ArgsFirm
  <2>3. Resolve(vs)' = Resolve(vs)
    BY <2>2 DEF Resolve
  <2>4. Resolve(args[t].evs)' = Resolve(vs)'
    BY <2>1, ResolvedOf
  <2> QED
    BY <1>4, <2>1, <2>3, <2>4 DEF UserCaches
<1>5. UserCaches'
  <2>1. \A t \in Waiters : pc'[t] = pc[t] /\ cw'[t] = cw[t] /\ ents'[cw'[t]] = ents[cw[t]] /\ evs'[cw'[t]] = evs[cw[t]]
    OBVIOUS
  <2> QED
    BY <1>4, <2>1 DEF UserCaches
<1> QED
  BY <1>3, <1>5

\* a step that touches neither objects nor waitsets
AttachVars == <<obj, live, waitsets, closing, inuse, ents, evs, nelems, attE, attS, pc, cw, args>>
\* (such a step keeps what is attached and what is cached)
LEMMA AttachFrame ==
  ASSUME TypeOK, CacheSafe, UserCaches, AttachFollows, UNCHANGED AttachVars
  PROVE  AttachFollows' /\ UserCaches'
<1>1. UNCHANGED <<obj, live, waitsets, closing, inuse, ents, evs, nelems, attE, attS, pc, cw, args>>
  BY DEF AttachVars
<1>2. \A w \in waitsets \ closing : Kept(w) => attS'[w] = attS[w] \cap live'
  BY <1>1 DEF AttachFollows
<1> QED
  BY <1>1, <1>2, AttachObjects

\* a step of the application or the network
LEMMA AttachEntity ==
  TypeOK /\ CacheSafe /\ UserCaches /\ AttachFollows /\ EntityStep => AttachFollows' /\ UserCaches'
<1> SUFFICES ASSUME TypeOK, CacheSafe, UserCaches, AttachFollows, NEW x \in Addr,
             \/ \E k \in Kinds : CreateEntity(x, k)
             \/ TriggerGuardCondition(x) \/ DataArrives(x) \/ TakeData(x)
             \/ \E ty \in EvTypes : StatusChanges(x, ty) \/ TakeEvent(x, ty)
             PROVE AttachFollows' /\ UserCaches'
  BY DEF EntityStep
<1>1. ASSUME NEW k \in Kinds, CreateEntity(x, k) PROVE AttachFollows' /\ UserCaches'
  <2>1. PICK h \in FreshHandles :
          obj' = [obj EXCEPT ![x] = [kind |-> k, h |-> h]] /\ live' = live \cup {h}
    BY <1>1 DEF CreateEntity
  <2>2. /\ obj[x] = Free /\ \A y \in Addr \ {x} : obj'[y] = obj[y]
        /\ \A w \in WS : h \notin Gathered(evs[w])
        /\ UNCHANGED <<waitsets, closing, inuse, ents, evs, nelems, attE, attS, pc, cw, args>>
    BY <1>1, <2>1 DEF CreateEntity, FreshHandles, Gathered, EventHandles, TypeOK, cdds, cwait, att, wvars
  <2>3. \A w \in WS : Gathered(evs[w]) \cap live' \subseteq live
    BY <2>1, <2>2
  <2>4. \A w \in waitsets \ closing : Kept(w) => attS'[w] = attS[w] \cap live'
    BY <2>1, <2>2 DEF AttachFollows
  <2>5. \A y \in Addr : Firm(y) => obj'[y].h = obj[y].h
    BY <2>2 DEF Firm
  <2> QED
    BY <2>2, <2>3, <2>4, <2>5, AttachObjects
<1>2. CASE \/ TriggerGuardCondition(x) \/ DataArrives(x) \/ TakeData(x)
           \/ \E ty \in EvTypes : StatusChanges(x, ty) \/ TakeEvent(x, ty)
  <2>1. UNCHANGED AttachVars
    BY <1>2 DEF TriggerGuardCondition, DataArrives, TakeData, StatusChanges, TakeEvent,
                AttachVars, heap, cdds, cwait, att, wvars
  <2> QED
    BY <2>1, AttachFrame
<1> QED
  BY <1>1, <1>2

\* waitset_detach leaves nothing attached of what is kept
LEMMA DetachedAll ==
  ASSUME TypeOK, AttachFollows, NEW w \in WS, WaitsetDetach(w), w \in waitsets \ closing => Kept(w)
  PROVE  /\ attE'[w] = {} /\ attS'[w] = {} /\ ents'[w] = <<>> /\ evs'[w] = <<>> /\ nelems'[w] = 0
         /\ \A v \in WS \ {w} : /\ attE'[v] = attE[v] /\ attS'[v] = attS[v] /\ ents'[v] = ents[v]
                                /\ evs'[v] = evs[v] /\ nelems'[v] = nelems[v]
<1>1. /\ attE'[w] = {p \in attE[w] : \A i \in DOMAIN ents[w] : CondAt(ents[w][i]) # p[1]}
      /\ attS'[w] = attS[w] \ EventHandles(evs[w])
      /\ ents'[w] = <<>> /\ evs'[w] = <<>> /\ nelems'[w] = 0
      /\ \A v \in WS \ {w} : /\ attE'[v] = attE[v] /\ attS'[v] = attS[v] /\ ents'[v] = ents[v]
                             /\ evs'[v] = evs[v] /\ nelems'[v] = nelems[v]
  BY DEF WaitsetDetach, TypeOK
<1>2. CASE w \in waitsets \ closing
  <2>1. attE[w] = Attachments(ents[w]) /\ attS[w] \subseteq EventHandles(evs[w])
    BY <1>2, GatheredAll DEF AttachFollows
  <2>2. \A p \in Attachments(ents[w]) : \E i \in DOMAIN ents[w] : CondAt(ents[w][i]) = p[1]
    BY DEF Attachments
  <2> QED
    BY <1>1, <2>1, <2>2
<1>3. CASE w \notin waitsets \ closing
  BY <1>1, <1>3 DEF AttachFollows
<1> QED
  BY <1>2, <1>3

\* an empty cache has nothing attached
LEMMA NoneAttached ==
  ASSUME NEW w, ents'[w] = <<>>, evs'[w] = <<>>
  PROVE  /\ Attachments(ents[w])' = {} /\ Gathered(evs[w])' = {}
         /\ Len(ents'[w]) + Cardinality(Gathered(evs[w])') = 0
<1>1. Attachments(ents[w])' = {} /\ Gathered(evs[w])' = {}
  BY DEF Attachments, Gathered
<1>2. Len(ents'[w]) = 0 /\ Cardinality({}) = 0
  BY FS_EmptySet
<1>3. Cardinality(Gathered(evs[w])') = 0
  BY <1>1, <1>2
<1> QED
  BY <1>1, <1>2, <1>3

\* a step that rewrites the cache of one waitset, of which nothing is attached
\* afterwards but what is cached
LEMMA AttachOne ==
  ASSUME TypeOK, CacheSafe, UserCaches, AttachFollows, NEW w \in WS,
         obj' = obj,
         \A v \in WS \ {w} : /\ attE'[v] = attE[v] /\ attS'[v] = attS[v] /\ ents'[v] = ents[v]
                             /\ evs'[v] = evs[v] /\ nelems'[v] = nelems[v]
                             /\ v \in waitsets' \ closing' <=> v \in waitsets \ closing
                             /\ v \in waitsets' \ closing' /\ Kept(v)' => Kept(v)
                             /\ v \in waitsets' \ closing' =>
                                  Gathered(evs[v]) \cap live' = Gathered(evs[v]) \cap live,
         waitsets' \subseteq WS,
         w \notin waitsets' \ closing' => attE'[w] = {} /\ attS'[w] = {},
         w \in waitsets' \ closing' /\ Kept(w)' =>
           /\ attE'[w] = Attachments(ents[w])'
           /\ attS'[w] = Gathered(evs[w])' \cap live'
           /\ nelems'[w] = Len(ents'[w]) + Cardinality(Gathered(evs[w])')
  PROVE  AttachFollows'
<1>1. ASSUME NEW v \in WS \ {w}, v \in waitsets' \ closing', Kept(v)'
      PROVE  /\ attE'[v] = Attachments(ents[v])'
             /\ attS'[v] = Gathered(evs[v])' \cap live'
             /\ nelems'[v] = Len(ents'[v]) + Cardinality(Gathered(evs[v])')
  <2>1. /\ attE[v] = Attachments(ents[v]) /\ attS[v] = Gathered(evs[v]) \cap live
        /\ nelems[v] = Len(ents[v]) + Cardinality(Gathered(evs[v]))
    BY <1>1 DEF AttachFollows
  <2>2. PICK es \in Seq(Elems) : es = ents[v]
    BY DEF TypeOK
  <2>3. Attachments(es)' = Attachments(es)
    BY AttachmentsKept
  <2>4. Attachments(ents[v])' = Attachments(es)'
    BY <1>1, <2>2, AttachmentsOf
  <2>5. Gathered(evs[v])' = Gathered(evs[v])
    BY <1>1 DEF Gathered
  <2> QED
    BY <1>1, <2>1, <2>2, <2>3, <2>4, <2>5
<1>2. \A v \in WS \ {w} : v \notin waitsets' \ closing' => attE'[v] = {} /\ attS'[v] = {}
  BY DEF AttachFollows
<1> QED
  BY <1>1, <1>2 DEF AttachFollows

\* the creation and the destruction of waitsets
LEMMA AttachWaitSet ==
  TypeOK /\ CacheSafe /\ UserCaches /\ AttachFollows /\ WaitSetStep => AttachFollows' /\ UserCaches'
<1> SUFFICES ASSUME TypeOK, CacheSafe, UserCaches, AttachFollows, WaitSetStep
             PROVE  AttachFollows' /\ UserCaches'
  OBVIOUS
<1>1. LazyDummy => /\ live \subseteq live'
                   /\ \A v \in WS : Gathered(evs[v]) \cap live' = Gathered(evs[v]) \cap live
  BY DEF LazyDummy, FreshHandles, Gathered, EventHandles
<1>2. waitsets \subseteq WS /\ closing \subseteq waitsets
  BY DEF TypeOK
<1>3. \A t \in Waiters : InCall(t) => cw[t] \in waitsets \ closing
  BY DEF CacheSafe, ArgsHeld
\* only waitsets that no call uses are created or erased
<1>4. ASSUME NEW w \in WS, w \notin waitsets \ closing, UNCHANGED <<obj, pc, cw, args>>,
             \A v \in WS \ {w} : ents'[v] = ents[v] /\ evs'[v] = evs[v]
      PROVE  UserCaches'
  <2>1. \A t \in Waiters : pc[t] # "idle" => cw[t] \in WS \ {w}
    BY <1>2, <1>3, <1>4 DEF InCall
  <2>2. \A t \in Waiters : Resolve(args[t].evs)' = Resolve(args[t].evs)
    BY <1>4 DEF Resolve
  <2> QED
    BY <1>4, <2>1, <2>2 DEF UserCaches
<1>5. ASSUME NEW w \in WS, CreateWaitSet(w) PROVE AttachFollows' /\ UserCaches'
  <2>1. /\ w \notin waitsets /\ waitsets' = waitsets \cup {w} /\ LazyDummy
        /\ ents'[w] = <<>> /\ evs'[w] = <<>> /\ nelems'[w] = 0
        /\ \A v \in WS \ {w} : /\ ents'[v] = ents[v] /\ evs'[v] = evs[v] /\ nelems'[v] = nelems[v]
                               /\ inuse'[v] = inuse[v]
        /\ UNCHANGED <<obj, closing, attE, attS, pc, cw, args>>
    BY <1>5 DEF CreateWaitSet, ClearStruct, TypeOK, wvars
  <2>2. attE[w] = {} /\ attS[w] = {}
    BY <2>1 DEF AttachFollows
  <2>3. /\ Attachments(ents[w])' = {} /\ Gathered(evs[w])' = {}
        /\ Len(ents'[w]) + Cardinality(Gathered(evs[w])') = 0
    BY <2>1, NoneAttached
  <2>4. \A v \in WS \ {w} : Kept(v)' <=> Kept(v)
    BY <2>1 DEF Kept, Busy
  <2>5. waitsets' \subseteq WS /\ (w \notin waitsets' \ closing' => attE'[w] = {} /\ attS'[w] = {})
    BY <1>2, <2>1, <2>2
  <2>6. /\ attE'[w] = Attachments(ents[w])' /\ attS'[w] = Gathered(evs[w])' \cap live'
        /\ nelems'[w] = Len(ents'[w]) + Cardinality(Gathered(evs[w])')
    BY <2>1, <2>2, <2>3
  <2>7. \A v \in WS \ {w} : /\ attE'[v] = attE[v] /\ attS'[v] = attS[v]
                             /\ v \in waitsets' \ closing' <=> v \in waitsets \ closing
                             /\ Gathered(evs[v]) \cap live' = Gathered(evs[v]) \cap live
    BY <1>1, <2>1
  <2>8. AttachFollows'
    BY <2>1, <2>4, <2>5, <2>6, <2>7, AttachOne
  <2> QED
    BY <1>4, <2>1, <2>8
<1>6. ASSUME NEW w \in WS, DestroyWaitSet(w) PROVE AttachFollows' /\ UserCaches'
  <2>1. /\ closing' = closing \cup {w} /\ attE'[w] = {} /\ attS'[w] = {}
        /\ \A v \in WS \ {w} : attE'[v] = attE[v] /\ attS'[v] = attS[v]
        /\ UNCHANGED <<obj, live, waitsets, inuse, ents, evs, nelems, pc, cw, args>>
        /\ \A t \in Waiters : InCall(t) => cw[t] # w
    BY <1>6 DEF DestroyWaitSet, TypeOK, heap, cwait, wvars
  <2>2. \A v \in WS : Kept(v)' <=> Kept(v)
    BY <2>1 DEF Kept, Busy
  <2>3. AttachFollows'
    BY <1>2, <2>1, <2>2, AttachOne
  <2>4. UserCaches'
    <3>1. \A t \in Waiters : Resolve(args[t].evs)' = Resolve(args[t].evs)
      BY <2>1 DEF Resolve
    <3> QED
      BY <2>1, <3>1 DEF UserCaches
  <2> QED
    BY <2>3, <2>4
<1>7. ASSUME NEW w \in WS, EraseWaitSet(w) PROVE AttachFollows' /\ UserCaches'
  <2>1. /\ w \in closing /\ closing' = closing \ {w} /\ waitsets' = waitsets \ {w}
        /\ \A v \in WS \ {w} : /\ ents'[v] = ents[v] /\ evs'[v] = evs[v] /\ nelems'[v] = nelems[v]
                               /\ inuse'[v] = inuse[v]
        /\ waitsets' # {} => live' = live
        /\ UNCHANGED <<obj, attE, attS, pc, cw, args>>
    BY <1>7 DEF EraseWaitSet, ClearStruct, DropDummy, TypeOK, wvars
  <2>2. attE[w] = {} /\ attS[w] = {}
    BY <2>1 DEF AttachFollows
  <2>3. \A v \in WS \ {w} : Kept(v)' <=> Kept(v)
    BY <2>1 DEF Kept, Busy
  <2>4. AttachFollows'
    BY <1>2, <2>1, <2>2, <2>3, AttachOne
  <2> QED
    BY <1>4, <2>1, <2>4
<1>8. CASE CreateWaitSetFails
  <2>1. LazyDummy /\ UNCHANGED <<obj, waitsets, closing, inuse, ents, evs, nelems, attE, attS, pc, cw, args>>
    BY <1>8 DEF CreateWaitSetFails, cwait, att, wvars
  <2>2. \A v \in waitsets \ closing : Kept(v) => attS'[v] = attS[v] \cap live'
    BY <1>1, <2>1 DEF AttachFollows
  <2> QED
    BY <1>1, <2>1, <2>2, AttachObjects
<1> QED
  BY <1>5, <1>6, <1>7, <1>8 DEF WaitSetStep

\* a step of a call that leaves the caches alone
LEMMA AttachMove ==
  ASSUME TypeOK, CacheSafe, UserCaches, AttachFollows, NEW t \in Waiters,
         UNCHANGED <<obj, live, waitsets, closing, ents, evs, nelems, attE, attS>>,
         \A w \in waitsets : Kept(w)' => Kept(w),
         \A u \in Waiters \ {t} : pc'[u] = pc[u] /\ cw'[u] = cw[u] /\ args'[u] = args[u],
         \/ pc'[t] \notin {"detached", "blocked"}
         \/ pc'[t] = "blocked" /\ evs[cw[t]] = Resolve(args[t].evs) /\ UNCHANGED <<cw, args>>
  PROVE  AttachFollows' /\ UserCaches'
<1>1. AttachFollows'
  <2>1. PICK w \in WS : TRUE
    BY NonEmptyAssumption
  <2>2. waitsets \subseteq WS
    BY DEF TypeOK
  <2>3. ASSUME NEW v \in waitsets \ closing, Kept(v)'
        PROVE  /\ attE'[v] = Attachments(ents[v])'
               /\ attS'[v] = Gathered(evs[v])' \cap live'
               /\ nelems'[v] = Len(ents'[v]) + Cardinality(Gathered(evs[v])')
    <3>1. /\ v \in WS /\ attE[v] = Attachments(ents[v]) /\ attS[v] = Gathered(evs[v]) \cap live
          /\ nelems[v] = Len(ents[v]) + Cardinality(Gathered(evs[v]))
      BY <2>2, <2>3 DEF AttachFollows
    <3>2. PICK es \in Seq(Elems) : es = ents[v]
      BY <3>1 DEF TypeOK
    <3>3. Attachments(es)' = Attachments(es) /\ Attachments(ents[v])' = Attachments(es)'
      BY <3>2, AttachmentsKept, AttachmentsOf
    <3>4. Gathered(evs[v])' = Gathered(evs[v])
      BY DEF Gathered
    <3> QED
      BY <3>1, <3>2, <3>3, <3>4
  <2> QED
    BY <2>3 DEF AttachFollows
<1>2. UserCaches'
  <2>1. \A u \in Waiters \ {t} : Resolve(args[u].evs)' = Resolve(args[u].evs)
    BY DEF Resolve
  <2>2. UNCHANGED <<cw, args>> => Resolve(args[t].evs)' = Resolve(args[t].evs)
    BY DEF Resolve
  <2> QED
    BY <2>1, <2>2 DEF UserCaches
<1> QED
  BY <1>1, <1>2

\* Detach, Attach, GatherFails: the cache of the thread's waitset is rewritten
LEMMA AttachRewrite ==
  ASSUME TypeOK, CacheSafe, AttachInv, NEW t \in Waiters,
         Detach(t) \/ Attach(t) \/ GatherFails(t)
  PROVE  AttachFollows' /\ UserCaches'
<1>0. PICK w \in WS : w = cw[t]
  BY DEF TypeOK
<1>1. /\ Busy(t) /\ InCall(t) /\ pc[t] \in {"claimed", "detached"}
      /\ w \in WS /\ w \in waitsets \ closing /\ Kept(w)
      /\ \A u \in Waiters \ {t} : pc'[u] = pc[u] /\ cw'[u] = cw[u] /\ args'[u] = args[u]
      /\ UNCHANGED <<obj, live, waitsets, closing, inuse>>
  <2>1. /\ pc[t] \in {"claimed", "detached"}
        /\ \A u \in Waiters \ {t} : pc'[u] = pc[u] /\ cw'[u] = cw[u] /\ args'[u] = args[u]
        /\ UNCHANGED <<obj, live, waitsets, closing, inuse>>
    BY DEF Detach, Attach, GatherFails, Goto, heap, cdds, TypeOK
  <2>2. Busy(t) /\ InCall(t)
    BY <2>1 DEF Busy, InCall
  <2> QED
    BY <1>0, <2>1, <2>2 DEF CacheSafe, ArgsHeld, Kept
<1>2. \A u \in Waiters \ {t} : Busy(u) => cw[u] \in WS \ {w}
  BY <1>0, <1>1 DEF CacheSafe, OneUser, TypeOK
<1>3. UserCaches /\ AttachFollows /\ HandlesOnce
  BY DEF AttachInv
<1>4. waitsets \subseteq WS
  BY DEF TypeOK
<1>5. \A v \in WS \ {w} : Kept(v)' => Kept(v)
  <2>1. \A u \in Waiters \ {t} : Busy(u)' <=> Busy(u)
    BY <1>1 DEF Busy
  <2>2. Busy(t)' => cw'[t] = w
    BY <1>0, <1>1 DEF Detach, Attach, GatherFails, Goto, Busy, TypeOK
  <2> QED
    BY <1>1, <2>1, <2>2 DEF Kept
<1>6. ASSUME \A v \in WS \ {w} : ents'[v] = ents[v] /\ evs'[v] = evs[v],
             NEW u \in Waiters \ {t}
      PROVE  /\ pc'[u] = "detached" => ents'[cw'[u]] = <<>> /\ evs'[cw'[u]] = <<>>
             /\ pc'[u] = "blocked" => evs'[cw'[u]] = Resolve(args[u].evs)'
  <2>1. pc[u] \in {"detached", "blocked"} => cw[u] \in WS \ {w}
    BY <1>2 DEF Busy
  <2>2. Resolve(args[u].evs)' = Resolve(args[u].evs)
    BY <1>1 DEF Resolve
  <2> QED
    BY <1>1, <1>3, <1>6, <2>1, <2>2 DEF UserCaches
<1>7. CASE Detach(t)
  <2>1. WaitsetDetach(w) /\ pc'[t] = "detached" /\ cw'[t] = w
    BY <1>0, <1>7 DEF Detach, Goto, TypeOK
  <2>2. /\ attE'[w] = {} /\ attS'[w] = {} /\ ents'[w] = <<>> /\ evs'[w] = <<>> /\ nelems'[w] = 0
        /\ \A v \in WS \ {w} : /\ attE'[v] = attE[v] /\ attS'[v] = attS[v] /\ ents'[v] = ents[v]
                               /\ evs'[v] = evs[v] /\ nelems'[v] = nelems[v]
    BY <1>1, <1>3, <2>1, DetachedAll
  <2>3. /\ Attachments(ents[w])' = {} /\ Gathered(evs[w])' = {}
        /\ Len(ents'[w]) + Cardinality(Gathered(evs[w])') = 0
    BY <2>2, NoneAttached
  <2>4. AttachFollows'
    <3>1. \A v \in WS \ {w} :
            /\ v \in waitsets' \ closing' <=> v \in waitsets \ closing
            /\ v \in waitsets' \ closing' /\ Kept(v)' => Kept(v)
            /\ v \in waitsets' \ closing' =>
                 Gathered(evs[v]) \cap live' = Gathered(evs[v]) \cap live
      BY <1>1, <1>5
    <3>2. waitsets' \subseteq WS /\ w \in waitsets' \ closing' /\ obj' = obj
      BY <1>1, <1>4
    <3>3. /\ attE'[w] = Attachments(ents[w])'
          /\ attS'[w] = Gathered(evs[w])' \cap live'
          /\ nelems'[w] = Len(ents'[w]) + Cardinality(Gathered(evs[w])')
      BY <2>2, <2>3
    <3> QED
      BY <1>3, <2>2, <3>1, <3>2, <3>3, AttachOne
  <2>5. UserCaches'
    BY <1>3, <1>6, <2>1, <2>2 DEF UserCaches
  <2> QED
    BY <2>4, <2>5
<1>8. CASE Attach(t)
  <2>0. PICK H : H = Gathered(Resolve(args[t].evs))
    OBVIOUS
  <2>1. PICK es, vs : es = args[t].ents /\ vs = args[t].evs
    OBVIOUS
  <2>2. es \in Seq(Elems) /\ vs \in Seq(EvArgs)
    BY <2>1, ArgsAreSequences DEF TypeOK
  <2>3. /\ pc[t] = "detached" /\ pc'[t] = "blocked" /\ cw'[t] = w /\ args'[t] = args[t]
        /\ ents'[w] = es /\ evs'[w] = Resolve(args[t].evs)
        /\ attE'[w] = attE[w] \cup Attachments(es) /\ attS'[w] = attS[w] \cup H
        /\ nelems'[w] = Len(es) + Cardinality(H)
        /\ \A v \in WS \ {w} : /\ attE'[v] = attE[v] /\ attS'[v] = attS[v] /\ ents'[v] = ents[v]
                               /\ evs'[v] = evs[v] /\ nelems'[v] = nelems[v]
    BY <1>0, <1>8, <2>0, <2>1 DEF Attach, NElems, Goto, TypeOK
  <2>4. attE[w] = {} /\ attS[w] = {}
    <3>1. ents[w] = <<>> /\ evs[w] = <<>>
      BY <1>0, <1>3, <2>3 DEF UserCaches
    <3>2. attE[w] = Attachments(ents[w]) /\ attS[w] \subseteq Gathered(evs[w])
      BY <1>1, <1>3 DEF AttachFollows
    <3> QED
      BY <3>1, <3>2 DEF Attachments, Gathered
  <2>5. Attachments(ents[w])' = Attachments(es)
    <3>1. Attachments(es)' = Attachments(es)
      BY <1>1, <2>2, AttachmentsKept
    <3>2. Attachments(ents[w])' = Attachments(es)'
      BY <2>3, AttachmentsOf
    <3> QED
      BY <3>1, <3>2
  <2>6. Resolve(args[t].evs)' = Resolve(args[t].evs)
    BY <1>1, <2>3 DEF Resolve
  <2>7. Gathered(evs[w])' = H
    BY <2>0, <2>3, <2>6 DEF Gathered
  <2>8. H \subseteq live
    <3>1. \A i \in DOMAIN vs : obj[vs[i].addr].h \in live
      <4>1. \A i \in DOMAIN vs : vs[i].addr \in AddrsOf(args[t])
        BY <2>1 DEF AddrsOf
      <4> QED
        BY <1>1, <1>3, <4>1, ArgsFirm DEF HandlesOnce
    <3> QED
      BY <2>0, <2>1, <3>1, GatheredAll DEF EventHandles, Resolve
  <2>9. AttachFollows'
    BY <1>1, <1>3, <1>4, <1>5, <2>3, <2>4, <2>5, <2>7, <2>8, AttachOne
  <2>10. UserCaches'
    BY <1>3, <1>6, <2>3, <2>6 DEF UserCaches
  <2> QED
    BY <2>9, <2>10
<1>9. CASE GatherFails(t)
  <2>1. /\ pc'[t] = "idle"
        /\ \A v \in WS \ {w} : /\ attE'[v] = attE[v] /\ attS'[v] = attS[v] /\ ents'[v] = ents[v]
                               /\ evs'[v] = evs[v] /\ nelems'[v] = nelems[v]
    BY <1>0, <1>9 DEF GatherFails, Goto, TypeOK
  <2>2. ~Kept(w)'
    <3>1. inuse'[w]
      BY <1>0, <1>1 DEF CacheSafe, UsersClaim
    <3>2. \A u \in Waiters : Busy(u)' => u # t /\ Busy(u) /\ cw'[u] = cw[u]
      BY <1>1, <2>1 DEF Busy
    <3> QED
      BY <1>2, <3>1, <3>2 DEF Kept
  <2>3. AttachFollows'
    BY <1>1, <1>3, <1>4, <1>5, <2>1, <2>2, AttachOne
  <2>4. UserCaches'
    BY <1>3, <1>6, <2>1 DEF UserCaches
  <2> QED
    BY <2>3, <2>4
<1> QED
  BY <1>7, <1>8, <1>9

\* every step of a thread that calls rmw_wait
LEMMA AttachWait ==
  ASSUME TypeOK, CacheSafe, AttachInv, NEW t \in Waiters, CallStep(t) \/ WaitStep(t)
  PROVE  AttachFollows' /\ UserCaches'
<1>1. UserCaches /\ AttachFollows
  BY DEF AttachInv
<1>2. waitsets \subseteq WS
  BY DEF TypeOK
<1>3. ASSUME NEW w \in WS, NEW a \in Calls, Claim(t, w, a) PROVE AttachFollows' /\ UserCaches'
  <2>1. /\ ~inuse[w] /\ pc'[t] = "claimed"
        /\ \A u \in Waiters \ {t} : pc'[u] = pc[u] /\ cw'[u] = cw[u] /\ args'[u] = args[u]
        /\ \A v \in WS : inuse'[v] => inuse[v] \/ v = w
        /\ \A v \in WS : inuse[v] => inuse'[v]
        /\ pc[t] = "idle" /\ cw'[t] = w
        /\ UNCHANGED <<obj, live, waitsets, closing, ents, evs, nelems, attE, attS>>
    BY <1>3 DEF Claim, Claimable, Goto, heap, cdds, att, TypeOK
  <2>2. \A v \in waitsets : Kept(v)' => Kept(v)
    <3>1. \A v \in waitsets : v = w => Kept(v)
      BY <2>1 DEF Kept
    <3>2. \A v \in waitsets : v # w /\ Kept(v)' => Kept(v)
      BY <1>2, <2>1 DEF Kept, Busy
    <3> QED
      BY <3>1, <3>2
  <2> QED
    BY <1>1, <2>1, <2>2, AttachMove
<1>4. ASSUME NEW w \in WS, NEW a \in Calls, Reject(t, w, a) PROVE AttachFollows' /\ UserCaches'
  <2>1. UNCHANGED AttachVars
    BY <1>4 DEF Reject, vars, AttachVars, heap, cdds, cwait, att, wvars
  <2> QED
    BY <1>1, <2>1, AttachFrame
<1>5. CASE Detach(t) \/ Attach(t) \/ GatherFails(t)
  BY <1>5, AttachRewrite
<1>6. CASE CacheHit(t)
  <2>1. /\ pc[t] = "claimed" /\ pc'[t] = "blocked" /\ evs[cw[t]] = Resolve(args[t].evs)
        /\ \A u \in Waiters \ {t} : pc'[u] = pc[u]
        /\ UNCHANGED <<obj, live, waitsets, closing, ents, evs, nelems, attE, attS, inuse, cw, args>>
    BY <1>6 DEF CacheHit, RequireReattach, Goto, heap, cdds, cwait, att, TypeOK
  <2>2. \A v \in waitsets : Kept(v)' => Kept(v)
    BY <2>1 DEF Kept, Busy
  <2> QED
    BY <1>1, <2>1, <2>2, AttachMove
<1>7. CASE Wake(t) \/ TimeOut(t) \/ Report(t)
  <2>1. /\ pc[t] \in {"blocked", "woken"} /\ pc'[t] \in {"woken", "reported"}
        /\ \A u \in Waiters \ {t} : pc'[u] = pc[u]
        /\ UNCHANGED <<obj, live, waitsets, closing, ents, evs, nelems, attE, attS, inuse, cw, args>>
    <3>1. Goto(t, "blocked", "woken") \/ Goto(t, "woken", "reported")
      <4>1. Wake(t) \/ TimeOut(t) => Goto(t, "blocked", "woken")
        BY DEF Wake, TimeOut
      <4>2. Report(t) => Goto(t, "woken", "reported")
        BY DEF Report
      <4> QED
        BY <1>7, <4>1, <4>2
    <3>2. UNCHANGED <<obj, live, waitsets, closing, ents, evs, nelems, attE, attS, inuse, cw, args>>
      <4>1. CASE Wake(t) \/ TimeOut(t)
        BY <4>1 DEF Wake, TimeOut, heap, cdds, att
      <4>2. CASE Report(t)
        BY <4>2 DEF Report, heap, cdds, cwait, att
      <4> QED
        BY <1>7, <4>1, <4>2
    <3> QED
      BY <3>1, <3>2 DEF Goto, TypeOK
  <2>2. \A v \in waitsets : Kept(v)' => Kept(v)
    BY <2>1 DEF Kept, Busy
  <2> QED
    BY <1>1, <2>1, <2>2, AttachMove
<1>8. CASE Release(t)
  <2>1. /\ pc[t] = "reported" /\ pc'[t] = "returning"
        /\ \A u \in Waiters \ {t} : pc'[u] = pc[u]
        /\ \A v \in WS : v # cw[t] => inuse'[v] = inuse[v]
        /\ UNCHANGED <<obj, live, waitsets, closing, ents, evs, nelems, attE, attS, cw, args>>
    BY <1>8 DEF Release, Goto, heap, cdds, att, TypeOK
  <2>2. \A v \in waitsets : Kept(v)' => Kept(v)
    <3>1. \A v \in waitsets : v = cw[t] => Kept(v)
      BY <2>1 DEF Kept, Busy
    <3>2. \A v \in waitsets : v # cw[t] /\ Kept(v)' => Kept(v)
      BY <1>2, <2>1 DEF Kept, Busy
    <3> QED
      BY <3>1, <3>2
  <2> QED
    BY <1>1, <2>1, <2>2, AttachMove
<1>9. CASE Return(t)
  <2>1. /\ pc[t] = "returning" /\ pc'[t] = "idle"
        /\ \A u \in Waiters \ {t} : pc'[u] = pc[u] /\ cw'[u] = cw[u] /\ args'[u] = args[u]
        /\ UNCHANGED <<obj, live, waitsets, closing, ents, evs, nelems, attE, attS, inuse>>
    BY <1>9 DEF Return, Goto, heap, cdds, cwait, att, TypeOK
  <2>2. \A v \in waitsets : Kept(v)' => Kept(v)
    BY <2>1 DEF Kept, Busy
  <2> QED
    BY <1>1, <2>1, <2>2, AttachMove
<1> QED
  BY <1>3, <1>4, <1>5, <1>6, <1>7, <1>8, <1>9 DEF CallStep, WaitStep

\* every step of a destruction
LEMMA AttachDestroy ==
  ASSUME TypeOK, CacheSafe, AttachInv, NEW d \in Destroyers,
         (\E x \in Addr : StartDestroy(d, x)) \/ DestroyStep(d)
  PROVE  AttachFollows' /\ UserCaches'
<1>1. UserCaches /\ AttachFollows /\ HandlesOnce
  BY DEF AttachInv
<1>2. CASE BeginClean(d) \/ EndClean(d) \/ \E x \in Addr : StartDestroy(d, x)
  <2>1. UNCHANGED AttachVars
    BY <1>2 DEF BeginClean, EndClean, StartDestroy, AttachVars, heap, cdds, cwait, att, wvars
  <2> QED
    BY <1>1, <2>1, AttachFrame
<1>3. ASSUME NEW w \in WS, CleanOne(d, w) PROVE AttachFollows' /\ UserCaches'
  <2>1. UNCHANGED <<obj, live, waitsets, closing, inuse, pc, cw, args>>
    BY <1>3 DEF CleanOne, heap, cdds, wvars
  <2>2. CASE inuse[w]
    <3>1. UNCHANGED AttachVars
      BY <1>3, <2>1, <2>2 DEF CleanOne, AttachVars
    <3> QED
      BY <1>1, <3>1, AttachFrame
  <2>3. CASE ~inuse[w]
    <3>1. WaitsetDetach(w) /\ Kept(w)
      BY <1>3, <2>3 DEF CleanOne, Kept
    <3>2. /\ attE'[w] = {} /\ attS'[w] = {} /\ ents'[w] = <<>> /\ evs'[w] = <<>> /\ nelems'[w] = 0
          /\ \A v \in WS \ {w} : /\ attE'[v] = attE[v] /\ attS'[v] = attS[v] /\ ents'[v] = ents[v]
                                 /\ evs'[v] = evs[v] /\ nelems'[v] = nelems[v]
      BY <1>1, <3>1, DetachedAll
    <3>3. /\ Attachments(ents[w])' = {} /\ Gathered(evs[w])' = {}
          /\ Len(ents'[w]) + Cardinality(Gathered(evs[w])') = 0
      BY <3>2, NoneAttached
    <3>4. \A v \in WS : Kept(v)' <=> Kept(v)
      BY <2>1 DEF Kept, Busy
    <3>5. waitsets' \subseteq WS
      BY <2>1 DEF TypeOK
    <3>6. AttachFollows'
      BY <1>1, <2>1, <3>2, <3>3, <3>4, <3>5, AttachOne
    <3>7. \A t \in Waiters : pc[t] \in {"detached", "blocked"} => cw[t] \in WS \ {w}
      BY <2>3 DEF CacheSafe, UsersClaim, Busy, TypeOK
    <3>8. \A t \in Waiters : Resolve(args[t].evs)' = Resolve(args[t].evs)
      BY <2>1 DEF Resolve
    <3>9. UserCaches'
      BY <1>1, <2>1, <3>2, <3>7, <3>8 DEF UserCaches
    <3> QED
      BY <3>6, <3>9
  <2> QED
    BY <2>2, <2>3
<1>4. CASE DeleteEntity(d)
  <2>0. PICK x \in Addr : x = target[d]
    BY DEF TypeOK
  <2>1. PICK h : h = obj[x].h
    OBVIOUS
  <2>2. /\ dpc[d] = "cleaned" /\ live' = live \ {h}
        /\ \A w \in WS : attE'[w] = {p \in attE[w] : p[1] # h}
        /\ \A w \in WS : attS'[w] = attS[w] \ {h}
        /\ UNCHANGED <<obj, waitsets, closing, inuse, ents, evs, nelems, pc, cw, args>>
    BY <1>4, <2>0, <2>1 DEF DeleteEntity, cdds, cwait, wvars
  <2>3. Real(x)
    BY <1>1, <2>0, <2>2 DEF HandlesOnce, Real
  <2>4. \A y \in Addr : Firm(y) => obj[y].h # h
    <3>1. \A y \in Addr : Firm(y) => Real(y) /\ y # x
      BY <2>0, <2>2 DEF Firm, Real
    <3> QED
      BY <1>1, <2>1, <2>3, <3>1 DEF HandlesOnce
  <2>5. \A w \in waitsets \ closing : Kept(w) => attS'[w] = attS[w] \cap live'
    <3>1. \A w \in waitsets \ closing : w \in WS /\ (Kept(w) => attS[w] \subseteq live)
      BY <1>1 DEF AttachFollows, TypeOK
    <3> QED
      BY <2>2, <3>1
  <2>6. \A w \in waitsets \ closing : \A y \in Addr :
          Firm(y) => \A p \in attE[w] : p[1] = obj[y].h => p \in attE'[w]
    <3>1. \A w \in waitsets \ closing : w \in WS
      BY DEF TypeOK
    <3> QED
      BY <2>2, <2>4, <3>1
  <2> QED
    BY <1>1, <2>2, <2>5, <2>6, AttachObjects
<1>5. CASE FreeObject(d)
  <2>1. /\ dpc[d] = "deleted" /\ \A y \in Addr : y # target[d] => obj'[y] = obj[y]
        /\ UNCHANGED <<live, attE, attS, waitsets, closing, inuse, ents, evs, nelems, pc, cw, args>>
    BY <1>5 DEF FreeObject, TypeOK, cdds, cwait, att, wvars
  <2>2. \A y \in Addr : Firm(y) => obj'[y].h = obj[y].h
    BY <2>1 DEF Firm
  <2>3. \A w \in waitsets \ closing : Kept(w) => attS'[w] = attS[w] \cap live'
    BY <1>1, <2>1 DEF AttachFollows
  <2> QED
    BY <1>1, <2>1, <2>2, <2>3, AttachObjects
<1> QED
  BY <1>2, <1>3, <1>4, <1>5 DEF DestroyStep

\* nothing is there to begin with
LEMMA AttachInit == ~Overlap /\ Init => AttachInv
<1> SUFFICES ASSUME ~Overlap, Init PROVE AttachInv
  OBVIOUS
<1>1. HandlesOnce
  <2>1. \A x \in Addr : ~Real(x)
    BY DEF Init, Real
  <2> QED
    BY <2>1 DEF Init, HandlesOnce
<1>2. AttachFollows /\ UserCaches
  BY DEF Init, AttachFollows, UserCaches
<1> QED
  BY <1>1, <1>2 DEF AttachInv

\* AttachInv is inductive relative to TypeOK and CacheSafe
LEMMA AttachStep == TypeOK /\ CacheSafe /\ AttachInv /\ [Next]_vars => AttachInv'
<1> SUFFICES ASSUME TypeOK, CacheSafe, AttachInv, [Next]_vars PROVE AttachInv'
  OBVIOUS
<1>1. HandlesOnce /\ UserCaches /\ AttachFollows
  BY DEF AttachInv
<1>2. CASE UNCHANGED vars
  <2>1. UNCHANGED AttachVars
    BY <1>2 DEF vars, AttachVars, heap, cdds, cwait, att, wvars
  <2>2. HandlesOnce'
    BY <1>1, <1>2, HandlesFrame DEF vars, heap, cdds, dvars, HandlesOnce
  <2> QED
    BY <1>1, <2>1, <2>2, AttachFrame DEF AttachInv
<1>3. CASE EntityStep
  BY <1>1, <1>3, HandlesEntity, AttachEntity DEF AttachInv
<1>4. CASE WaitSetStep
  BY <1>1, <1>4, HandlesWaitSet, AttachWaitSet DEF AttachInv
<1>5. ASSUME NEW t \in Waiters, CallStep(t) \/ WaitStep(t) PROVE AttachInv'
  BY <1>1, <1>5, HandlesWait, AttachWait DEF AttachInv
<1>6. ASSUME NEW d \in Destroyers, (\E x \in Addr : StartDestroy(d, x)) \/ DestroyStep(d) PROVE AttachInv'
  BY <1>1, <1>6, HandlesDestroy, AttachDestroy DEF AttachInv
<1> QED
  BY <1>2, <1>3, <1>4, <1>5, <1>6 DEF Next

\* what is attached follows what is cached in every execution
THEOREM AttachAlways == ASSUME ~Overlap PROVE Spec => []AttachInv
<1>1. TypeOK /\ CacheSafe /\ AttachInv /\ [Next]_vars => AttachInv'
  BY AttachStep
<1>2. Init => AttachInv
  BY AttachInit
<1> QED
  BY <1>1, <1>2, TypeCorrect, CacheSafeAlways, PTL DEF Spec

\* no more is attached than there are arguments
LEMMA AttachmentsFew ==
  ASSUME NEW es \in Seq(Elems)
  PROVE  IsFiniteSet(Attachments(es)) /\ Cardinality(Attachments(es)) <= Len(es)
<1> DEFINE A == Attachments(es)
           f == [p \in A |-> p[2]]
<1>1. \A p \in A : p[2] \in 1..Len(es) /\ p = <<CondAt(es[p[2]]), p[2]>>
  BY DEF Attachments
<1>2. IsFiniteSet(1..Len(es)) /\ Cardinality(1..Len(es)) = Len(es)
  <2>1. Len(es) \in Nat
    OBVIOUS
  <2>2. 1 \in Int /\ Len(es) \in Int
    BY <2>1
  <2>3. /\ IsFiniteSet(1..Len(es))
        /\ Cardinality(1..Len(es)) = IF 1 > Len(es) THEN 0 ELSE Len(es) - 1 + 1
    BY <2>2, FS_Interval
  <2> QED
    BY <2>1, <2>3
<1> HIDE DEF A
<1>3. f \in Injection(A, 1..Len(es))
  <2>1. \A p, q \in A : f[p] = f[q] => p = q
    BY <1>1
  <2>2. f \in [A -> 1..Len(es)]
    BY <1>1
  <2> QED
    BY <2>1, <2>2 DEF Injection, IsInjective
<1>4. IsFiniteSet(A) /\ Cardinality(A) <= Cardinality(1..Len(es))
  BY <1>2, <1>3, FS_Injection
<1> QED
  BY <1>2, <1>4 DEF A

\* a blocked rmw_wait is attached to what it was given
LEMMA BlockedAttached ==
  ASSUME TypeOK, CacheSafe, AttachInv, NEW t \in Waiters, pc[t] = "blocked"
  PROVE  /\ cw[t] \in waitsets \ closing /\ ents[cw[t]] = args[t].ents
         /\ args[t].ents \in Seq(Elems) /\ args[t].evs \in Seq(EvArgs)
         /\ attE[cw[t]] = Attachments(args[t].ents)
         /\ attS[cw[t]] = Gathered(Resolve(args[t].evs))
         /\ nelems[cw[t]] = Len(args[t].ents) + Cardinality(attS[cw[t]])
<1>1. Busy(t) /\ InCall(t) /\ Kept(cw[t])
  BY DEF Busy, InCall, Kept
<1>2. cw[t] \in waitsets \ closing /\ ents[cw[t]] = args[t].ents
  BY <1>1 DEF CacheSafe, ArgsHeld, CacheIsArgs
<1>3. args[t].ents \in Seq(Elems) /\ args[t].evs \in Seq(EvArgs)
  BY ArgsAreSequences DEF TypeOK
<1>4. evs[cw[t]] = Resolve(args[t].evs)
  BY DEF AttachInv, UserCaches
<1>5. /\ attE[cw[t]] = Attachments(args[t].ents)
      /\ attS[cw[t]] = Gathered(Resolve(args[t].evs)) \cap live
      /\ nelems[cw[t]] = Len(args[t].ents) + Cardinality(Gathered(Resolve(args[t].evs)))
  BY <1>1, <1>2, <1>4 DEF AttachInv, AttachFollows
<1>6. Gathered(Resolve(args[t].evs)) \subseteq live
  <2>1. \A i \in DOMAIN args[t].evs : args[t].evs[i].addr \in AddrsOf(args[t])
    BY DEF AddrsOf
  <2>2. \A i \in DOMAIN args[t].evs : obj[args[t].evs[i].addr].h \in live
    BY <1>1, <2>1, ArgsFirm DEF AttachInv, HandlesOnce
  <2> QED
    BY <2>2 DEF Gathered, Resolve
<1> QED
  BY <1>2, <1>3, <1>5, <1>6

\* a blocked rmw_wait is attached to exactly its arguments, under the indices
\* it will look for, and ws->trigs has room for all of them: the comparison by
\* address is good enough, for any number of waitsets, threads and entities,
\* because a destruction drops the addresses before they can be handed out again
THEOREM WaitsForItsArguments == ASSUME ~Overlap PROVE Spec => []AttachedAreArgs
<1>1. ASSUME TypeOK, CacheSafe, AttachInv, NEW t \in Waiters, pc[t] = "blocked"
      PROVE  /\ attE[cw[t]] = Attachments(args[t].ents)
             /\ attS[cw[t]] = Gathered(Resolve(args[t].evs))
             /\ Cardinality(attE[cw[t]]) + Cardinality(attS[cw[t]]) <= nelems[cw[t]] + 1
  <2>1. /\ args[t].ents \in Seq(Elems) /\ args[t].evs \in Seq(EvArgs)
        /\ attE[cw[t]] = Attachments(args[t].ents)
        /\ attS[cw[t]] = Gathered(Resolve(args[t].evs))
        /\ nelems[cw[t]] = Len(args[t].ents) + Cardinality(attS[cw[t]])
    BY <1>1, BlockedAttached
  <2>2. Cardinality(attE[cw[t]]) <= Len(args[t].ents) /\ Len(args[t].ents) \in Nat
    BY <2>1, AttachmentsFew
  <2>3. Cardinality(attS[cw[t]]) \in Nat
    BY <1>1, <2>1, ResolveType, FS_CardinalityType DEF TypeOK
  <2>4. Cardinality(attE[cw[t]]) \in Nat
    <3>1. IsFiniteSet(attE[cw[t]])
      BY <2>1, AttachmentsFew
    <3> QED
      BY <3>1, FS_CardinalityType
  <2> QED
    BY <2>1, <2>2, <2>3, <2>4
<1>2. TypeOK /\ CacheSafe /\ AttachInv => AttachedAreArgs
  BY <1>1 DEF AttachedAreArgs
<1> QED
  BY <1>2, AttachAlways, TypeCorrect, CacheSafeAlways, PTL
-----------------------------------------------------------------------------
(***************************************************************************)
(* The status masks.  Attaching sets the mask of every entity whose events *)
(* are waited for, hitting the cache does not: the masks are right as long *)
(* as no other waitset sets them in between.                               *)
(***************************************************************************)
\* the entities whose events are cached by a waitset or given to a call on it
EventUsers(w) ==
  EventHandles(evs[w]) \cup
    UNION {EventHandles(Resolve(args[t].evs)) : t \in {u \in Waiters : InCall(u) /\ cw[u] = w}}
\* no entity's events are waited for with two waitsets
EventsApart ==
  \A v, w \in waitsets \ closing : v # w => EventUsers(v) \cap EventUsers(w) = {}

\* of the events a kept waitset has cached of an entity, its mask has the ones
\* that are supported but for an incompatible type
MasksFollow ==
  \A w \in waitsets \ closing : Kept(w) =>
    \A i \in DOMAIN evs[w] : evs[w][i].h \in live /\ evs[w][i].type \in Supported =>
      (evs[w][i].type \in mask[evs[w][i].h] <=> evs[w][i].type \notin Inconsistent)

\* a step after which a kept waitset has cached what it had, or nothing
LEMMA MasksFrame ==
  ASSUME MasksFollow,
         \A v \in waitsets' \ closing' : Kept(v)' =>
           \/ evs'[v] = <<>>
           \/ /\ v \in waitsets \ closing /\ Kept(v) /\ evs'[v] = evs[v]
              /\ \A h \in EventHandles(evs[v]) : h \in live' => h \in live /\ mask'[h] = mask[h]
  PROVE  MasksFollow'
<1>1. \A v, i : i \in DOMAIN evs[v] => evs[v][i].h \in EventHandles(evs[v])
  BY DEF EventHandles
<1> QED
  BY <1>1 DEF MasksFollow

\* calls take up what is kept, and keep it or lose it
LEMMA KeptWait ==
  ASSUME TypeOK, NEW t \in Waiters, CallStep(t) \/ WaitStep(t), NEW v \in WS, Kept(v)'
  PROVE  Kept(v)
<1>1. ASSUME NEW w \in WS, NEW a \in Calls, Claim(t, w, a) PROVE Kept(v)
  BY <1>1 DEF Claim, Claimable, Goto, Kept, Busy, TypeOK
<1>2. ASSUME NEW w \in WS, NEW a \in Calls, Reject(t, w, a) PROVE Kept(v)
  BY <1>2 DEF Reject, vars, wvars, cwait, Kept, Busy
<1>3. CASE CacheHit(t) \/ Detach(t) \/ Attach(t)
  <2>1. /\ inuse' = inuse /\ cw' = cw /\ pc[t] \in {"claimed", "detached"}
        /\ \A u \in Waiters \ {t} : pc'[u] = pc[u]
    BY <1>3 DEF CacheHit, Detach, Attach, Goto, cwait, TypeOK
  <2> QED
    BY <2>1 DEF Kept, Busy
<1>4. CASE GatherFails(t)
  <2>1. /\ inuse' = inuse /\ pc'[t] = "idle"
        /\ \A u \in Waiters \ {t} : pc'[u] = pc[u] /\ cw'[u] = cw[u]
    BY <1>4 DEF GatherFails, Goto, TypeOK
  <2> QED
    BY <2>1 DEF Kept, Busy
<1>5. CASE Wake(t) \/ TimeOut(t) \/ Report(t)
  <2>1. /\ inuse' = inuse /\ cw' = cw
        /\ Goto(t, "blocked", "woken") \/ Goto(t, "woken", "reported")
    <3>1. CASE Wake(t) \/ TimeOut(t)
      BY <3>1 DEF Wake, TimeOut
    <3>2. CASE Report(t)
      BY <3>2 DEF Report, cwait
    <3> QED
      BY <1>5, <3>1, <3>2
  <2> QED
    BY <2>1 DEF Goto, Kept, Busy, TypeOK
<1>6. CASE Release(t)
  BY <1>6 DEF Release, Goto, Kept, Busy, TypeOK
<1>7. CASE Return(t)
  BY <1>7 DEF Return, Goto, Kept, Busy, cwait, TypeOK
<1> QED
  BY <1>1, <1>2, <1>3, <1>4, <1>5, <1>6, <1>7 DEF CallStep, WaitStep

\* a step of the application or the network
LEMMA MasksEntity == TypeOK /\ MasksFollow /\ EntityStep => MasksFollow'
<1> SUFFICES ASSUME TypeOK, MasksFollow, NEW x \in Addr,
             \/ \E k \in Kinds : CreateEntity(x, k)
             \/ TriggerGuardCondition(x) \/ DataArrives(x) \/ TakeData(x)
             \/ \E ty \in EvTypes : StatusChanges(x, ty) \/ TakeEvent(x, ty)
             PROVE MasksFollow'
  BY DEF EntityStep
<1>1. ASSUME NEW k \in Kinds, CreateEntity(x, k) PROVE MasksFollow'
  <2>1. PICK h \in FreshHandles :
          live' = live \cup {h} /\ mask' = [mask EXCEPT ![h] = ValidStatus[k]]
    BY <1>1 DEF CreateEntity
  <2>2. /\ UNCHANGED <<waitsets, closing, evs>>
        /\ \A w \in WS : Kept(w)' <=> Kept(w)
    BY <1>1 DEF CreateEntity, Kept, Busy, cdds, cwait, wvars
  <2>3. \A w \in WS : h \notin EventHandles(evs[w])
    BY <2>1 DEF FreshHandles, EventHandles
  <2>4. \A g : g # h => mask'[g] = mask[g]
    BY <2>1 DEF TypeOK
  <2>5. waitsets \subseteq WS
    BY DEF TypeOK
  <2> QED
    BY <2>1, <2>2, <2>3, <2>4, <2>5, MasksFrame
<1>2. CASE \/ TriggerGuardCondition(x) \/ DataArrives(x) \/ TakeData(x)
           \/ \E ty \in EvTypes : StatusChanges(x, ty) \/ TakeEvent(x, ty)
  <2>1. /\ UNCHANGED <<live, mask, waitsets, closing, evs>>
        /\ \A w : Kept(w)' <=> Kept(w)
    BY <1>2 DEF TriggerGuardCondition, DataArrives, TakeData, StatusChanges, TakeEvent,
                Kept, Busy, heap, cdds, cwait, wvars
  <2> QED
    BY <2>1, MasksFrame
<1> QED
  BY <1>1, <1>2

\* the creation and the destruction of waitsets
LEMMA MasksWaitSet == TypeOK /\ MasksFollow /\ WaitSetStep => MasksFollow'
<1> SUFFICES ASSUME TypeOK, MasksFollow, WaitSetStep PROVE MasksFollow'
  OBVIOUS
<1>1. LazyDummy => \A v \in WS : \A h \in EventHandles(evs[v]) : h \in live' => h \in live
  BY DEF LazyDummy, FreshHandles, EventHandles
<1>2. waitsets \subseteq WS
  BY DEF TypeOK
<1>3. ASSUME NEW w \in WS, CreateWaitSet(w) \/ EraseWaitSet(w) PROVE MasksFollow'
  <2>1. /\ mask' = mask /\ evs'[w] = <<>> /\ waitsets' \subseteq waitsets \cup {w}
        /\ w \in closing \/ closing' = closing
        /\ \A v \in WS \ {w} : evs'[v] = evs[v] /\ inuse'[v] = inuse[v]
        /\ closing' \cup {w} = closing \cup {w}
        /\ pc' = pc /\ cw' = cw
        /\ LazyDummy \/ live' \subseteq live
    BY <1>3 DEF CreateWaitSet, EraseWaitSet, ClearStruct, DropDummy, TypeOK, wvars
  <2>2. \A v \in WS \ {w} : Kept(v)' <=> Kept(v)
    BY <2>1 DEF Kept, Busy
  <2>3. \A v \in waitsets' \ closing' : v # w => v \in WS \ {w} /\ v \in waitsets \ closing
    BY <1>2, <2>1
  <2> QED
    BY <1>1, <2>1, <2>2, <2>3, MasksFrame
<1>4. CASE CreateWaitSetFails \/ \E w \in WS : DestroyWaitSet(w)
  <2>1. /\ UNCHANGED <<mask, waitsets, evs>> /\ closing \subseteq closing'
        /\ \A w : Kept(w)' <=> Kept(w)
        /\ LazyDummy \/ live' = live
    BY <1>4 DEF CreateWaitSetFails, DestroyWaitSet, Kept, Busy, heap, cwait, wvars
  <2> QED
    BY <1>1, <1>2, <2>1, MasksFrame
<1> QED
  BY <1>3, <1>4 DEF WaitSetStep

\* every step of a thread that calls rmw_wait
LEMMA MasksWait ==
  ASSUME TypeOK, CacheSafe, UserCaches, EventsApart, MasksFollow, NEW t \in Waiters, CallStep(t) \/ WaitStep(t)
  PROVE  MasksFollow'
<1>0. PICK w \in WS : w = cw[t]
  BY DEF TypeOK
<1>1. waitsets \subseteq WS /\ \A v \in WS : Kept(v)' => Kept(v)
  BY KeptWait DEF TypeOK
\* nobody else has what the thread's call is about to set masks of
<1>2. ASSUME InCall(t), NEW v \in waitsets \ closing, v # w
      PROVE  EventHandles(evs[v]) \cap EventHandles(Resolve(args[t].evs)) = {}
  <2>1. w \in waitsets \ closing
    BY <1>0, <1>2 DEF CacheSafe, ArgsHeld
  <2>2. EventHandles(evs[v]) \subseteq EventUsers(v)
    BY DEF EventUsers
  <2>3. EventHandles(Resolve(args[t].evs)) \subseteq EventUsers(w)
    BY <1>0, <1>2 DEF EventUsers
  <2> QED
    BY <1>2, <2>1, <2>2, <2>3 DEF EventsApart
<1>3. CASE Detach(t)
  <2>1. /\ evs'[w] = <<>> /\ \A v \in WS \ {w} : evs'[v] = evs[v]
        /\ UNCHANGED <<live, mask, waitsets, closing>>
    BY <1>0, <1>3 DEF Detach, WaitsetDetach, heap, cdds, TypeOK
  <2> QED
    BY <1>1, <2>1, MasksFrame
<1>4. CASE Attach(t)
  <2>0. PICK vs, H : vs = args[t].evs /\ H = Gathered(Resolve(args[t].evs))
    OBVIOUS
  <2>1. /\ evs'[w] = Resolve(vs) /\ \A v \in WS \ {w} : evs'[v] = evs[v]
        /\ mask' = [h \in Handles |-> IF h \in H THEN MaskFor(args[t], h) ELSE mask[h]]
        /\ UNCHANGED <<live, waitsets, closing>> /\ pc[t] = "detached"
    BY <1>0, <1>4, <2>0 DEF Attach, SetMasks, Goto, cdds, TypeOK
  <2>2. w \in waitsets \ closing
    BY <1>0, <2>1 DEF CacheSafe, ArgsHeld, InCall
  <2>3. live \subseteq Handles
    BY DEF TypeOK
  <2>4. \A i \in DOMAIN evs'[w] : evs'[w][i].h \in live /\ evs'[w][i].type \in Supported =>
          (evs'[w][i].type \in mask'[evs'[w][i].h] <=> evs'[w][i].type \notin Inconsistent)
    <3>1. DOMAIN Resolve(vs) = DOMAIN vs
      BY DEF Resolve
    <3>2. ASSUME NEW i \in DOMAIN vs, vs[i].type \in Supported
          PROVE  /\ Resolve(vs)[i].h = obj[vs[i].addr].h /\ Resolve(vs)[i].type = vs[i].type
                 /\ Resolve(vs)[i].h \in H
                 /\ vs[i].type \in MaskFor(args[t], obj[vs[i].addr].h)
                      <=> vs[i].type \notin Inconsistent
      <4>1. /\ Resolve(vs)[i].h = obj[vs[i].addr].h /\ Resolve(vs)[i].type = vs[i].type
            /\ i \in DOMAIN Resolve(vs)
        BY DEF Resolve
      <4>2. Resolve(vs)[i].h \in H
        BY <2>0, <3>2, <4>1 DEF Gathered
      <4>3. vs[i].type \notin Inconsistent => vs[i].type \in MaskFor(args[t], obj[vs[i].addr].h)
        BY <2>0, <3>2 DEF MaskFor, Maskable
      <4>4. \A ty \in MaskFor(args[t], obj[vs[i].addr].h) : ty \notin Inconsistent
        BY DEF MaskFor, Maskable
      <4> QED
        BY <4>1, <4>2, <4>3, <4>4
    <3>3. \A i \in DOMAIN vs : Resolve(vs)[i].type = vs[i].type
      BY DEF Resolve
    <3> QED
      BY <2>1, <2>3, <3>1, <3>2, <3>3
  <2>5. ASSUME NEW v \in waitsets \ closing, v # w, Kept(v)'
        PROVE  \A i \in DOMAIN evs'[v] : evs'[v][i].h \in live /\ evs'[v][i].type \in Supported =>
                 (evs'[v][i].type \in mask'[evs'[v][i].h] <=> evs'[v][i].type \notin Inconsistent)
    <3>1. v \in WS /\ Kept(v) /\ evs'[v] = evs[v]
      BY <1>1, <2>1, <2>5
    <3>2. \A i \in DOMAIN evs[v] : evs[v][i].h \in live /\ evs[v][i].type \in Supported =>
            (evs[v][i].type \in mask[evs[v][i].h] <=> evs[v][i].type \notin Inconsistent)
      BY <2>5, <3>1 DEF MasksFollow
    <3>3. \A i \in DOMAIN evs[v] : evs[v][i].h \notin H
      <4>1. EventHandles(evs[v]) \cap H = {}
        BY <1>2, <2>0, <2>1, <2>5, GatheredAll DEF InCall
      <4>2. \A i \in DOMAIN evs[v] : evs[v][i].h \in EventHandles(evs[v])
        BY DEF EventHandles
      <4> QED
        BY <4>1, <4>2
    <3> QED
      BY <2>1, <2>3, <3>1, <3>2, <3>3
  <2> QED
    BY <2>1, <2>4, <2>5 DEF MasksFollow
<1>5. CASE GatherFails(t)
  <2>1. UNCHANGED <<live, waitsets, closing, evs>> /\ pc[t] = "detached"
    BY <1>5 DEF GatherFails, Goto, cdds
  <2>2. evs'[w] = <<>>
    BY <1>0, <2>1 DEF UserCaches
  <2>3. PICK H : H = EventHandles(Resolve(args[t].evs))
    OBVIOUS
  <2>4. \A h \in live : h \notin H => mask'[h] = mask[h]
    <3>1. PICK done \in SUBSET Settable(args[t]) : SetMasks(args[t], done)
      BY <1>5 DEF GatherFails
    <3>2. done \subseteq H
      BY <2>3, GatheredAll DEF Settable
    <3> QED
      BY <3>1, <3>2 DEF SetMasks, TypeOK
  <2>5. \A v \in waitsets \ closing : v # w => EventHandles(evs[v]) \cap H = {}
    BY <1>2, <2>1, <2>3 DEF InCall
  <2> QED
    BY <1>1, <2>1, <2>2, <2>4, <2>5, MasksFrame
<1>6. CASE \/ CacheHit(t) \/ Wake(t) \/ TimeOut(t) \/ Report(t) \/ Release(t) \/ Return(t)
           \/ \E v \in WS, a \in Calls : Claim(t, v, a) \/ Reject(t, v, a)
  <2>1. UNCHANGED <<live, mask, waitsets, closing, evs>>
    <3>1. CASE Report(t)
      BY <3>1 DEF Report, heap, cdds, cwait
    <3>2. CASE \/ CacheHit(t) \/ Wake(t) \/ TimeOut(t) \/ Release(t) \/ Return(t)
               \/ \E v \in WS, a \in Calls : Claim(t, v, a) \/ Reject(t, v, a)
      BY <3>2 DEF CacheHit, Wake, TimeOut, Release, Return, Claim, Reject, vars, heap, cdds, cwait
    <3> QED
      BY <1>6, <3>1, <3>2
  <2> QED
    BY <1>1, <2>1, MasksFrame
<1> QED
  BY <1>3, <1>4, <1>5, <1>6 DEF CallStep, WaitStep

\* every step of a destruction
LEMMA MasksDestroy ==
  ASSUME TypeOK, MasksFollow, NEW d \in Destroyers,
         (\E x \in Addr : StartDestroy(d, x)) \/ DestroyStep(d)
  PROVE  MasksFollow'
<1>1. waitsets \subseteq WS
  BY DEF TypeOK
<1>2. /\ UNCHANGED <<waitsets, closing>> /\ live' \subseteq live
      /\ \A h \in live' : mask'[h] = mask[h]
      /\ \A v : Kept(v)' <=> Kept(v)
  BY DEF StartDestroy, DestroyStep, BeginClean, EndClean, CleanOne, DeleteEntity, FreeObject,
         Kept, Busy, heap, cdds, cwait, wvars, TypeOK
<1>3. \A v \in WS : evs'[v] = evs[v] \/ evs'[v] = <<>>
  BY DEF StartDestroy, DestroyStep, BeginClean, EndClean, CleanOne, WaitsetDetach, DeleteEntity,
         FreeObject, cwait, TypeOK
<1> QED
  BY <1>1, <1>2, <1>3, MasksFrame

\* MasksFollow is inductive relative to the invariants before it, as long as
\* the application keeps the entities of events apart
LEMMA MasksStep ==
  TypeOK /\ CacheSafe /\ AttachInv /\ EventsApart /\ MasksFollow /\ [Next]_vars => MasksFollow'
<1> SUFFICES ASSUME TypeOK, CacheSafe, AttachInv, EventsApart, MasksFollow, [Next]_vars
             PROVE  MasksFollow'
  OBVIOUS
<1>1. CASE UNCHANGED vars
  <2>1. UNCHANGED <<live, mask, waitsets, closing, evs>> /\ \A v : Kept(v)' <=> Kept(v)
    BY <1>1 DEF vars, heap, cdds, cwait, wvars, Kept, Busy
  <2> QED
    BY <2>1, MasksFrame
<1> QED
  BY <1>1, MasksEntity, MasksWaitSet, MasksWait, MasksDestroy DEF AttachInv, Next

\* a blocked rmw_wait has the events it waits for enabled, all but an incompatible
\* type, although it may not have set a mask itself: for an application that
\* never waits for the events of one entity with two waitsets (otherwise each of
\* them overwrites the mask)
THEOREM WaitsForEnabledEvents ==
  ASSUME ~Overlap PROVE Spec /\ []EventsApart => []WaitedEventsEnabled
<1>1. Init => MasksFollow
  BY DEF Init, MasksFollow
<1>2. TypeOK /\ CacheSafe /\ AttachInv /\ EventsApart /\ MasksFollow /\ [Next]_vars => MasksFollow'
  BY MasksStep
<1>3. ASSUME TypeOK, CacheSafe, AttachInv, MasksFollow, NEW t \in Waiters, pc[t] = "blocked",
             NEW i \in DOMAIN args[t].evs, args[t].evs[i].type \in Supported
      PROVE  args[t].evs[i].type \in mask[obj[args[t].evs[i].addr].h]
               <=> args[t].evs[i].type \notin Inconsistent
  <2>1. Busy(t) /\ InCall(t) /\ Kept(cw[t])
    BY <1>3 DEF Busy, InCall, Kept
  <2>2. cw[t] \in waitsets \ closing /\ evs[cw[t]] = Resolve(args[t].evs)
    BY <1>3, <2>1 DEF CacheSafe, ArgsHeld, AttachInv, UserCaches
  <2>3. /\ i \in DOMAIN Resolve(args[t].evs)
        /\ Resolve(args[t].evs)[i].h = obj[args[t].evs[i].addr].h
        /\ Resolve(args[t].evs)[i].type = args[t].evs[i].type
    BY <1>3 DEF Resolve
  <2>4. obj[args[t].evs[i].addr].h \in live
    <3>1. args[t].evs[i].addr \in AddrsOf(args[t])
      BY <1>3 DEF AddrsOf
    <3> QED
      BY <1>3, <2>1, <3>1, ArgsFirm DEF AttachInv, HandlesOnce
  <2> QED
    BY <1>3, <2>1, <2>2, <2>3, <2>4 DEF MasksFollow
<1>4. TypeOK /\ CacheSafe /\ AttachInv /\ MasksFollow => WaitedEventsEnabled
  BY <1>3 DEF WaitedEventsEnabled
<1> QED
  BY <1>1, <1>2, <1>4, AttachAlways, TypeCorrect, CacheSafeAlways, PTL DEF Spec
-----------------------------------------------------------------------------
(***************************************************************************)
(* What is reported.  The walk over the entries with one index into the    *)
(* sorted indices finds exactly the entries Cyclone returned.              *)
(***************************************************************************)
\* the least number of a set: this is the induction the walk needs
LEMMA Least ==
  ASSUME NEW T, T \subseteq Nat, T # {}
  PROVE  \E x \in T : \A y \in T : x <= y
<1>1. IsWellFoundedOn(OpToRel(<, Nat), Nat)
  BY NatLessThanWellFounded
<1>2. PICK x \in T : \A y \in T : ~(<<y, x>> \in OpToRel(<, Nat))
  BY <1>1, WFMin
<1>3. \A y \in T : ~(y < x)
  BY <1>2 DEF OpToRel
<1> QED
  BY <1>3

\* the enumerations of a set in order
InOrder(S) == {s \in [1..Cardinality(S) -> S] : \A i, j \in DOMAIN s : i < j => s[i] < s[j]}

\* std::sort has something to return
LEMMA CanBeSorted ==
  ASSUME NEW n \in Nat, NEW S \in SUBSET (1..n)
  PROVE  InOrder(S) # {}
<1> DEFINE bad == {k \in Nat : \E T \in SUBSET (1..k) : InOrder(T) = {}}
<1>1. SUFFICES bad = {}
  BY <1>1
<1>2. SUFFICES ASSUME bad # {} PROVE FALSE
  OBVIOUS
<1>3. PICK k \in bad : \A l \in bad : k <= l
  <2> HIDE DEF bad
  <2>1. bad \subseteq Nat
    BY DEF bad
  <2> QED
    BY <1>2, <2>1, Least
<1>4. PICK T \in SUBSET (1..k) : InOrder(T) = {}
  OBVIOUS
<1>5. k \in Nat
  OBVIOUS
<1>6. CASE k = 0
  <2>1. T = {} /\ Cardinality({}) = 0
    BY <1>6, FS_EmptySet
  <2>2. [i \in {} |-> 0] \in InOrder(T)
    BY <2>1 DEF InOrder
  <2> QED
    BY <1>4, <2>2
<1>7. CASE k > 0
  <2> DEFINE R == T \ {k}
             m == Cardinality(R)
  <2>1. k - 1 \in Nat /\ k - 1 \notin bad
    BY <1>3, <1>5, <1>7
  <2>2. R \in SUBSET (1..(k-1))
    BY <1>5
  <2>3. PICK s : s \in InOrder(R)
    BY <2>1, <2>2
  <2>4. IsFiniteSet(R) /\ m \in Nat
    <3>1. IsFiniteSet(1..k)
      BY <1>5, FS_Interval
    <3> QED
      BY <3>1, FS_Subset, FS_CardinalityType
  <2>5. T = R \/ T = R \cup {k}
    OBVIOUS
  <2>6. CASE T = R
    BY <1>4, <2>3, <2>6
  <2>7. CASE T = R \cup {k}
    <3>1. Cardinality(T) = m + 1
      BY <2>4, <2>7, FS_AddElement
    <3> DEFINE r == [i \in 1..(m+1) |-> IF i = m + 1 THEN k ELSE s[i]]
    <3>2. s \in [1..m -> R] /\ \A i, j \in 1..m : i < j => s[i] < s[j]
      BY <2>3 DEF InOrder
    <3> HIDE DEF m, R
    <3>3. \A i \in 1..(m+1) : i # m + 1 => i \in 1..m
      BY <2>4
    <3>4. r \in [1..(m+1) -> T]
      BY <2>7, <3>2, <3>3
    <3>5. \A i \in 1..m : s[i] \in Nat /\ s[i] < k
      <4>1. \A i \in 1..m : s[i] \in R
        BY <3>2
      <4>2. \A x \in R : x \in 1..(k-1)
        BY <2>2
      <4>3. \A x \in 1..(k-1) : x \in Nat /\ x < k
        BY <1>5
      <4> QED
        BY <4>1, <4>2, <4>3
    <3>6. \A i, j \in 1..(m+1) : i < j => r[i] < r[j]
      <4>1. ASSUME NEW i \in 1..(m+1), NEW j \in 1..(m+1), i < j PROVE r[i] < r[j]
        <5>1. i \in 1..m
          BY <2>4, <4>1
        <5>2. i # m + 1
          BY <2>4, <5>1
        <5>3. CASE j = m + 1
          BY <3>5, <5>1, <5>2, <5>3
        <5>4. CASE j # m + 1
          BY <3>2, <3>3, <4>1, <5>1, <5>2, <5>4
        <5> QED
          BY <5>3, <5>4
      <4> QED
        BY <4>1
    <3>7. DOMAIN r = 1..(m+1)
      OBVIOUS
    <3> HIDE DEF r
    <3>8. r \in InOrder(T)
      BY <3>1, <3>4, <3>6, <3>7 DEF InOrder
    <3> QED
      BY <1>4, <3>8
  <2> QED
    BY <2>5, <2>6, <2>7
<1> QED
  BY <1>5, <1>6, <1>7

\* the sorted indices list the whole set, in order
LEMMA AscendingLists ==
  ASSUME NEW n \in Nat, NEW S \in SUBSET (1..n)
  PROVE  /\ IsFiniteSet(S) /\ Cardinality(S) \in Nat
         /\ Ascending(S) \in [1..Cardinality(S) -> S]
         /\ \A i, j \in 1..Cardinality(S) : i < j => Ascending(S)[i] < Ascending(S)[j]
         /\ \A x \in S : \E i \in 1..Cardinality(S) : Ascending(S)[i] = x
<1> DEFINE m == Cardinality(S)
           a == Ascending(S)
<1>1. IsFiniteSet(S) /\ m \in Nat
  <2>1. IsFiniteSet(1..n)
    BY FS_Interval
  <2> QED
    BY <2>1, FS_Subset, FS_CardinalityType
<1>2. a \in [1..m -> S] /\ \A i, j \in DOMAIN a : i < j => a[i] < a[j]
  <2>1. \E s \in [1..m -> S] : \A i, j \in DOMAIN s : i < j => s[i] < s[j]
    BY CanBeSorted DEF InOrder
  <2> QED
    BY <2>1 DEF Ascending
<1> HIDE DEF a
<1>6. \A x \in S : x \in Nat
  OBVIOUS
<1>3. a \in Injection(1..m, S)
  <2>1. \A i, j \in 1..m : a[i] = a[j] => i = j
    <3>1. ASSUME NEW i \in 1..m, NEW j \in 1..m, a[i] = a[j] PROVE i = j
      <4>1. a[i] \in S
        BY <1>2, <3>1
      <4>2. a[i] \in Nat
        BY <1>6, <4>1
      <4>3. ~(i < j) /\ ~(j < i)
        <5>1. DOMAIN a = 1..m
          BY <1>2
        <5>2. ~(a[i] < a[j]) /\ ~(a[j] < a[i])
          BY <3>1, <4>2
        <5> QED
          BY <1>2, <3>1, <5>1, <5>2
      <4> QED
        BY <1>1, <4>3
    <3> QED
      BY <3>1
  <2> QED
    BY <1>2, <2>1 DEF Injection, IsInjective
<1>4. Cardinality(1..m) = m /\ IsFiniteSet(1..m)
  <2>1. 1 \in Int /\ m \in Int
    BY <1>1
  <2>2. IsFiniteSet(1..m) /\ Cardinality(1..m) = IF 1 > m THEN 0 ELSE m - 1 + 1
    BY <2>1, FS_Interval
  <2> QED
    BY <1>1, <2>2
<1>5. a \in Surjection(1..m, S)
  BY <1>1, <1>3, <1>4, FS_Injection
<1> QED
  BY <1>1, <1>2, <1>5 DEF Surjection, a

\* the position after the sorted indices below k holds k, if anything does
LEMMA Position ==
  ASSUME NEW n \in Nat, NEW S \in SUBSET (1..n), NEW k \in 1..n
  PROVE  LET c == Cardinality({j \in S : j < k}) IN
         /\ c \in Nat
         /\ Append(Ascending(S), 0)[c + 1] = k <=> k \in S
         /\ Cardinality({j \in S : j < k + 1}) = c + (IF k \in S THEN 1 ELSE 0)
<1> DEFINE m == Cardinality(S)
           a == Ascending(S)
           L == {j \in S : j < k}
           c == Cardinality(L)
<1>1. /\ IsFiniteSet(S) /\ m \in Nat /\ a \in [1..m -> S]
      /\ \A i, j \in 1..m : i < j => a[i] < a[j]
      /\ \A x \in S : \E i \in 1..m : a[i] = x
  BY AscendingLists
<1>2. \A x \in S : x \in Nat /\ x > 0
  OBVIOUS
<1> HIDE DEF m, a
<1>3. IsFiniteSet(L) /\ c \in Nat /\ c <= m
  BY <1>1, FS_Subset, FS_CardinalityType DEF m
<1>4. a \in Seq(S) /\ Len(a) = m
  BY <1>1
<1>5. \A i \in 1..m : Append(a, 0)[i] = a[i]
  BY <1>4
<1>6. Append(a, 0)[m + 1] = 0
  BY <1>1, <1>4
<1>7. Cardinality({j \in S : j < k + 1}) = c + (IF k \in S THEN 1 ELSE 0)
  <2>1. \A j \in S : j < k + 1 <=> j < k \/ j = k
    BY <1>2
  <2>2. CASE k \in S
    <3>1. {j \in S : j < k + 1} = L \cup {k}
      BY <2>1, <2>2
    <3>2. k \notin L
      OBVIOUS
    <3>3. Cardinality(L \cup {k}) = c + 1
      BY <1>3, <3>2, FS_AddElement
    <3> QED
      BY <2>2, <3>1, <3>3
  <2>3. CASE k \notin S
    <3>1. {j \in S : j < k + 1} = L
      BY <2>1, <2>3
    <3>2. Cardinality({j \in S : j < k + 1}) = c
      BY <3>1
    <3> HIDE DEF L
    <3> QED
      BY <1>3, <2>3, <3>2
  <2> QED
    BY <2>2, <2>3
<1>8. CASE k \in S
  <2>1. PICK p \in 1..m : a[p] = k
    BY <1>1, <1>8
  <2>2. p - 1 \in Nat /\ 1 \in Int /\ p - 1 \in Int
    BY <1>1
  <2> DEFINE b == [i \in 1..(p-1) |-> a[i]]
  <2>3. \A i \in 1..(p-1) : i \in 1..m /\ i < p
    BY <1>1
  <2>4. b \in [1..(p-1) -> L]
    BY <1>1, <2>1, <2>3
  <2>5. \A i, j \in 1..(p-1) : b[i] = b[j] => i = j
    <3>1. ASSUME NEW i \in 1..(p-1), NEW j \in 1..(p-1), i < j PROVE b[i] # b[j]
      <4>1. a[i] < a[j] /\ a[i] \in S /\ a[j] \in S
        BY <1>1, <2>3, <3>1
      <4>2. a[i] \in Nat /\ a[j] \in Nat
        BY <1>2, <4>1
      <4> QED
        BY <4>1, <4>2
    <3>2. \A i, j \in 1..(p-1) : i # j => i < j \/ j < i
      OBVIOUS
    <3> HIDE DEF b
    <3> QED
      BY <3>1, <3>2
  <2>6. \A x \in L : \E i \in 1..(p-1) : b[i] = x
    <3>1. ASSUME NEW x \in L PROVE \E i \in 1..(p-1) : b[i] = x
      <4>1. PICK i \in 1..m : a[i] = x
        BY <1>1
      <4>2. ~(p < i) /\ i # p
        BY <1>1, <1>2, <2>1, <4>1
      <4>3. i \in 1..(p-1)
        BY <1>1, <4>2
      <4> QED
        BY <4>1, <4>3
    <3> QED
      BY <3>1
  <2> HIDE DEF b
  <2>7. b \in Injection(1..(p-1), L) /\ b \in Surjection(1..(p-1), L)
    BY <2>4, <2>5, <2>6 DEF Injection, IsInjective, Surjection
  <2>8. Cardinality(1..(p-1)) = c
    BY <1>3, <2>7, FS_Injection
  <2>9. Cardinality(1..(p-1)) = IF 1 > p - 1 THEN 0 ELSE p - 1 - 1 + 1
    BY <2>2, FS_Interval
  <2>10. c + 1 = p
    BY <1>1, <2>8, <2>9
  <2> QED
    BY <1>3, <1>5, <1>7, <1>8, <2>1, <2>10 DEF a, c, L
<1>9. CASE k \notin S
  <2>1. Append(a, 0)[c + 1] # k
    <3>1. CASE c = m
      <4>1. k # 0
        OBVIOUS
      <4> HIDE DEF c
      <4> QED
        BY <1>6, <3>1, <4>1
    <3>2. CASE c # m
      <4>1. c + 1 \in 1..m
        BY <1>1, <1>3, <3>2
      <4> HIDE DEF c
      <4>2. a[c + 1] \in S
        BY <1>1, <4>1
      <4> QED
        BY <1>5, <1>9, <4>1, <4>2
    <3> QED
      BY <3>1, <3>2
  <2> QED
    BY <1>3, <1>7, <1>9, <2>1 DEF a, c, L
<1> QED
  BY <1>8, <1>9

\* the walk as a recursive function, and the rule it obeys
TrigIdx(s, n) ==
  LET trig_idx[i \in 1..n] ==
        IF i = 1 THEN 1
        ELSE trig_idx[i-1] + (IF s[trig_idx[i-1]] = i - 1 THEN 1 ELSE 0)
  IN trig_idx
WalkRule(s, n, f) ==
  f = [i \in 1..n |-> IF i = 1 THEN 1
                      ELSE f[i-1] + (IF s[f[i-1]] = i - 1 THEN 1 ELSE 0)]

\* whatever obeys the rule is the walk
LEMMA WalkIs ==
  ASSUME NEW s, NEW n \in Nat, NEW h, WalkRule(s, n, h)
  PROVE  TrigIdx(s, n) = h
<1> DEFINE f == TrigIdx(s, n)
<1>1. f = CHOOSE g : WalkRule(s, n, g)
  BY DEF TrigIdx, WalkRule
<1>2. WalkRule(s, n, f)
  BY <1>1
<1> HIDE DEF f
<1>3. DOMAIN f = 1..n /\ DOMAIN h = 1..n
  BY <1>2 DEF WalkRule
<1>4. \A i \in 1..n : f[i] = h[i]
  <2> DEFINE bad == {i \in 1..n : f[i] # h[i]}
  <2>1. SUFFICES ASSUME bad # {} PROVE FALSE
    OBVIOUS
  <2>2. bad \subseteq Nat
    OBVIOUS
  <2>3. PICK i \in bad : \A j \in bad : i <= j
    <3> HIDE DEF bad
    <3> QED
      BY <2>1, <2>2, Least
  <2>4. \A g : WalkRule(s, n, g) =>
          g[i] = IF i = 1 THEN 1 ELSE g[i-1] + (IF s[g[i-1]] = i - 1 THEN 1 ELSE 0)
    BY DEF WalkRule
  <2>5. CASE i = 1
    BY <1>2, <2>4, <2>5
  <2>6. CASE i # 1
    <3>1. i - 1 \in 1..n /\ i - 1 \notin bad
      BY <2>3, <2>6
    <3>2. f[i-1] = h[i-1]
      BY <3>1
    <3> QED
      BY <1>2, <2>4, <2>6, <3>2
  <2> QED
    BY <2>5, <2>6
<1>5. f = [i \in 1..n |-> f[i]] /\ h = [i \in 1..n |-> h[i]]
  BY <1>2 DEF WalkRule
<1> QED
  BY <1>4, <1>5 DEF f

\* the walk stops at exactly the members of the sorted set
LEMMA WalkFinds ==
  ASSUME NEW n \in Nat, NEW S \in SUBSET (1..n)
  PROVE  LET s == Append(Ascending(S), 0) IN {i \in 1..n : s[TrigIdx(s, n)[i]] = i} = S
<1> DEFINE h == [i \in 1..n |-> Cardinality({j \in S : j < i}) + 1]
           s == Append(Ascending(S), 0)
<1>1. ASSUME NEW i \in 1..n
      PROVE  h[i] = IF i = 1 THEN 1 ELSE h[i-1] + (IF s[h[i-1]] = i - 1 THEN 1 ELSE 0)
  <2>1. CASE i = 1
    <3>1. {j \in S : j < i} = {} /\ Cardinality({}) = 0
      <4>1. \A j \in S : j \in Nat /\ j >= 1
        OBVIOUS
      <4>2. \A j \in S : ~(j < i)
        BY <2>1, <4>1
      <4>3. {j \in S : j < i} = {}
        BY <4>2
      <4> QED
        BY <4>3, FS_EmptySet
    <3>2. h[i] = Cardinality({j \in S : j < i}) + 1
      OBVIOUS
    <3> HIDE DEF h
    <3>3. h[i] = 0 + 1
      BY <3>1, <3>2
    <3> QED
      BY <2>1, <3>3
  <2>2. CASE i # 1
    <3>1. PICK k \in 1..n : k = i - 1 /\ k + 1 = i
      BY <2>2
    <3> DEFINE c == Cardinality({j \in S : j < k})
    <3>2. /\ c \in Nat
          /\ s[c + 1] = k <=> k \in S
          /\ Cardinality({j \in S : j < k + 1}) = c + (IF k \in S THEN 1 ELSE 0)
      BY <3>1, Position, ZenonT(40)
    <3>3. h[k] = c + 1 /\ h[i] = Cardinality({j \in S : j < k + 1}) + 1
      BY <3>1
    <3> HIDE DEF h, c, s
    <3> QED
      BY <2>2, <3>1, <3>2, <3>3
  <2> QED
    BY <2>1, <2>2
<1>2. WalkRule(s, n, h)
  <2> DEFINE r(i) == IF i = 1 THEN 1 ELSE h[i-1] + (IF s[h[i-1]] = i - 1 THEN 1 ELSE 0)
  <2>1. h = [i \in 1..n |-> h[i]]
    OBVIOUS
  <2> HIDE DEF h, s
  <2>2. h = [i \in 1..n |-> r(i)]
    BY <1>1, <2>1
  <2> QED
    BY <2>2 DEF WalkRule
<1>3. \A i \in 1..n : s[h[i]] = i <=> i \in S
  BY Position
<1> HIDE DEF h
<1>4. TrigIdx(s, n) = h
  BY <1>2, WalkIs
<1>5. \A i \in 1..n : s[TrigIdx(s, n)[i]] = i <=> i \in S
  BY <1>3, <1>4
<1> HIDE DEF s
<1>6. {i \in 1..n : s[TrigIdx(s, n)[i]] = i} = S
  BY <1>5
<1> QED
  BY <1>6 DEF s

\* rmw_wait keeps exactly the entries whose index was returned
LEMMA ReportedIs ==
  ASSUME NEW w, NEW es \in Seq(Elems), trigs[w].ents \subseteq DOMAIN es
  PROVE  Reported(w, es) = trigs[w].ents
<1>1. PICK n \in Nat : n = Len(es)
  OBVIOUS
<1>2. DOMAIN es = 1..n /\ trigs[w].ents \in SUBSET (1..n)
  BY <1>1
<1>3. Reported(w, es) = {i \in 1..n : SortedTrigs(w)[TrigIdx(SortedTrigs(w), n)[i]] = i}
  BY <1>1, <1>2 DEF Reported, TrigIdx
<1> QED
  BY <1>2, <1>3, WalkFinds DEF SortedTrigs
\* (the same after a step)
LEMMA ReportedAfter ==
  ASSUME NEW w, NEW es \in Seq(Elems), trigs'[w].ents \subseteq DOMAIN es
  PROVE  Reported(w, es)' = trigs'[w].ents
<1>1. PICK n \in Nat : n = Len(es)
  OBVIOUS
<1>2. DOMAIN es = 1..n /\ trigs'[w].ents \in SUBSET (1..n)
  BY <1>1
<1>3. Reported(w, es)' = {i \in 1..n : SortedTrigs(w)'[TrigIdx(SortedTrigs(w)', n)[i]] = i}
  BY <1>1, <1>2 DEF Reported, TrigIdx
<1> QED
  BY <1>2, <1>3, WalkFinds DEF SortedTrigs

\* what a woken thread will look for: entries it was given
TrigsFit ==
  \A t \in Waiters : pc[t] = "woken" => trigs[cw[t]].ents \subseteq DOMAIN args[t].ents

\* steps that leave the woken threads alone
LEMMA FitFrame ==
  ASSUME TrigsFit,
         \A t \in Waiters : pc'[t] = "woken" =>
           pc[t] = "woken" /\ cw'[t] = cw[t] /\ args'[t] = args[t] /\ trigs'[cw[t]] = trigs[cw[t]]
  PROVE  TrigsFit'
BY DEF TrigsFit

\* only Wake, TimeOut and the constructor and the destructor of a waitset write
\* ws->trigs, and none of them while another thread is about to read it
LEMMA TrigsKept ==
  ASSUME TypeOK, CacheSafe, [Next]_vars, NEW t \in Waiters, InCall(t),
         \A u \in Waiters : pc[u] = "blocked" => cw[u] # cw[t]
  PROVE  trigs'[cw[t]] = trigs[cw[t]]
<1>1. cw[t] \in waitsets \ closing /\ cw[t] \in WS /\ waitsets \subseteq WS
  BY DEF CacheSafe, ArgsHeld, TypeOK
<1>2. CASE UNCHANGED vars \/ EntityStep
  BY <1>2 DEF vars, EntityStep, CreateEntity, TriggerGuardCondition, DataArrives, TakeData,
              StatusChanges, TakeEvent, cwait
<1>3. CASE WaitSetStep
  BY <1>1, <1>3 DEF WaitSetStep, CreateWaitSet, DestroyWaitSet, EraseWaitSet, CreateWaitSetFails,
                    ClearStruct, cwait, TypeOK
<1>4. ASSUME NEW u \in Waiters, CallStep(u) \/ WaitStep(u) PROVE trigs'[cw[t]] = trigs[cw[t]]
  <2>1. CASE Wake(u) \/ TimeOut(u)
    <3>1. pc[u] = "blocked" /\ \A v \in WS : v # cw[u] => trigs'[v] = trigs[v]
      BY <2>1 DEF Wake, TimeOut, Goto, TypeOK
    <3>2. cw[u] # cw[t]
      BY <3>1
    <3> QED
      BY <1>1, <3>1, <3>2
  <2>2. CASE ~(Wake(u) \/ TimeOut(u))
    <3>1. CASE Report(u)
      BY <3>1 DEF Report, cwait
    <3>2. CASE ~Report(u)
      BY <1>4, <2>2, <3>2 DEF CallStep, WaitStep, Claim, Reject, CacheHit, Detach, Attach,
                              GatherFails, Release, Return, cwait, vars
    <3> QED
      BY <3>1, <3>2
  <2> QED
    BY <2>1, <2>2
<1>5. ASSUME NEW d \in Destroyers, (\E x \in Addr : StartDestroy(d, x)) \/ DestroyStep(d)
      PROVE  trigs'[cw[t]] = trigs[cw[t]]
  BY <1>5 DEF StartDestroy, DestroyStep, BeginClean, EndClean, CleanOne, DeleteEntity, FreeObject, cwait
<1> QED
  BY <1>2, <1>3, <1>4, <1>5 DEF Next

\* (a step of another thread)
LEMMA OtherSteps ==
  ASSUME TypeOK, NEW t \in Waiters, NEW u \in Waiters, u # t, CallStep(u) \/ WaitStep(u)
  PROVE  pc'[t] = pc[t] /\ cw'[t] = cw[t] /\ args'[t] = args[t] /\ rep'[t] = rep[t]
<1>1. CASE CallStep(u)
  BY <1>1 DEF CallStep, Claim, Reject, Goto, vars, wvars, TypeOK
<1>2. CASE CacheHit(u) \/ Detach(u) \/ Attach(u) \/ GatherFails(u)
  BY <1>2 DEF CacheHit, Detach, Attach, GatherFails, Goto, TypeOK
<1>3. CASE Wake(u) \/ TimeOut(u) \/ Release(u) \/ Return(u)
  BY <1>3 DEF Wake, TimeOut, Release, Return, Goto, TypeOK
<1>4. CASE Report(u)
  BY <1>4 DEF Report, Goto, TypeOK
<1> QED
  BY <1>1, <1>2, <1>3, <1>4 DEF WaitStep

\* a thread's own variables change with its own steps only
LEMMA OthersStay ==
  ASSUME TypeOK, [Next]_vars, NEW t \in Waiters, ~(CallStep(t) \/ WaitStep(t))
  PROVE  pc'[t] = pc[t] /\ cw'[t] = cw[t] /\ args'[t] = args[t] /\ rep'[t] = rep[t]
<1>1. CASE UNCHANGED vars \/ EntityStep \/ WaitSetStep
  BY <1>1 DEF vars, EntityStep, CreateEntity, TriggerGuardCondition, DataArrives, TakeData,
              StatusChanges, TakeEvent, WaitSetStep, CreateWaitSet, DestroyWaitSet, EraseWaitSet,
              CreateWaitSetFails, wvars
<1>2. ASSUME NEW d \in Destroyers, (\E x \in Addr : StartDestroy(d, x)) \/ DestroyStep(d)
      PROVE  pc'[t] = pc[t] /\ cw'[t] = cw[t] /\ args'[t] = args[t] /\ rep'[t] = rep[t]
  BY <1>2 DEF StartDestroy, DestroyStep, BeginClean, EndClean, CleanOne, DeleteEntity, FreeObject, wvars
<1> QED
  BY <1>1, <1>2, OtherSteps DEF Next

\* where the steps of a thread lead
LEMMA WaitMoves ==
  ASSUME TypeOK, NEW t \in Waiters, CallStep(t) \/ WaitStep(t)
  PROVE  \/ UNCHANGED vars
         \/ pc'[t] \notin {"woken", "reported", "returning"}
         \/ Wake(t) \/ TimeOut(t) \/ Report(t) \/ Release(t)
BY DEF CallStep, WaitStep, Claim, Reject, CacheHit, Detach, Attach, GatherFails, Return, Goto, TypeOK

\* the conditions returned to a thread, by index
LEMMA WokenEnts ==
  ASSUME TypeOK, CacheSafe, AttachInv, NEW t \in Waiters, Wake(t) \/ TimeOut(t)
  PROVE  /\ pc[t] = "blocked" /\ pc'[t] = "woken"
         /\ UNCHANGED <<cw, args, obj, trig>>
         /\ args[t].ents \in Seq(Elems)
         /\ trigs'[cw[t]].ents = {p[2] : p \in {q \in Attachments(args[t].ents) : q[1] \in trig}}
         /\ trigs'[cw[t]].ents \subseteq DOMAIN args[t].ents
<1>1. /\ pc[t] = "blocked" /\ pc'[t] = "woken" /\ UNCHANGED <<cw, args, obj, trig>>
      /\ trigs'[cw[t]] = Triggered(cw[t])
  BY DEF Wake, TimeOut, Goto, TypeOK, heap
<1>2. attE[cw[t]] = Attachments(args[t].ents) /\ args[t].ents \in Seq(Elems)
  BY <1>1, BlockedAttached
<1>3. trigs'[cw[t]].ents = {p[2] : p \in {q \in Attachments(args[t].ents) : q[1] \in trig}}
  BY <1>1, <1>2 DEF Triggered
<1>4. \A p \in Attachments(args[t].ents) : p[2] \in DOMAIN args[t].ents
  BY DEF Attachments
<1> QED
  BY <1>1, <1>2, <1>3, <1>4

\* TrigsFit is inductive relative to the invariants before it
LEMMA FitStep == TypeOK /\ CacheSafe /\ AttachInv /\ TrigsFit /\ [Next]_vars => TrigsFit'
<1> SUFFICES ASSUME TypeOK, CacheSafe, AttachInv, TrigsFit, [Next]_vars,
                    NEW t \in Waiters, pc'[t] = "woken"
             PROVE  trigs'[cw'[t]].ents \subseteq DOMAIN args'[t].ents
  BY DEF TrigsFit
<1>1. CASE Wake(t) \/ TimeOut(t)
  BY <1>1, WokenEnts
<1>2. CASE ~(Wake(t) \/ TimeOut(t))
  <2>1. pc[t] = "woken" /\ cw'[t] = cw[t] /\ args'[t] = args[t]
    <3>1. CASE CallStep(t) \/ WaitStep(t)
      BY <1>2, <3>1, WaitMoves DEF Report, Release, Goto, vars, wvars, TypeOK
    <3>2. CASE ~(CallStep(t) \/ WaitStep(t))
      BY <3>2, OthersStay
    <3> QED
      BY <3>1, <3>2
  <2>2. trigs'[cw[t]] = trigs[cw[t]]
    BY <2>1, TrigsKept DEF CacheSafe, OneUser, Busy, InCall
  <2> QED
    BY <2>1, <2>2 DEF TrigsFit
<1> QED
  BY <1>1, <1>2

\* (in every execution)
LEMMA FitAlways == ASSUME ~Overlap PROVE Spec => []TrigsFit
<1>1. Init => TrigsFit
  BY DEF Init, TrigsFit
<1> QED
  BY <1>1, FitStep, AttachAlways, TypeCorrect, CacheSafeAlways, PTL DEF Spec

-----------------------------------------------------------------------------
(***************************************************************************)
(* The contract of rmw_wait: every step of Waitset is a step of            *)
(* WaitContract or leaves what it sees alone.                              *)
(***************************************************************************)
\* what the contract sees of a thread
Ph(t) == CASE pc[t] \in {"claimed", "detached", "blocked"} -> "waiting"
           [] pc[t] = "woken" -> "woken"
           [] OTHER -> "out"
As(t) == IF pc[t] \in {"claimed", "detached", "blocked"} THEN Asked(t) ELSE {}
To(t) == IF pc[t] = "woken" THEN Told(t) ELSE {}
PhMap == [t \in Waiters |-> Ph(t)]
AsMap == [t \in Waiters |-> As(t)]
ToMap == [t \in Waiters |-> To(t)]

\* the contract in these terms
LEMMA ContractSees ==
  /\ Contract!vars = <<trig, PhMap, AsMap, ToMap>>
  /\ Contract!Init <=> /\ trig = {}
                       /\ PhMap = [t \in Waiters |-> "out"]
                       /\ AsMap = [t \in Waiters |-> {}] /\ ToMap = [t \in Waiters |-> {}]
  /\ Contract!Environment <=> trig' \in SUBSET Handles /\ UNCHANGED <<PhMap, AsMap, ToMap>>
BY DEF Contract!vars, Contract!Init, Contract!Environment, PhMap, AsMap, ToMap, Ph, As, To

\* (a step of the contract, in the same terms)
LEMMA ContractSteps ==
  ASSUME NEW t
  PROVE
  /\ Contract!Ask(t) <=> /\ PhMap[t] = "out" /\ PhMap' = [PhMap EXCEPT ![t] = "waiting"]
                         /\ \E A \in SUBSET Handles : AsMap' = [AsMap EXCEPT ![t] = A]
                         /\ UNCHANGED <<trig, ToMap>>
  /\ Contract!Wake(t) <=> /\ PhMap[t] = "waiting" /\ PhMap' = [PhMap EXCEPT ![t] = "woken"]
                          /\ ToMap' = [ToMap EXCEPT ![t] = AsMap[t] \cap trig]
                          /\ AsMap' = [AsMap EXCEPT ![t] = {}]
                          /\ UNCHANGED trig
  /\ Contract!GiveUp(t) <=> /\ PhMap[t] = "waiting" /\ PhMap' = [PhMap EXCEPT ![t] = "out"]
                            /\ AsMap' = [AsMap EXCEPT ![t] = {}]
                            /\ UNCHANGED <<trig, ToMap>>
  /\ Contract!Leave(t) <=> /\ PhMap[t] = "woken" /\ PhMap' = [PhMap EXCEPT ![t] = "out"]
                           /\ ToMap' = [ToMap EXCEPT ![t] = {}]
                           /\ \E G \in SUBSET ToMap[t] : trig' = trig \ G
                           /\ UNCHANGED AsMap
BY DEF Contract!Ask, Contract!Wake, Contract!GiveUp, Contract!Leave, PhMap, AsMap, ToMap, Ph, As, To

\* a step of one thread, seen from the contract
LEMMA OneMoves ==
  ASSUME NEW t \in Waiters,
         \A u \in Waiters \ {t} : Ph(u)' = Ph(u) /\ As(u)' = As(u) /\ To(u)' = To(u)
  PROVE  /\ PhMap' = [PhMap EXCEPT ![t] = Ph(t)'] /\ PhMap[t] = Ph(t)
         /\ AsMap' = [AsMap EXCEPT ![t] = As(t)'] /\ AsMap[t] = As(t)
         /\ ToMap' = [ToMap EXCEPT ![t] = To(t)'] /\ ToMap[t] = To(t)
         /\ Ph(t)' = Ph(t) => PhMap' = PhMap
         /\ As(t)' = As(t) => AsMap' = AsMap
         /\ To(t)' = To(t) => ToMap' = ToMap
<1>1. /\ PhMap = [u \in Waiters |-> Ph(u)] /\ PhMap' = [u \in Waiters |-> Ph(u)']
      /\ AsMap = [u \in Waiters |-> As(u)] /\ AsMap' = [u \in Waiters |-> As(u)']
      /\ ToMap = [u \in Waiters |-> To(u)] /\ ToMap' = [u \in Waiters |-> To(u)']
  BY DEF PhMap, AsMap, ToMap
<1> QED
  BY <1>1

\* the arguments of a call in progress keep their handles
LEMMA ArgHandles ==
  ASSUME TypeOK, CacheSafe, [Next]_vars, NEW t \in Waiters, InCall(t), NEW x \in AddrsOf(args[t])
  PROVE  obj'[x].h = obj[x].h /\ obj[x].h \in Handles
<1>1. x \in Addr /\ Real(x) /\ x \notin Dying /\ obj[x] # Free
  BY ArgsFirm DEF Real
<1>2. obj[x].h \in Handles
  BY <1>1, RealHandle
<1>3. CASE UNCHANGED vars \/ WaitSetStep
  BY <1>2, <1>3 DEF vars, heap, WaitSetStep, CreateWaitSet, DestroyWaitSet, EraseWaitSet, CreateWaitSetFails
<1>4. CASE EntityStep
  BY <1>1, <1>2, <1>4 DEF EntityStep, CreateEntity, TriggerGuardCondition, DataArrives, TakeData,
                     StatusChanges, TakeEvent, heap, TypeOK
<1>5. ASSUME NEW u \in Waiters, CallStep(u) \/ WaitStep(u) PROVE obj' = obj
  <2>1. CASE Report(u)
    BY <2>1 DEF Report, heap
  <2>2. CASE ~Report(u)
    BY <1>5, <2>2 DEF CallStep, Claim, Reject, WaitStep, CacheHit, Detach, Attach, GatherFails, Wake,
                      TimeOut, Release, Return, vars, heap
  <2> QED
    BY <2>1, <2>2
<1>6. ASSUME NEW d \in Destroyers, (\E y \in Addr : StartDestroy(d, y)) \/ DestroyStep(d)
      PROVE  obj'[x] = obj[x]
  <2>1. FreeObject(d) => target[d] # x
    BY <1>1 DEF FreeObject, Dying
  <2> QED
    BY <1>1, <1>6, <2>1 DEF StartDestroy, DestroyStep, BeginClean, EndClean, CleanOne, DeleteEntity,
                       FreeObject, heap, TypeOK
<1> QED
  BY <1>2, <1>3, <1>4, <1>5, <1>6 DEF Next

\* what is told, by the entries
LEMMA ToldIs ==
  ASSUME NEW t, NEW es \in Seq(Elems), args[t].ents = es, trigs[cw[t]].ents \subseteq DOMAIN es
  PROVE  Told(t) = {CondAt(es[i]) : i \in trigs[cw[t]].ents}
BY ReportedIs DEF Told

\* (the same after a step)
LEMMA ToldAfter ==
  ASSUME NEW t, NEW es \in Seq(Elems), NEW w,
         args'[t].ents = es, cw'[t] = w, trigs'[w].ents \subseteq DOMAIN es
  PROVE  Told(t)' = {CondAt(es[i])' : i \in trigs'[w].ents}
<1>1. Reported(w, es)' = trigs'[w].ents
  BY ReportedAfter
<1>2. Told(t)' = {CondAt(es[i])' : i \in Reported(w, es)'}
  BY DEF Told, CondAt, Reported, SortedTrigs
<1> QED
  BY <1>1, <1>2

\* while a call is in progress the contract keeps seeing the same
LEMMA AskedKept ==
  ASSUME TypeOK, CacheSafe, [Next]_vars, NEW t \in Waiters, InCall(t), args'[t] = args[t]
  PROVE  Asked(t)' = Asked(t) /\ Asked(t) \subseteq Handles
<1>1. PICK es : es = args[t].ents
  OBVIOUS
<1>2. \A i \in DOMAIN es : CondAt(es[i])' = CondAt(es[i]) /\ CondAt(es[i]) \in Handles
  <2>1. \A i \in DOMAIN es : es[i].addr \in AddrsOf(args[t])
    BY <1>1 DEF AddrsOf
  <2> QED
    BY <2>1, ArgHandles DEF CondAt
<1>3. Asked(t) = {CondAt(es[i]) : i \in DOMAIN es}
  BY <1>1 DEF Asked
<1>4. Asked(t)' = {CondAt(es[i])' : i \in DOMAIN es}
  BY <1>1 DEF Asked, CondAt
<1> QED
  BY <1>2, <1>3, <1>4

\* (nor does what it sees of the call change otherwise)
LEMMA SeenKept ==
  ASSUME TypeOK, CacheSafe, TrigsFit, [Next]_vars, NEW t \in Waiters,
         pc'[t] = pc[t] /\ cw'[t] = cw[t] /\ args'[t] = args[t]
  PROVE  Ph(t)' = Ph(t) /\ As(t)' = As(t) /\ To(t)' = To(t)
<1>1. Ph(t)' = Ph(t)
  BY DEF Ph
<1>2. As(t)' = As(t)
  BY AskedKept DEF As, InCall
<1>3. CASE pc[t] = "woken"
  <2>1. PICK w, es : es = args[t].ents /\ w = cw[t]
    OBVIOUS
  <2>2. es \in Seq(Elems) /\ trigs[w].ents \subseteq DOMAIN es
    BY <1>3, <2>1, ArgsAreSequences DEF TrigsFit, TypeOK
  <2>3. trigs'[w] = trigs[w]
    BY <1>3, <2>1, TrigsKept DEF CacheSafe, OneUser, Busy, InCall
  <2>4. Told(t) = {CondAt(es[i]) : i \in trigs[w].ents}
    BY <2>1, <2>2, ToldIs
  <2>5. Told(t)' = {CondAt(es[i])' : i \in trigs[w].ents}
    <3>1. cw'[t] = w /\ args'[t].ents = es /\ trigs'[w].ents \subseteq DOMAIN es
      BY <2>1, <2>2, <2>3
    <3> QED
      BY <2>2, <2>3, <3>1, ToldAfter
  <2>6. \A i \in trigs[w].ents : CondAt(es[i])' = CondAt(es[i])
    <3>1. \A i \in trigs[w].ents : es[i].addr \in AddrsOf(args[t])
      BY <2>1, <2>2 DEF AddrsOf
    <3> QED
      BY <1>3, <3>1, ArgHandles DEF CondAt, InCall
  <2> QED
    BY <1>1, <1>2, <1>3, <2>4, <2>5, <2>6 DEF To
<1> QED
  BY <1>1, <1>2, <1>3 DEF To

\* a call begins: the thread asks for the conditions among its arguments
LEMMA ClaimAsks ==
  ASSUME TypeOK, CacheSafe, TrigsFit, [Next]_vars, NEW t \in Waiters,
         NEW w \in WS, NEW a \in Calls, Claim(t, w, a),
         \A u \in Waiters \ {t} : Ph(u)' = Ph(u) /\ As(u)' = As(u) /\ To(u)' = To(u)
  PROVE  Contract!Ask(t)
<1>1. /\ pc[t] = "idle" /\ pc'[t] = "claimed" /\ args'[t] = a /\ MayCall(w, a)
      /\ UNCHANGED <<obj, trig>>
  BY DEF Claim, Goto, heap, TypeOK
<1>2. /\ Ph(t) = "out" /\ Ph(t)' = "waiting" /\ To(t)' = To(t) /\ As(t)' = Asked(t)'
  BY <1>1 DEF Ph, To, As
<1>3. Asked(t)' \in SUBSET Handles
  <2>1. PICK es : es = a.ents
    OBVIOUS
  <2>2. \A i \in DOMAIN es : CondAt(es[i])' \in Handles
    <3>1. \A i \in DOMAIN es : es[i].addr \in Addr /\ obj[es[i].addr] # Free
      <4>1. \A i \in DOMAIN es : es[i].addr \in AddrsOf(a)
        BY <2>1 DEF AddrsOf
      <4>2. a \in ArgSet
        BY DEF ArgSet
      <4> QED
        BY <1>1, <4>1, <4>2, ArgsAreSequences DEF MayCall, Usable
    <3> QED
      BY <1>1, <3>1, RealHandle DEF CondAt
  <2>3. Asked(t)' = {CondAt(es[i])' : i \in DOMAIN es}
    BY <1>1, <2>1 DEF Asked, CondAt
  <2> QED
    BY <2>2, <2>3
<1>4. /\ PhMap' = [PhMap EXCEPT ![t] = Ph(t)'] /\ PhMap[t] = Ph(t)
      /\ AsMap' = [AsMap EXCEPT ![t] = As(t)'] /\ ToMap' = ToMap
  BY <1>2, OneMoves
<1> QED
  BY <1>1, <1>2, <1>3, <1>4, ContractSteps

\* dds_waitset_wait returns: the thread will tell what was triggered then
LEMMA WakeTells ==
  ASSUME TypeOK, CacheSafe, AttachInv, NEW t \in Waiters, Wake(t) \/ TimeOut(t),
         \A u \in Waiters \ {t} : Ph(u)' = Ph(u) /\ As(u)' = As(u) /\ To(u)' = To(u)
  PROVE  Contract!Wake(t)
<1>1. PICK w, es : w = cw[t] /\ es = args[t].ents
  OBVIOUS
<1>2. /\ pc[t] = "blocked" /\ pc'[t] = "woken" /\ UNCHANGED <<cw, args, obj, trig>>
      /\ es \in Seq(Elems)
      /\ trigs'[w].ents = {p[2] : p \in {q \in Attachments(es) : q[1] \in trig}}
      /\ trigs'[w].ents \subseteq DOMAIN es
  BY <1>1, WokenEnts
<1>3. \A i \in DOMAIN es : CondAt(es[i])' = CondAt(es[i])
  BY <1>2 DEF CondAt
<1>4. /\ Ph(t) = "waiting" /\ Ph(t)' = "woken" /\ As(t)' = {} /\ As(t) = Asked(t) /\ To(t)' = Told(t)'
  BY <1>2 DEF Ph, As, To
<1>5. Asked(t) = {CondAt(es[i]) : i \in DOMAIN es}
  BY <1>1 DEF Asked
<1>6. Told(t)' = {CondAt(es[i]) : i \in trigs'[w].ents}
  <2>1. Told(t)' = {CondAt(es[i])' : i \in trigs'[w].ents}
    <3>1. cw'[t] = w /\ args'[t].ents = es
      BY <1>1, <1>2
    <3> QED
      BY <1>2, <3>1, ToldAfter
  <2> QED
    BY <1>2, <1>3, <2>1
\* of entries with one condition it is the first that is attached
<1>7. \A i \in DOMAIN es : \E j \in DOMAIN es :
        CondAt(es[j]) = CondAt(es[i]) /\ <<CondAt(es[j]), j>> \in Attachments(es)
  <2> SUFFICES ASSUME NEW i \in DOMAIN es
               PROVE  \E j \in DOMAIN es : /\ CondAt(es[j]) = CondAt(es[i])
                                           /\ <<CondAt(es[j]), j>> \in Attachments(es)
    OBVIOUS
  <2> DEFINE same == {j \in DOMAIN es : CondAt(es[j]) = CondAt(es[i])}
  <2>1. DOMAIN es = 1..Len(es) /\ Len(es) \in Nat
    BY <1>2
  <2>2. same \subseteq Nat /\ same # {}
    BY <2>1
  <2>3. PICK j \in same : \A k \in same : j <= k
    <3> HIDE DEF same
    <3> QED
      BY <2>2, Least
  <2>4. \A k \in 1..(j-1) : k \in DOMAIN es /\ CondAt(es[k]) # CondAt(es[j])
    BY <2>1, <2>3
  <2>5. j \in {m \in DOMAIN es : \A k \in 1..(m-1) : CondAt(es[k]) # CondAt(es[m])}
    BY <2>4
  <2> QED
    BY <2>5 DEF Attachments
<1>8. Told(t)' = Asked(t) \cap trig
  <2>1. ASSUME NEW h \in Asked(t), h \in trig PROVE h \in Told(t)'
    <3>1. PICK i \in DOMAIN es : h = CondAt(es[i])
      BY <1>5, <2>1
    <3>2. PICK j \in DOMAIN es : CondAt(es[j]) = h /\ <<CondAt(es[j]), j>> \in Attachments(es)
      BY <1>7, <3>1
    <3>3. <<h, j>> \in {q \in Attachments(es) : q[1] \in trig}
      BY <2>1, <3>2
    <3>4. <<h, j>>[2] = j
      OBVIOUS
    <3>5. j \in trigs'[w].ents
      BY <1>2, <3>3, <3>4
    <3> QED
      BY <1>6, <3>2, <3>5
  <2>2. ASSUME NEW h \in Told(t)' PROVE h \in Asked(t) /\ h \in trig
    <3>1. PICK i \in trigs'[w].ents : h = CondAt(es[i])
      BY <1>6, <2>2
    <3>2. PICK p \in Attachments(es) : p[1] \in trig /\ p[2] = i
      BY <1>2, <3>1
    <3>3. p[1] = CondAt(es[i]) /\ i \in DOMAIN es
      BY <3>2 DEF Attachments
    <3> QED
      BY <1>5, <3>1, <3>2, <3>3
  <2> QED
    BY <2>1, <2>2
<1>9. /\ PhMap' = [PhMap EXCEPT ![t] = Ph(t)'] /\ PhMap[t] = Ph(t)
      /\ AsMap' = [AsMap EXCEPT ![t] = As(t)'] /\ AsMap[t] = As(t)
      /\ ToMap' = [ToMap EXCEPT ![t] = To(t)']
  BY OneMoves
<1> QED
  BY <1>2, <1>4, <1>8, <1>9, ContractSteps

\* the arrays are cut down to that: of it the guard conditions are reset
LEMMA ReportLeaves ==
  ASSUME NEW t \in Waiters, Report(t), TypeOK,
         \A u \in Waiters \ {t} : Ph(u)' = Ph(u) /\ As(u)' = As(u) /\ To(u)' = To(u)
  PROVE  Contract!Leave(t)
<1>1. /\ pc[t] = "woken" /\ pc'[t] = "reported"
      /\ trig' = trig \ TakenGuards(args[t].ents, Reported(cw[t], args[t].ents))
  BY DEF Report, Goto, TypeOK
<1>2. Ph(t) = "woken" /\ Ph(t)' = "out" /\ As(t) = {} /\ As(t)' = {} /\ To(t) = Told(t) /\ To(t)' = {}
  BY <1>1 DEF Ph, As, To
<1>3. TakenGuards(args[t].ents, Reported(cw[t], args[t].ents)) \subseteq Told(t)
  BY DEF TakenGuards, Told
<1>4. /\ PhMap' = [PhMap EXCEPT ![t] = Ph(t)'] /\ PhMap[t] = Ph(t) /\ AsMap' = AsMap
      /\ ToMap' = [ToMap EXCEPT ![t] = To(t)'] /\ ToMap[t] = To(t)
  BY <1>2, OneMoves
<1> QED
  BY <1>1, <1>2, <1>3, <1>4, ContractSteps, ZenonT(40)

\* the other steps of a thread: it gives up, or nothing is to be seen
LEMMA OtherwiseHidden ==
  ASSUME TypeOK, CacheSafe, [Next]_vars, NEW t \in Waiters,
         CacheHit(t) \/ Detach(t) \/ Attach(t) \/ GatherFails(t) \/ Release(t) \/ Return(t),
         \A u \in Waiters \ {t} : Ph(u)' = Ph(u) /\ As(u)' = As(u) /\ To(u)' = To(u)
  PROVE  Contract!GiveUp(t) \/ UNCHANGED <<trig, PhMap, AsMap, ToMap>>
<1>1. trig' = trig
  BY DEF CacheHit, Detach, Attach, GatherFails, Release, Return
<1>2. CASE CacheHit(t) \/ Detach(t) \/ Attach(t)
  <2>1. pc[t] \in {"claimed", "detached"} /\ pc'[t] \in {"detached", "blocked"} /\ args' = args
    BY <1>2 DEF CacheHit, Detach, Attach, Goto, TypeOK
  <2>2. Asked(t)' = Asked(t)
    BY <2>1, AskedKept DEF InCall
  <2>3. Ph(t)' = Ph(t) /\ As(t)' = As(t) /\ To(t)' = To(t)
    BY <2>1, <2>2 DEF Ph, As, To
  <2> QED
    BY <1>1, <2>3, OneMoves
<1>3. CASE GatherFails(t)
  <2>1. pc[t] = "detached" /\ pc'[t] = "idle"
    BY <1>3 DEF GatherFails, Goto, TypeOK
  <2>2. Ph(t) = "waiting" /\ Ph(t)' = "out" /\ As(t)' = {} /\ To(t)' = To(t)
    BY <2>1 DEF Ph, As, To
  <2>3. /\ PhMap' = [PhMap EXCEPT ![t] = Ph(t)'] /\ PhMap[t] = Ph(t)
        /\ AsMap' = [AsMap EXCEPT ![t] = As(t)'] /\ ToMap' = ToMap
    BY <2>2, OneMoves
  <2> QED
    BY <1>1, <2>2, <2>3, ContractSteps
<1>4. CASE Release(t) \/ Return(t)
  <2>1. pc[t] \in {"reported", "returning"} /\ pc'[t] \in {"returning", "idle"}
    BY <1>4 DEF Release, Return, Goto, TypeOK
  <2>2. Ph(t)' = Ph(t) /\ As(t)' = As(t) /\ To(t)' = To(t)
    BY <2>1 DEF Ph, As, To
  <2> QED
    BY <1>1, <2>2, OneMoves
<1> QED
  BY <1>2, <1>3, <1>4

\* every step of Waitset is one of the contract
LEMMA ContractStep ==
  TypeOK /\ CacheSafe /\ AttachInv /\ AttachInv' /\ TrigsFit /\ [Next]_vars
    => [Contract!Next]_Contract!vars
<1> SUFFICES ASSUME TypeOK, CacheSafe, AttachInv, AttachInv', TrigsFit, [Next]_vars
             PROVE  Contract!Next \/ UNCHANGED <<trig, PhMap, AsMap, ToMap>>
  <2>1. UNCHANGED <<trig, PhMap, AsMap, ToMap>> => UNCHANGED Contract!vars
    BY DEF Contract!vars, PhMap, AsMap, ToMap, Ph, As, To
  <2> QED
    BY <2>1
<1>1. ASSUME NEW t \in Waiters, CallStep(t) \/ WaitStep(t)
      PROVE  Contract!Next \/ UNCHANGED <<trig, PhMap, AsMap, ToMap>>
  <2>1. \A u \in Waiters \ {t} : Ph(u)' = Ph(u) /\ As(u)' = As(u) /\ To(u)' = To(u)
    BY <1>1, OtherSteps, SeenKept
  <2>2. CASE \E w \in WS, a \in Calls : Claim(t, w, a)
    BY <2>1, <2>2, ClaimAsks DEF Contract!Next
  <2>3. CASE \E w \in WS, a \in Calls : Reject(t, w, a)
    <3>1. UNCHANGED vars
      BY <2>3 DEF Reject
    <3>2. Ph(t)' = Ph(t) /\ As(t)' = As(t) /\ To(t)' = To(t) /\ trig' = trig
      BY <3>1, SeenKept DEF vars, wvars
    <3> QED
      BY <2>1, <3>2, OneMoves
  <2>4. CASE Wake(t) \/ TimeOut(t)
    BY <2>1, <2>4, WakeTells DEF Contract!Next
  <2>5. CASE Report(t)
    BY <2>1, <2>5, ReportLeaves DEF Contract!Next
  <2>6. CASE CacheHit(t) \/ Detach(t) \/ Attach(t) \/ GatherFails(t) \/ Release(t) \/ Return(t)
    BY <2>1, <2>6, OtherwiseHidden DEF Contract!Next
  <2> QED
    BY <1>1, <2>2, <2>3, <2>4, <2>5, <2>6 DEF CallStep, WaitStep
<1>2. CASE \A t \in Waiters : ~(CallStep(t) \/ WaitStep(t))
  <2>1. \A t \in Waiters : Ph(t)' = Ph(t) /\ As(t)' = As(t) /\ To(t)' = To(t)
    BY <1>2, OthersStay, SeenKept
  <2>2. trig' \in SUBSET Handles
    BY DEF AttachInv, HandlesOnce
  <2>3. UNCHANGED <<PhMap, AsMap, ToMap>>
    BY <2>1 DEF PhMap, AsMap, ToMap
  <2> QED
    BY <2>2, <2>3, ContractSees DEF Contract!Next
<1> QED
  BY <1>1, <1>2

\* rmw_wait tells exactly what was triggered at one instant of the call, of the
\* arguments it was given and not of what an earlier call left in the cache, and
\* resets no guard condition it does not tell of: the safety part of the
\* refinement, for any number of waitsets, threads and entities
THEOREM KeepsContract == ASSUME ~Overlap PROVE Spec => Contract!Spec
<1>1. Init => Contract!Init
  BY ContractSees DEF Init, PhMap, AsMap, ToMap, Ph, As, To
<1>2. TypeOK /\ CacheSafe /\ AttachInv /\ AttachInv' /\ TrigsFit /\ [Next]_vars
        => [Contract!Next]_Contract!vars
  BY ContractStep
<1> QED
  BY <1>1, <1>2, FitAlways, AttachAlways, TypeCorrect, CacheSafeAlways, PTL DEF Spec, Contract!Spec
-----------------------------------------------------------------------------
(***************************************************************************)
(* Two promises about single steps.                                        *)
(***************************************************************************)
\* as long as there is a waitset there is the guard condition for empty ones,
\* and every waitset in use has it attached
DummyInv ==
  /\ waitsets # {} => gc_for_empty_waitset \in Handles
  /\ \A w \in waitsets \ closing : attDummy[w] \in Handles

\* the guard condition is created with the first waitset and deleted with the last
LEMMA DummyStep == TypeOK /\ DummyInv /\ [Next]_vars => DummyInv'
<1> SUFFICES ASSUME TypeOK, DummyInv, [Next]_vars PROVE DummyInv'
  OBVIOUS
<1>1. waitsets \subseteq WS /\ live \subseteq Handles
  BY DEF TypeOK
<1>2. CASE UNCHANGED <<waitsets, gc_for_empty_waitset, closing, attDummy>>
  BY <1>2 DEF DummyInv
<1>3. LazyDummy => gc_for_empty_waitset' \in Handles \/ (waitsets # {} /\ UNCHANGED gc_for_empty_waitset)
  BY DEF LazyDummy, FreshHandles
<1>4. ASSUME NEW w \in WS, CreateWaitSet(w) PROVE DummyInv'
  <2>1. /\ LazyDummy /\ waitsets' = waitsets \cup {w} /\ closing' = closing
        /\ attDummy'[w] = gc_for_empty_waitset'
        /\ \A v \in WS \ {w} : attDummy'[v] = attDummy[v]
    BY <1>4 DEF CreateWaitSet, TypeOK
  <2>2. gc_for_empty_waitset' \in Handles
    BY <1>3, <2>1 DEF DummyInv
  <2> QED
    BY <1>1, <2>1, <2>2 DEF DummyInv
<1>5. CASE CreateWaitSetFails
  <2>1. LazyDummy /\ UNCHANGED <<waitsets, closing, attDummy>>
    BY <1>5 DEF CreateWaitSetFails, att
  <2>2. waitsets # {} => gc_for_empty_waitset' \in Handles
    BY <1>3, <2>1 DEF DummyInv
  <2> QED
    BY <2>1, <2>2 DEF DummyInv
<1>6. ASSUME NEW w \in WS, DestroyWaitSet(w) PROVE DummyInv'
  <2>1. /\ UNCHANGED <<waitsets, gc_for_empty_waitset>> /\ closing' = closing \cup {w}
        /\ \A v \in WS \ {w} : attDummy'[v] = attDummy[v]
    BY <1>6 DEF DestroyWaitSet, TypeOK
  <2> QED
    BY <1>1, <2>1 DEF DummyInv
<1>7. ASSUME NEW w \in WS, EraseWaitSet(w) PROVE DummyInv'
  <2>1. /\ w \in closing /\ closing' = closing \ {w} /\ waitsets' = waitsets \ {w} /\ waitsets # {}
        /\ waitsets' # {} => UNCHANGED <<attDummy, gc_for_empty_waitset>>
    BY <1>7 DEF EraseWaitSet, DropDummy, TypeOK
  <2> QED
    BY <2>1 DEF DummyInv
<1>8. CASE EntityStep
  BY <1>2, <1>8 DEF EntityStep, CreateEntity, TriggerGuardCondition, DataArrives, TakeData,
                    StatusChanges, TakeEvent, cdds, att
<1>9. ASSUME NEW t \in Waiters, CallStep(t) \/ WaitStep(t) PROVE DummyInv'
  <2>1. CASE Report(t)
    BY <1>2, <2>1 DEF Report, cdds, att
  <2>2. CASE ~Report(t)
    BY <1>2, <1>9, <2>2 DEF CallStep, Claim, Reject, WaitStep, CacheHit, Detach, Attach, GatherFails,
                            Wake, TimeOut, Release, Return, vars, cdds, att
  <2> QED
    BY <2>1, <2>2
<1>10. ASSUME NEW d \in Destroyers, (\E x \in Addr : StartDestroy(d, x)) \/ DestroyStep(d)
       PROVE  DummyInv'
  BY <1>2, <1>10 DEF StartDestroy, DestroyStep, BeginClean, EndClean, CleanOne, DeleteEntity,
                     FreeObject, cdds, att
<1>11. CASE UNCHANGED vars
  BY <1>2, <1>11 DEF vars, cdds, att
<1> QED
  BY <1>4, <1>5, <1>6, <1>7, <1>8, <1>9, <1>10, <1>11 DEF Next, WaitSetStep

\* an rmw_wait without timeout comes back only with something triggered, also
\* when it was given nothing to wait for
THEOREM WaitsForSomething == Spec => NeverReturnsEarly
<1>1. Init => DummyInv
  BY DEF Init, DummyInv
<1>2. TypeOK /\ DummyInv /\ [Next]_vars => DummyInv'
  BY DummyStep
<1>3. TypeOK /\ CacheSafe /\ DummyInv /\ [Next]_vars =>
        [\A t \in Waiters : pc[t] = "blocked" /\ pc'[t] = "woken" =>
           trigs'[cw[t]] # NoTrigs \/ args[t].finite]_vars
  <2> SUFFICES ASSUME TypeOK, CacheSafe, DummyInv, [Next]_vars, NEW t \in Waiters,
                      pc[t] = "blocked", pc'[t] = "woken"
               PROVE  trigs'[cw[t]] # NoTrigs \/ args[t].finite
    OBVIOUS
  <2>1. cw[t] \in waitsets \ closing
    BY DEF CacheSafe, ArgsHeld, InCall
  <2>2. attDummy[cw[t]] # NoHandle
    BY <2>1, HandleAssumption DEF DummyInv
  <2>3. CallStep(t) \/ WaitStep(t)
    BY OthersStay
  <2>4. Wake(t) \/ TimeOut(t)
    BY <2>3, WaitMoves DEF vars, wvars, Report, Release, Goto, TypeOK
  <2> QED
    BY <2>2, <2>4 DEF Wake, TimeOut, TypeOK
<1> QED
  BY <1>1, <1>2, <1>3, TypeCorrect, CacheSafeAlways, PTL DEF Spec, NeverReturnsEarly

\* the trigger of a guard condition is lost neither to data taken from another
\* entity nor to another's destruction nor to a report that leaves it out
THEOREM TriggersAreReported == ASSUME ~Overlap PROVE Spec => GuardTriggerKept
<1>1. TypeOK /\ CacheSafe /\ AttachInv /\ TrigsFit /\ [Next]_vars =>
        [\A a \in Addr : obj[a].kind = "gc" /\ obj[a].h \in trig \ trig' =>
           \/ a \in Dying
           \/ \E t \in Waiters : \E i \in rep'[t].ents :
                pc'[t] = "reported" /\ args[t].ents[i].addr = a]_vars
  <2> SUFFICES ASSUME TypeOK, CacheSafe, AttachInv, TrigsFit, [Next]_vars, NEW a \in Addr,
                      obj[a].kind = "gc", obj[a].h \in trig, obj[a].h \notin trig', a \notin Dying
               PROVE  \E t \in Waiters : \E i \in rep'[t].ents :
                        pc'[t] = "reported" /\ args[t].ents[i].addr = a
    OBVIOUS
  <2>1. Real(a)
    BY DEF Real, Dying, Free
  <2>2. \A x \in Addr : Real(x) /\ obj[x].h = obj[a].h => x = a
    BY <2>1 DEF AttachInv, HandlesOnce
  <2>3. ASSUME NEW x \in Addr, TakeData(x) PROVE FALSE
    <3>1. Real(x) /\ obj[x].kind # "gc" /\ trig' = trig \ {obj[x].h}
      BY <2>3 DEF TakeData, Usable, Real, Dying
    <3> QED
      BY <2>2, <3>1
  <2>4. ASSUME NEW d \in Destroyers, DeleteEntity(d) PROVE FALSE
    <3>1. /\ target[d] \in Addr /\ target[d] \in Dying /\ obj[target[d]] # Free /\ dpc[d] = "cleaned"
          /\ trig' = trig \ {obj[target[d]].h}
      BY <2>4 DEF DeleteEntity, Dying, AttachInv, HandlesOnce, TypeOK
    <3>2. Real(target[d])
      BY <3>1 DEF AttachInv, HandlesOnce, Real
    <3> QED
      BY <2>2, <3>1, <3>2
  <2>5. ASSUME NEW t \in Waiters, Report(t)
        PROVE  \E i \in rep'[t].ents : pc'[t] = "reported" /\ args[t].ents[i].addr = a
    <3>1. PICK es, got : es = args[t].ents /\ got = Reported(cw[t], args[t].ents)
      OBVIOUS
    <3>2. /\ pc[t] = "woken" /\ pc'[t] = "reported" /\ trig' = trig \ TakenGuards(es, got)
          /\ rep'[t].ents = got
      BY <2>5, <3>1 DEF Report, Goto, TypeOK
    <3>3. got \subseteq DOMAIN es
      BY <3>1 DEF Reported
    <3>4. PICK i \in got : obj[a].h = CondAt(es[i])
      BY <3>2 DEF TakenGuards
    <3>5. es[i].addr \in AddrsOf(args[t]) /\ InCall(t)
      BY <3>1, <3>2, <3>3 DEF AddrsOf, InCall
    <3>6. es[i].addr \in Addr /\ Real(es[i].addr)
      BY <3>5, ArgsFirm
    <3>7. es[i].addr = a
      BY <2>2, <3>4, <3>6 DEF CondAt
    <3> QED
      BY <3>1, <3>2, <3>7
  <2>6. (\E t \in Waiters : Report(t)) \/ (\E x \in Addr : TakeData(x))
          \/ (\E d \in Destroyers : DeleteEntity(d))
    <3>1. CASE UNCHANGED vars \/ WaitSetStep
      BY <3>1 DEF vars, WaitSetStep, CreateWaitSet, DestroyWaitSet, EraseWaitSet, CreateWaitSetFails
    <3>2. CASE EntityStep
      BY <3>2 DEF EntityStep, CreateEntity, TriggerGuardCondition, DataArrives, StatusChanges, TakeEvent
    <3>3. ASSUME NEW t \in Waiters, CallStep(t) \/ WaitStep(t) PROVE Report(t)
      BY <3>3 DEF CallStep, Claim, Reject, WaitStep, CacheHit, Detach, Attach, GatherFails, Wake,
                  TimeOut, Release, Return, vars
    <3>4. ASSUME NEW d \in Destroyers, (\E x \in Addr : StartDestroy(d, x)) \/ DestroyStep(d)
          PROVE  DeleteEntity(d)
      BY <3>4 DEF StartDestroy, DestroyStep, BeginClean, EndClean, CleanOne, FreeObject
    <3> QED
      BY <3>1, <3>2, <3>3, <3>4 DEF Next
  <2> QED
    BY <2>3, <2>4, <2>5, <2>6
<1> QED
  BY <1>1, FitAlways, AttachAlways, TypeCorrect, CacheSafeAlways, PTL DEF Spec, GuardTriggerKept
=============================================================================
