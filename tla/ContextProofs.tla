--------------------------- MODULE ContextProofs ---------------------------
(***************************************************************************)
(* What is proved about Context for every set of contexts, threads,        *)
(* domains and options, and every set of calls that may fail.              *)
(***************************************************************************)
EXTENDS Context, FiniteSetTheorems, TLAPS

-----------------------------------------------------------------------------
(***************************************************************************)
(* The invariant.  Every context is in a phase: free, up, or at the place  *)
(* of the thread that holds its initialization_mutex.  The phase tells     *)
(* what the context has, and so what clean_up finds there.                 *)
(***************************************************************************)
Locked == InitPCs \cup CleanUpPCs
Phase(c) == IF mutex[c] # NoOne THEN pc[mutex[c]]
            ELSE IF node_count[c] = 0 THEN "free" ELSE "up"

Owners ==
  /\ \A c \in Contexts : mutex[c] # NoOne =>
       on[mutex[c]] = c /\ pc[mutex[c]] \in Locked /\ node_count[c] = 0
  /\ \A t \in Threads : pc[t] \in Locked => mutex[on[t]] = t

\* participant, endpoints, callback, thread_is_running, listener_gc and the
\* discovery thread of a context in phase s
All == {"pub", "sub", "gc"}
StageOK(s, p, m, cb, running, gc, th) ==
  /\ p \in {"none", "up"}
  /\ s \in {"free", "domain", "ppant", "release"} => p = "none"
  /\ s \in {"up", "pub", "sub", "gc", "start", "count", "trigger", "join"} => p = "up"
  /\ s \in {"free", "domain", "ppant", "pub", "delete", "release"} => m = {}
  /\ s = "sub" => m = {"pub"}
  /\ s = "gc" => m = {"pub", "sub"}
  /\ s \in {"up", "start", "count", "trigger", "join"} => m = All /\ cb
  /\ s = "unpub" => "gc" \notin m
  /\ s = "unsub" => m \subseteq {"sub"}
  /\ s \in {"free", "domain", "ppant", "pub", "sub", "gc", "unguard", "unpub", "unsub",
             "delete", "release"} => ~cb
  /\ cb => "gc" \in m
  /\ s \in {"up", "count"} => running
  /\ s \notin {"up", "count", "stop"} => ~running
  /\ running => p = "up" /\ m = All /\ cb /\ gc = "armed"
  /\ s = "trigger" => gc = "armed"
  /\ s = "join" => gc = "triggered"
  /\ ~running /\ s \notin {"trigger", "join"} => gc = "none"
  /\ th = "none" <=> gc = "none"
Stage(c) == StageOK(Phase(c), ppant[c], made[c], callback[c], thread_is_running[c],
                    listener_gc[c], thread[c])

\* node_count counts the nodes, and the calls that make or destroy one
Named(c) == {t \in Threads : on[t] = c /\ pc[t] \in {"named", "fini"}}
Counted == \A c \in Contexts : node_count[c] = nodes[c] + Cardinality(Named(c))

\* a context that is not set up is not in use; one in use has a domain
InUseOpen ==
  /\ \A c \in Contexts \ open : nodes[c] = 0
  /\ \A t \in Threads : pc[t] # "idle" => on[t] \in open
Placed == \A c \in Contexts : Phase(c) # "free" => domain_id[c] \in Domains

\* a domain has at least the references of the contexts in it, all with its
\* options
Covered ==
  \A d \in Domains :
    /\ refcount[d] >= Cardinality(Holders(d))
    /\ \A c \in Holders(d) : discovery_options[d] = options[c]
CtxInv ==
  /\ TypeOK /\ Owners /\ Counted /\ InUseOpen /\ Placed /\ Covered /\ RefcountCovers
  /\ \A c \in Contexts : Stage(c)

-----------------------------------------------------------------------------
(***************************************************************************)
(* Lemmas about phases and about who is in a domain.                       *)
(***************************************************************************)
\* the thread at a place under the mutex holds it, and tells the phase
LEMMA Held ==
  ASSUME CtxInv, NEW t \in Threads, pc[t] \in Locked
  PROVE  /\ mutex[on[t]] = t /\ Phase(on[t]) = pc[t] /\ node_count[on[t]] = 0
         /\ on[t] \in Contexts /\ on[t] \in open /\ domain_id[on[t]] \in Domains
<1>1. mutex[on[t]] = t /\ t # NoOne /\ on[t] \in Contexts
  BY MutexAssumption DEF CtxInv, Owners, TypeOK
<1>2. Phase(on[t]) = pc[t] /\ pc[t] \notin {"free", "idle"}
  BY <1>1 DEF Phase, Locked, InitPCs, CleanUpPCs
<1> QED
  BY <1>1, <1>2 DEF CtxInv, Owners, Placed, InUseOpen

\* a context whose mutex is free is free or up
LEMMA Unheld ==
  ASSUME CtxInv, NEW c \in Contexts, mutex[c] = NoOne
  PROVE  /\ node_count[c] = 0 => Phase(c) = "free"
         /\ node_count[c] # 0 => Phase(c) = "up"
         /\ \A t \in Threads : pc[t] \in Locked => on[t] # c
  BY MutexAssumption DEF CtxInv, Owners, Phase

\* those in a domain, by their phase
InDomain == {"up"} \cup Holding
HoldersByPhase ==
  \A d \in Domains : Holders(d) = {c \in Contexts : domain_id[c] = d /\ Phase(c) \in InDomain}
\* a context is counted in its domain exactly while its phase is one in a domain
LEMMA PhaseOfHolders == TypeOK /\ Owners => HoldersByPhase
<1> SUFFICES ASSUME TypeOK, Owners, NEW d \in Domains, NEW c \in Contexts, domain_id[c] = d
             PROVE  (node_count[c] > 0 \/ \E t \in Threads : on[t] = c /\ pc[t] \in Holding)
                      <=> Phase(c) \in InDomain
  BY DEF HoldersByPhase, Holders, Holds
<1>1. Holding \subseteq Locked /\ "up" \notin Locked /\ "free" \notin InDomain
  BY DEF Holding, Locked, InitPCs, CleanUpPCs, InDomain
<1>2. CASE mutex[c] = NoOne
  <2>1. \A t \in Threads : on[t] = c => pc[t] \notin Holding
    BY <1>1, <1>2, MutexAssumption DEF Owners
  <2> QED
    BY <1>1, <1>2, <2>1 DEF Phase, InDomain, TypeOK
<1>3. CASE mutex[c] # NoOne
  <2>1. /\ mutex[c] \in Threads /\ on[mutex[c]] = c /\ node_count[c] = 0 /\ Phase(c) = pc[mutex[c]]
        /\ pc[mutex[c]] \in Locked
    BY <1>3 DEF TypeOK, Owners, Phase
  <2>2. \A t \in Threads : on[t] = c /\ pc[t] \in Holding => t = mutex[c]
    BY <1>1 DEF Owners
  <2> QED
    BY <1>1, <2>1, <2>2 DEF InDomain
<1> QED
  BY <1>2, <1>3

\* (the same after a step)
LEMMA PhaseOfHoldersAfter == TypeOK' /\ Owners' => HoldersByPhase'
  BY PhaseOfHolders, PTL

\* the sets that are counted
LEMMA Countable ==
  /\ \A c \in Contexts : IsFiniteSet(Named(c)) /\ Cardinality(Named(c)) \in Nat
  /\ \A d \in Domains : IsFiniteSet(Holders(d)) /\ Cardinality(Holders(d)) \in Nat
<1>1. /\ \A c \in Contexts : Named(c) \subseteq Threads
      /\ \A d \in Domains : Holders(d) \subseteq Contexts
  BY DEF Named, Holders
<1> QED
  BY <1>1, FiniteAssumption, FS_Subset, FS_CardinalityType

-----------------------------------------------------------------------------
(***************************************************************************)
(* The steps of a thread t, on a context c.                                *)
(***************************************************************************)
OnlyThread(t) == \A u \in Threads \ {t} : pc'[u] = pc[u] /\ on'[u] = on[u]
OnlyContext(c) ==
  \A x \in Contexts \ {c} :
    /\ mutex'[x] = mutex[x] /\ node_count'[x] = node_count[x] /\ nodes'[x] = nodes[x]
    /\ domain_id'[x] = domain_id[x] /\ options'[x] = options[x]
    /\ ppant'[x] = ppant[x] /\ made'[x] = made[x] /\ callback'[x] = callback[x]
    /\ thread_is_running'[x] = thread_is_running[x] /\ listener_gc'[x] = listener_gc[x]
    /\ thread'[x] = thread[x]

\* t holds, takes, releases or has nothing to do with the mutex
LEMMA OwnersStep ==
  ASSUME CtxInv, TypeOK', NEW t \in Threads, NEW c \in Contexts, OnlyThread(t), OnlyContext(c),
         pc[t] \in Locked => on[t] = c,
         \/ /\ mutex[c] \in {t, NoOne} /\ mutex'[c] = t
            /\ pc'[t] \in Locked /\ on'[t] = c /\ node_count'[c] = 0
         \/ mutex[c] \in {t, NoOne} /\ mutex'[c] = NoOne /\ pc'[t] \notin Locked
         \/ /\ mutex'[c] = mutex[c] /\ pc[t] \notin Locked /\ pc'[t] \notin Locked
            /\ node_count'[c] = node_count[c]
  PROVE  Owners' /\ \A x \in Contexts \ {c} : Phase(x)' = Phase(x)
<1> USE MutexAssumption
<1>1. ASSUME NEW x \in Contexts \ {c} PROVE mutex[x] # t
  BY DEF CtxInv, Owners
<1>2. \A x \in Contexts : mutex[x] \in Threads \cup {NoOne}
  BY DEF CtxInv, TypeOK
<1>3. \A x \in Contexts \ {c} : Phase(x)' = Phase(x)
  BY <1>1, <1>2 DEF OnlyThread, OnlyContext, Phase
<1>4. ASSUME NEW x \in Contexts, mutex'[x] # NoOne
      PROVE  on'[mutex'[x]] = x /\ pc'[mutex'[x]] \in Locked /\ node_count'[x] = 0
  <2>1. CASE x = c
    <3>1. CASE mutex'[c] = t /\ pc'[t] \in Locked /\ on'[t] = c /\ node_count'[c] = 0
      BY <2>1, <3>1
    <3>2. CASE /\ mutex'[c] = mutex[c] /\ pc[t] \notin Locked
               /\ node_count'[c] = node_count[c]
      BY <1>2, <1>4, <2>1, <3>2 DEF CtxInv, Owners, OnlyThread
    <3> QED
      BY <1>4, <2>1, <3>1, <3>2
  <2>2. CASE x # c
    BY <1>1, <1>2, <1>4, <2>2 DEF CtxInv, Owners, OnlyThread, OnlyContext
  <2> QED
    BY <2>1, <2>2
<1>5. ASSUME NEW u \in Threads, pc'[u] \in Locked
      PROVE  mutex'[on'[u]] = u
  <2>1. CASE u = t
    BY <1>5, <2>1
  <2>2. CASE u # t
    <3>1. pc[u] \in Locked /\ on'[u] = on[u] /\ mutex[on[u]] = u /\ on[u] \in Contexts
      BY <1>5, <2>2 DEF OnlyThread, CtxInv, Owners, TypeOK
    <3>2. mutex[c] \in {t, NoOne} => on[u] # c
      BY <2>2, <3>1
    <3> QED
      BY <3>1, <3>2 DEF OnlyContext
  <2> QED
    BY <2>1, <2>2
<1> QED
  BY <1>3, <1>4, <1>5 DEF Owners

\* node_count goes with the nodes and calls it counts
LEMMA CountedStep ==
  ASSUME CtxInv, TypeOK', NEW t \in Threads, NEW c \in Contexts, OnlyThread(t), OnlyContext(c),
         pc[t] \in {"named", "fini"} => on[t] = c,
         pc'[t] \in {"named", "fini"} => on'[t] = c,
         \/ /\ pc[t] \notin {"named", "fini"} /\ pc'[t] \in {"named", "fini"}
            /\ node_count'[c] - nodes'[c] = node_count[c] - nodes[c] + 1
         \/ /\ pc[t] \in {"named", "fini"} /\ pc'[t] \notin {"named", "fini"}
            /\ node_count'[c] - nodes'[c] = node_count[c] - nodes[c] - 1
         \/ /\ pc[t] \in {"named", "fini"} <=> pc'[t] \in {"named", "fini"}
            /\ node_count'[c] - nodes'[c] = node_count[c] - nodes[c]
  PROVE  Counted'
<1>1. ASSUME NEW x \in Contexts \ {c} PROVE Named(x)' = Named(x)
  BY DEF Named, OnlyThread
<1>2. \A x \in Contexts : /\ node_count[x] \in Nat /\ nodes[x] \in Nat
                          /\ node_count'[x] \in Nat /\ nodes'[x] \in Nat
                          /\ Cardinality(Named(x)) \in Nat /\ IsFiniteSet(Named(x))
  BY Countable DEF CtxInv, TypeOK
<1>3. node_count[c] = nodes[c] + Cardinality(Named(c))
  BY DEF CtxInv, Counted
<1>4. node_count'[c] = nodes'[c] + Cardinality(Named(c)')
  <2>1. CASE /\ pc[t] \notin {"named", "fini"} /\ pc'[t] \in {"named", "fini"}
             /\ node_count'[c] - nodes'[c] = node_count[c] - nodes[c] + 1
    <3>1. Named(c)' = Named(c) \cup {t} /\ t \notin Named(c)
      BY <2>1 DEF Named, OnlyThread
    <3>2. Cardinality(Named(c)') = Cardinality(Named(c)) + 1
      BY <1>2, <3>1, FS_AddElement
    <3> QED
      BY <1>2, <1>3, <2>1, <3>2
  <2>2. CASE /\ pc[t] \in {"named", "fini"} /\ pc'[t] \notin {"named", "fini"}
             /\ node_count'[c] - nodes'[c] = node_count[c] - nodes[c] - 1
    <3>1. Named(c)' = Named(c) \ {t} /\ t \in Named(c)
      BY <2>2 DEF Named, OnlyThread
    <3>2. Cardinality(Named(c)') = Cardinality(Named(c)) - 1
      BY <1>2, <3>1, FS_RemoveElement
    <3> QED
      BY <1>2, <1>3, <2>2, <3>2
  <2>3. CASE /\ pc[t] \in {"named", "fini"} <=> pc'[t] \in {"named", "fini"}
             /\ node_count'[c] - nodes'[c] = node_count[c] - nodes[c]
    <3>1. Named(c)' = Named(c)
      BY <2>3 DEF Named, OnlyThread
    <3> QED
      BY <1>2, <1>3, <2>3, <3>1
  <2> QED
    BY <2>1, <2>2, <2>3
<1> QED
  BY <1>1, <1>4 DEF CtxInv, Counted, OnlyContext

\* who is in a domain after the step
LEMMA HoldersStep ==
  ASSUME CtxInv, TypeOK', Owners', NEW c \in Contexts, OnlyContext(c),
         \A x \in Contexts \ {c} : Phase(x)' = Phase(x)
  PROVE  /\ \/ Phase(c) \in InDomain /\ Phase(c)' \in InDomain /\ domain_id'[c] = domain_id[c]
            \/ Phase(c) \notin InDomain /\ Phase(c)' \notin InDomain
            => \A d \in Domains : Holders(d)' = Holders(d)
         /\ Phase(c) \notin InDomain /\ Phase(c)' \in InDomain
            => \A d \in Domains :
                 IF d = domain_id'[c] THEN Holders(d)' = Holders(d) \cup {c} /\ c \notin Holders(d)
                                      ELSE Holders(d)' = Holders(d)
         /\ Phase(c) \in InDomain /\ Phase(c)' \notin InDomain
            => \A d \in Domains :
                 IF d = domain_id[c] THEN Holders(d)' = Holders(d) \ {c} /\ c \in Holders(d)
                                     ELSE Holders(d)' = Holders(d)
<1>1. HoldersByPhase /\ HoldersByPhase'
  BY PhaseOfHolders, PhaseOfHoldersAfter DEF CtxInv
<1>2. ASSUME NEW d \in Domains
      PROVE  /\ Holders(d) = {x \in Contexts : domain_id[x] = d /\ Phase(x) \in InDomain}
             /\ Holders(d)' = {x \in Contexts : domain_id'[x] = d /\ Phase(x)' \in InDomain}
  BY <1>1 DEF HoldersByPhase
<1>3. \A x \in Contexts \ {c} : domain_id'[x] = domain_id[x]
  BY DEF OnlyContext
<1>4. ASSUME NEW d \in Domains, NEW x \in Contexts \ {c}
      PROVE  x \in Holders(d)' <=> x \in Holders(d)
  BY <1>2, <1>3
<1>5. ASSUME NEW d \in Domains
      PROVE  /\ c \in Holders(d) <=> domain_id[c] = d /\ Phase(c) \in InDomain
             /\ c \in Holders(d)' <=> domain_id'[c] = d /\ Phase(c)' \in InDomain
             /\ Holders(d) \subseteq Contexts /\ Holders(d)' \subseteq Contexts
  BY <1>2
<1>6. ASSUME NEW d \in Domains
      PROVE  /\ (c \in Holders(d)' <=> c \in Holders(d)) => Holders(d)' = Holders(d)
             /\ c \in Holders(d)' /\ c \notin Holders(d) => Holders(d)' = Holders(d) \cup {c}
             /\ c \notin Holders(d)' /\ c \in Holders(d) => Holders(d)' = Holders(d) \ {c}
  BY <1>4, <1>5
<1>7. CASE Phase(c) \in InDomain /\ Phase(c)' \in InDomain /\ domain_id'[c] = domain_id[c]
  BY <1>5, <1>6, <1>7
<1>8. CASE Phase(c) \notin InDomain /\ Phase(c)' \notin InDomain
  BY <1>5, <1>6, <1>8
<1>9. CASE Phase(c) \notin InDomain /\ Phase(c)' \in InDomain
  BY <1>5, <1>6, <1>9
<1>10. CASE Phase(c) \in InDomain /\ Phase(c)' \notin InDomain
  BY <1>5, <1>6, <1>10
<1> QED
  BY <1>7, <1>8, <1>9, <1>10

\* books: what gcdds().domains has is unchanged, and so is who is in a domain
LEMMA BooksKept ==
  ASSUME CtxInv, TypeOK', \A d \in Domains : Holders(d)' = Holders(d),
         \A d \in Domains : \A c \in Holders(d) : options'[c] = options[c],
         UNCHANGED doms
  PROVE  Covered' /\ RefcountCovers'
BY DEF CtxInv, Covered, RefcountCovers, Unreturned, Stranded, doms

\* a context comes into a domain
LEMMA BooksEnter ==
  ASSUME CtxInv, TypeOK', NEW c \in Contexts, NEW d \in Domains, c \notin Holders(d),
         Holders(d)' = Holders(d) \cup {c},
         \A e \in Domains \ {d} : Holders(e)' = Holders(e),
         options' = options, refcount' = [refcount EXCEPT ![d] = refcount[d] + 1],
         \/ /\ refcount[d] # 0 /\ discovery_options[d] = options[c]
            /\ UNCHANGED <<entry, discovery_options, domain_handle>>
         \/ /\ refcount[d] = 0 /\ entry' = entry \cup {d}
            /\ discovery_options' = [discovery_options EXCEPT ![d] = options[c]]
            /\ domain_handle' = [domain_handle EXCEPT ![d] = TRUE]
  PROVE  Covered' /\ RefcountCovers'
<1>1. Cardinality(Holders(d)') = Cardinality(Holders(d)) + 1
  BY Countable, FS_AddElement
<1>2. /\ \A e \in Domains : refcount[e] \in Nat /\ Cardinality(Holders(e)) \in Nat
      /\ \A e \in Domains : refcount[e] >= Cardinality(Holders(e)) /\ IsFiniteSet(Holders(e))
      /\ refcount'[d] = refcount[d] + 1
      /\ \A e \in Domains \ {d} : refcount'[e] = refcount[e]
  BY Countable DEF CtxInv, TypeOK, Covered
<1>3. refcount[d] = 0 => Holders(d) = {}
  <2> SUFFICES ASSUME refcount[d] = 0 PROVE Holders(d) = {}
    OBVIOUS
  <2>1. Cardinality(Holders(d)) = 0
    BY <1>2
  <2> QED
    BY <1>2, <2>1, FS_EmptySet
<1>4. discovery_options \in [Domains -> Options] /\ domain_handle \in [Domains -> BOOLEAN]
  BY DEF CtxInv, TypeOK
<1>5. Covered'
  <2> SUFFICES ASSUME NEW e \in Domains
               PROVE  /\ refcount'[e] >= Cardinality(Holders(e)')
                      /\ \A x \in Holders(e)' : discovery_options'[e] = options[x]
    BY DEF Covered
  <2>1. CASE e = d
    <3>1. refcount'[d] >= Cardinality(Holders(d)')
      BY <1>1, <1>2
    <3>2. \A x \in Holders(d)' : discovery_options'[d] = options[x]
      BY <1>3, <1>4 DEF CtxInv, Covered
    <3> QED
      BY <2>1, <3>1, <3>2
  <2>2. CASE e # d
    BY <1>2, <1>4, <2>2 DEF CtxInv, Covered
  <2> QED
    BY <2>1, <2>2
<1>6. RefcountCovers'
  <2> SUFFICES ASSUME NEW e \in Domains
               PROVE  /\ refcount'[e] = Cardinality(Holders(e)') + Unreturned(e)'
                      /\ e \in entry' <=> refcount'[e] # 0
                      /\ domain_handle'[e] => e \in entry'
                      /\ Stranded(e)' => discovery_options'[e] = NotSet
    BY DEF RefcountCovers
  <2>1. /\ refcount[e] = Cardinality(Holders(e)) + Unreturned(e)
        /\ e \in entry <=> refcount[e] # 0
        /\ domain_handle[e] => e \in entry
        /\ Stranded(e) => discovery_options[e] = NotSet
    BY DEF CtxInv, RefcountCovers
  <2>2. Unreturned(e) \in Nat /\ (~Stranded(e) => Unreturned(e) = 0)
    BY DEF Unreturned
  <2>3. CASE e = d /\ refcount[d] # 0
    <3>1. Stranded(e)' = Stranded(e) /\ discovery_options'[e] = discovery_options[e]
      BY <2>3 DEF Stranded
    <3>2. Unreturned(e)' = Unreturned(e)
      BY <3>1 DEF Unreturned
    <3>3. refcount'[e] = Cardinality(Holders(e)') + Unreturned(e)'
      <4>1. /\ refcount[e] \in Nat /\ Cardinality(Holders(e)) \in Nat
            /\ refcount'[e] = refcount[e] + 1
            /\ Cardinality(Holders(e)') = Cardinality(Holders(e)) + 1
        BY <1>1, <1>2, <2>3
      <4> QED
        BY <2>1, <2>2, <3>2, <4>1
    <3> QED
      BY <1>2, <2>1, <2>3, <3>1, <3>3
  <2>4. CASE e = d /\ refcount[d] = 0
    <3>1. ~Stranded(e) /\ ~Stranded(e)'
      BY <1>4, <2>1, <2>4 DEF Stranded
    <3>2. Unreturned(e)' = 0
      BY <3>1 DEF Unreturned
    <3>3. refcount'[e] = Cardinality(Holders(e)') + Unreturned(e)'
      <4>1. /\ refcount[e] \in Nat /\ Cardinality(Holders(e)) \in Nat
            /\ refcount'[e] = refcount[e] + 1
            /\ Cardinality(Holders(e)') = Cardinality(Holders(e)) + 1
        BY <1>1, <1>2, <2>4
      <4> QED
        BY <2>1, <2>2, <3>1, <3>2, <4>1
    <3> QED
      BY <1>2, <1>4, <2>4, <3>1, <3>3
  <2>5. CASE e # d
    <3>1. /\ refcount'[e] = refcount[e] /\ (e \in entry' <=> e \in entry)
          /\ domain_handle'[e] = domain_handle[e] /\ Holders(e)' = Holders(e)
          /\ discovery_options'[e] = discovery_options[e]
      BY <1>2, <1>4, <2>5
    <3>2. (Stranded(e)' <=> Stranded(e)) /\ Unreturned(e)' = Unreturned(e)
      BY <3>1 DEF Stranded, Unreturned
    <3> QED
      BY <2>1, <3>1, <3>2
  <2> QED
    BY <2>3, <2>4, <2>5
<1> QED
  BY <1>5, <1>6

\* a context leaves its domain, which ends with the last reference
LEMMA BooksLeave ==
  ASSUME CtxInv, TypeOK', NEW c \in Contexts, NEW d \in Domains, c \in Holders(d),
         Holders(d)' = Holders(d) \ {c},
         \A e \in Domains \ {d} : Holders(e)' = Holders(e),
         options' = options, discovery_options' = discovery_options,
         refcount' = [refcount EXCEPT ![d] = refcount[d] - 1],
         \/ refcount[d] # 1 /\ UNCHANGED <<entry, domain_handle>>
         \/ /\ refcount[d] = 1 /\ entry' = entry \ {d}
            /\ domain_handle' = [domain_handle EXCEPT ![d] = FALSE]
  PROVE  Covered' /\ RefcountCovers'
<1>1. Cardinality(Holders(d)') = Cardinality(Holders(d)) - 1
  BY Countable, FS_RemoveElement
<1>2. /\ \A e \in Domains : refcount[e] \in Nat /\ Cardinality(Holders(e)) \in Nat
      /\ \A e \in Domains : refcount[e] >= Cardinality(Holders(e))
      /\ refcount'[d] = refcount[d] - 1
      /\ \A e \in Domains \ {d} : refcount'[e] = refcount[e]
  BY Countable DEF CtxInv, TypeOK, Covered
<1>3. IsFiniteSet(Holders(d)') /\ domain_handle \in [Domains -> BOOLEAN]
  BY Countable, FS_Subset DEF CtxInv, TypeOK
<1>4. Covered'
  <2>1. \A e \in Domains : refcount'[e] >= Cardinality(Holders(e)')
    BY <1>1, <1>2
  <2> QED
    BY <2>1 DEF CtxInv, Covered
<1>5. RefcountCovers'
  <2> SUFFICES ASSUME NEW e \in Domains
               PROVE  /\ refcount'[e] = Cardinality(Holders(e)') + Unreturned(e)'
                      /\ e \in entry' <=> refcount'[e] # 0
                      /\ domain_handle'[e] => e \in entry'
                      /\ Stranded(e)' => discovery_options'[e] = NotSet
    BY DEF RefcountCovers
  <2>1. /\ refcount[e] = Cardinality(Holders(e)) + Unreturned(e)
        /\ e \in entry <=> refcount[e] # 0
        /\ domain_handle[e] => e \in entry
        /\ Stranded(e) => discovery_options[e] = NotSet
    BY DEF CtxInv, RefcountCovers
  <2>2. Unreturned(e) \in Nat
    BY DEF Unreturned
  <2>3. CASE e = d /\ refcount[d] # 1
    <3>1. (Stranded(e)' <=> Stranded(e)) /\ Unreturned(e)' = Unreturned(e)
      BY <2>3 DEF Stranded, Unreturned
    <3>2. refcount'[e] = Cardinality(Holders(e)') + Unreturned(e)'
      <4>1. /\ refcount[e] \in Nat /\ Cardinality(Holders(e)) \in Nat
            /\ refcount'[e] = refcount[e] - 1
            /\ Cardinality(Holders(e)') = Cardinality(Holders(e)) - 1
        BY <1>1, <1>2, <2>3
      <4> QED
        BY <2>1, <2>2, <3>1, <4>1
    <3>3. Cardinality(Holders(d)) # 0
      BY Countable, FS_EmptySet
    <3>4. refcount[d] # 0
      BY <1>2, <3>3
    <3> QED
      BY <1>2, <2>1, <2>3, <3>1, <3>2, <3>4
  <2>4. CASE e = d /\ refcount[d] = 1
    <3>1. ~Stranded(e)' /\ ~domain_handle'[e] /\ e \notin entry'
      BY <1>3, <2>4 DEF Stranded
    <3>2. Unreturned(e)' = 0
      BY <3>1 DEF Unreturned
    <3>3. Cardinality(Holders(d)) # 0
      BY Countable, FS_EmptySet
    <3>4. Cardinality(Holders(d)) = 1
      BY <1>2, <2>1, <2>2, <2>4, <3>3
    <3>5. refcount'[e] = 0 /\ Cardinality(Holders(e)') = 0
      <4>1. refcount'[d] = refcount[d] - 1
        BY <1>2
      <4>2. refcount'[d] = 0
        BY <2>4, <4>1
      <4>3. Cardinality(Holders(d)) = 1
        BY <2>4, <3>4
      <4>4. Cardinality(Holders(d)') = 0
        BY <1>1, <4>3
      <4> QED
        BY <2>4, <4>2, <4>4
    <3>6. refcount'[e] = Cardinality(Holders(e)') + Unreturned(e)'
      BY <3>2, <3>5
    <3> QED
      BY <3>1, <3>5, <3>6
  <2>5. CASE e # d
    <3>1. /\ refcount'[e] = refcount[e] /\ (e \in entry' <=> e \in entry)
          /\ domain_handle'[e] = domain_handle[e] /\ Holders(e)' = Holders(e)
          /\ discovery_options'[e] = discovery_options[e]
      BY <1>2, <1>3, <2>5
    <3>2. (Stranded(e)' <=> Stranded(e)) /\ Unreturned(e)' = Unreturned(e)
      BY <3>1 DEF Stranded, Unreturned
    <3> QED
      BY <2>1, <3>1, <3>2
  <2> QED
    BY <2>3, <2>4, <2>5
<1> QED
  BY <1>4, <1>5

\* what is left to show of a step of t on c
LEMMA StepInv ==
  ASSUME CtxInv, TypeOK', NEW t \in Threads, NEW c \in Contexts, OnlyThread(t), OnlyContext(c),
         Owners', \A x \in Contexts \ {c} : Phase(x)' = Phase(x),
         Counted', Covered', RefcountCovers', Stage(c)', Phase(c)' # "free" => domain_id'[c] \in Domains,
         open' = open, c \in open, pc'[t] # "idle" => on'[t] = c
  PROVE  CtxInv'
<1>1. \A x \in Contexts : Stage(x)'
  BY DEF CtxInv, Stage, OnlyContext
<1>2. Placed'
  BY DEF CtxInv, Placed, OnlyContext
<1>3. InUseOpen'
  BY DEF CtxInv, InUseOpen, OnlyContext, OnlyThread
<1> QED
  BY <1>1, <1>2, <1>3 DEF CtxInv

\* t goes on with the mutex; the context stays in its domain or out of it
LEMMA Advance ==
  ASSUME CtxInv, TypeOK', NEW t \in Threads, NEW c \in Contexts, on[t] = c, pc[t] \in Locked,
         NEW s \in Locked, pc' = [pc EXCEPT ![t] = s], OnlyContext(c),
         UNCHANGED <<ctx, domain_id, node_count, mutex, nodes, doms, on>>,
         pc[t] \in InDomain <=> s \in InDomain,
         StageOK(s, ppant'[c], made'[c], callback'[c], thread_is_running'[c],
                 listener_gc'[c], thread'[c])
  PROVE  CtxInv'
<1>1. /\ mutex[c] = t /\ Phase(c) = pc[t] /\ node_count[c] = 0
      /\ c \in open /\ domain_id[c] \in Domains
  BY Held
<1>2. pc'[t] = s /\ OnlyThread(t) /\ Phase(c)' = s /\ t # NoOne
  BY <1>1, MutexAssumption DEF CtxInv, TypeOK, OnlyThread, Phase
<1>3. Owners' /\ \A x \in Contexts \ {c} : Phase(x)' = Phase(x)
  BY <1>1, <1>2, OwnersStep
<1>4. Counted'
  <2>1. \A r \in Locked : r \notin {"named", "fini"}
    BY DEF Locked, InitPCs, CleanUpPCs
  <2> QED
    BY <1>2, <2>1, CountedStep
<1>5. \A d \in Domains : Holders(d)' = Holders(d)
  BY <1>1, <1>2, <1>3, HoldersStep
<1>6. Covered' /\ RefcountCovers'
  BY <1>5, BooksKept DEF ctx
<1>7. Stage(c)'
  BY <1>2 DEF Stage
<1> QED
  BY <1>1, <1>2, <1>3, <1>4, <1>6, <1>7, StepInv DEF ctx
-----------------------------------------------------------------------------
(***************************************************************************)
(* Building up and taking down, with the mutex held.                       *)
(***************************************************************************)
\* what is known at such a place
LEMMA AtPlace ==
  ASSUME CtxInv, NEW t \in Threads, NEW c \in Contexts, on[t] = c, NEW s \in Locked, pc[t] = s
  PROVE  StageOK(s, ppant[c], made[c], callback[c], thread_is_running[c], listener_gc[c], thread[c])
  BY Held DEF CtxInv, Stage

\* the places
LEMMA Places ==
  /\ \A s \in Locked : s \in PCs
  /\ "domain" \in Locked /\ "ppant" \in Locked /\ "pub" \in Locked /\ "sub" \in Locked /\ "gc" \in Locked
  /\ "start" \in Locked /\ "count" \in Locked /\ "stop" \in Locked /\ "trigger" \in Locked
  /\ "join" \in Locked /\ "clear" \in Locked /\ "unguard" \in Locked /\ "unpub" \in Locked
  /\ "unsub" \in Locked /\ "delete" \in Locked /\ "release" \in Locked
  /\ \A s \in Locked \ {"domain"} : s \in InDomain
  /\ "domain" \notin InDomain /\ "free" \notin InDomain /\ "up" \in InDomain
  /\ \A s \in {"idle", "init", "named", "fini"} : s \notin Locked /\ s \in PCs
  BY DEF Locked, PCs, InitPCs, CleanUpPCs, InDomain, Holding

\* a failure exit of init, with what has been made so far
LEMMA InitFailsStep ==
  ASSUME CtxInv, NEW t \in Threads, NEW at \in {"ppant", "pub", "sub", "gc", "start"}, InitFails(t, at)
  PROVE  CtxInv'
<1>1. PICK c \in Contexts : c = on[t]
  BY DEF CtxInv, TypeOK
<1>2. /\ pc[t] = at /\ pc' = [pc EXCEPT ![t] = "stop"] /\ on[t] = c
      /\ at \in Locked /\ "stop" \in Locked
  BY <1>1, Places DEF InitFails, Goto
<1>3. StageOK(at, ppant[c], made[c], callback[c], thread_is_running[c], listener_gc[c], thread[c])
  BY <1>2, AtPlace
<1>4. TypeOK' /\ OnlyContext(c)
  BY <1>1, <1>2, Places DEF InitFails, Goto, CtxInv, TypeOK, OnlyContext, ctx, ents, disc, doms
<1>5. StageOK("stop", ppant'[c], made'[c], callback'[c],
              thread_is_running'[c], listener_gc'[c], thread'[c])
  BY <1>1, <1>3 DEF InitFails, Goto, CtxInv, TypeOK, StageOK, All, ctx, ents, disc
<1>6. UNCHANGED <<ctx, domain_id, node_count, mutex, nodes, doms, on>>
  BY DEF InitFails, Goto
<1> QED
  BY <1>2, <1>4, <1>5, <1>6, Places, Advance

\* the participant
LEMMA CreateParticipantStep ==
  ASSUME CtxInv, NEW t \in Threads, CreateParticipant(t)
  PROVE  CtxInv'
<1>1. PICK c \in Contexts : c = on[t]
  BY DEF CtxInv, TypeOK
<1>2. /\ pc[t] = "ppant" /\ pc' = [pc EXCEPT ![t] = "pub"] /\ on[t] = c
      /\ "ppant" \in Locked /\ "pub" \in Locked
  BY <1>1, Places DEF CreateParticipant, Goto
<1>3. StageOK("ppant", ppant[c], made[c], callback[c],
              thread_is_running[c], listener_gc[c], thread[c])
  BY <1>2, AtPlace
<1>4. TypeOK' /\ OnlyContext(c)
  BY <1>1, <1>2, Places
     DEF CreateParticipant, Goto, CtxInv, TypeOK, OnlyContext, ctx, ents, disc, doms
<1>5. StageOK("pub", ppant'[c], made'[c], callback'[c],
              thread_is_running'[c], listener_gc'[c], thread'[c])
  BY <1>1, <1>3 DEF CreateParticipant, Goto, CtxInv, TypeOK, StageOK, All, ctx, ents, disc
<1>6. UNCHANGED <<ctx, domain_id, node_count, mutex, nodes, doms, on>>
  BY DEF CreateParticipant, Goto
<1> QED
  BY <1>2, <1>4, <1>5, <1>6, Places, Advance

\* the participant, and a failure after it
LEMMA CreateReadersFailStep ==
  ASSUME CtxInv, NEW t \in Threads, CreateReadersFail(t)
  PROVE  CtxInv'
<1>1. PICK c \in Contexts : c = on[t]
  BY DEF CtxInv, TypeOK
<1>2. /\ pc[t] = "ppant" /\ pc' = [pc EXCEPT ![t] = "stop"] /\ on[t] = c
      /\ "ppant" \in Locked /\ "stop" \in Locked
  BY <1>1, Places DEF CreateReadersFail, Goto
<1>3. StageOK("ppant", ppant[c], made[c], callback[c],
              thread_is_running[c], listener_gc[c], thread[c])
  BY <1>2, AtPlace
<1>4. TypeOK' /\ OnlyContext(c)
  BY <1>1, <1>2, Places
     DEF CreateReadersFail, Goto, CtxInv, TypeOK, OnlyContext, ctx, ents, disc, doms
<1>5. StageOK("stop", ppant'[c], made'[c], callback'[c],
              thread_is_running'[c], listener_gc'[c], thread'[c])
  BY <1>1, <1>3 DEF CreateReadersFail, Goto, CtxInv, TypeOK, StageOK, All, ctx, ents, disc
<1>6. UNCHANGED <<ctx, domain_id, node_count, mutex, nodes, doms, on>>
  BY DEF CreateReadersFail, Goto
<1> QED
  BY <1>2, <1>4, <1>5, <1>6, Places, Advance

\* common.pub
LEMMA CreatePubStep ==
  ASSUME CtxInv, NEW t \in Threads, CreateEndpoint(t, "pub", "sub")
  PROVE  CtxInv'
<1>1. PICK c \in Contexts : c = on[t]
  BY DEF CtxInv, TypeOK
<1>2. /\ pc[t] = "pub" /\ pc' = [pc EXCEPT ![t] = "sub"] /\ on[t] = c
      /\ "pub" \in Locked /\ "sub" \in Locked
  BY <1>1, Places DEF CreateEndpoint, Goto
<1>3. StageOK("pub", ppant[c], made[c], callback[c],
              thread_is_running[c], listener_gc[c], thread[c])
  BY <1>2, AtPlace
<1>4. TypeOK' /\ OnlyContext(c)
  BY <1>1, <1>2, Places DEF CreateEndpoint, Goto, CtxInv, TypeOK, OnlyContext, ctx, ents, disc, doms
<1>5. StageOK("sub", ppant'[c], made'[c], callback'[c],
              thread_is_running'[c], listener_gc'[c], thread'[c])
  BY <1>1, <1>3 DEF CreateEndpoint, Goto, CtxInv, TypeOK, StageOK, All, ctx, ents, disc
<1>6. UNCHANGED <<ctx, domain_id, node_count, mutex, nodes, doms, on>>
  BY DEF CreateEndpoint, Goto
<1> QED
  BY <1>2, <1>4, <1>5, <1>6, Places, Advance

\* common.sub
LEMMA CreateSubStep ==
  ASSUME CtxInv, NEW t \in Threads, CreateEndpoint(t, "sub", "gc")
  PROVE  CtxInv'
<1>1. PICK c \in Contexts : c = on[t]
  BY DEF CtxInv, TypeOK
<1>2. /\ pc[t] = "sub" /\ pc' = [pc EXCEPT ![t] = "gc"] /\ on[t] = c
      /\ "sub" \in Locked /\ "gc" \in Locked
  BY <1>1, Places DEF CreateEndpoint, Goto
<1>3. StageOK("sub", ppant[c], made[c], callback[c],
              thread_is_running[c], listener_gc[c], thread[c])
  BY <1>2, AtPlace
<1>4. TypeOK' /\ OnlyContext(c)
  BY <1>1, <1>2, Places DEF CreateEndpoint, Goto, CtxInv, TypeOK, OnlyContext, ctx, ents, disc, doms
<1>5. StageOK("gc", ppant'[c], made'[c], callback'[c],
              thread_is_running'[c], listener_gc'[c], thread'[c])
  BY <1>1, <1>3 DEF CreateEndpoint, Goto, CtxInv, TypeOK, StageOK, All, ctx, ents, disc
<1>6. UNCHANGED <<ctx, domain_id, node_count, mutex, nodes, doms, on>>
  BY DEF CreateEndpoint, Goto
<1> QED
  BY <1>2, <1>4, <1>5, <1>6, Places, Advance

\* graph_guard_condition and the callback
LEMMA CreateGraphGuardStep ==
  ASSUME CtxInv, NEW t \in Threads, CreateGraphGuard(t)
  PROVE  CtxInv'
<1>1. PICK c \in Contexts : c = on[t]
  BY DEF CtxInv, TypeOK
<1>2. /\ pc[t] = "gc" /\ pc' = [pc EXCEPT ![t] = "start"] /\ on[t] = c
      /\ "gc" \in Locked /\ "start" \in Locked
  BY <1>1, Places DEF CreateGraphGuard, Goto
<1>3. StageOK("gc", ppant[c], made[c], callback[c], thread_is_running[c], listener_gc[c], thread[c])
  BY <1>2, AtPlace
<1>4. TypeOK' /\ OnlyContext(c)
  BY <1>1, <1>2, Places
     DEF CreateGraphGuard, Goto, CtxInv, TypeOK, OnlyContext, ctx, ents, disc, doms
<1>5. StageOK("start", ppant'[c], made'[c], callback'[c],
              thread_is_running'[c], listener_gc'[c], thread'[c])
  BY <1>1, <1>3 DEF CreateGraphGuard, Goto, CtxInv, TypeOK, StageOK, All, ctx, ents, disc
<1>6. UNCHANGED <<ctx, domain_id, node_count, mutex, nodes, doms, on>>
  BY DEF CreateGraphGuard, Goto
<1> QED
  BY <1>2, <1>4, <1>5, <1>6, Places, Advance

\* discovery_thread_start
LEMMA ThreadStartStep ==
  ASSUME CtxInv, NEW t \in Threads, DiscoveryThreadStart(t)
  PROVE  CtxInv'
<1>1. PICK c \in Contexts : c = on[t]
  BY DEF CtxInv, TypeOK
<1>2. /\ pc[t] = "start" /\ pc' = [pc EXCEPT ![t] = "count"] /\ on[t] = c
      /\ "start" \in Locked /\ "count" \in Locked
  BY <1>1, Places DEF DiscoveryThreadStart, Goto
<1>3. StageOK("start", ppant[c], made[c], callback[c],
              thread_is_running[c], listener_gc[c], thread[c])
  BY <1>2, AtPlace
<1>4. TypeOK' /\ OnlyContext(c)
  BY <1>1, <1>2, Places
     DEF DiscoveryThreadStart, Goto, CtxInv, TypeOK, OnlyContext, ctx, ents, disc, doms
<1>5. StageOK("count", ppant'[c], made'[c], callback'[c],
              thread_is_running'[c], listener_gc'[c], thread'[c])
  BY <1>1, <1>3 DEF DiscoveryThreadStart, Goto, CtxInv, TypeOK, StageOK, All, ctx, ents, disc
<1>6. UNCHANGED <<ctx, domain_id, node_count, mutex, nodes, doms, on>>
  BY DEF DiscoveryThreadStart, Goto
<1> QED
  BY <1>2, <1>4, <1>5, <1>6, Places, Advance

\* discovery_thread_stop triggers the guard condition
LEMMA TriggerStep == ASSUME CtxInv, NEW t \in Threads, TriggerListener(t) PROVE CtxInv'
<1>1. PICK c \in Contexts : c = on[t]
  BY DEF CtxInv, TypeOK
<1>2. /\ pc[t] = "trigger" /\ pc' = [pc EXCEPT ![t] = "join"] /\ on[t] = c
      /\ "trigger" \in Locked /\ "join" \in Locked
  BY <1>1, Places DEF TriggerListener, Triggered, Goto
<1>3. StageOK("trigger", ppant[c], made[c], callback[c],
              thread_is_running[c], listener_gc[c], thread[c])
  BY <1>2, AtPlace
<1>4. TypeOK' /\ OnlyContext(c)
  BY <1>1, <1>2, Places
     DEF TriggerListener, Triggered, Goto, CtxInv, TypeOK, OnlyContext, ctx, ents, disc, doms
<1>5. StageOK("join", ppant'[c], made'[c], callback'[c],
              thread_is_running'[c], listener_gc'[c], thread'[c])
  BY <1>1, <1>3 DEF TriggerListener, Triggered, Goto, CtxInv, TypeOK, StageOK, All, ctx, ents, disc
<1>6. UNCHANGED <<ctx, domain_id, node_count, mutex, nodes, doms, on>>
  BY DEF TriggerListener, Triggered, Goto
<1> QED
  BY <1>2, <1>4, <1>5, <1>6, Places, Advance

\* and joins the thread
LEMMA JoinStep == ASSUME CtxInv, NEW t \in Threads, JoinThread(t) PROVE CtxInv'
<1>1. PICK c \in Contexts : c = on[t]
  BY DEF CtxInv, TypeOK
<1>2. /\ pc[t] = "join" /\ pc' = [pc EXCEPT ![t] = "clear"] /\ on[t] = c
      /\ "join" \in Locked /\ "clear" \in Locked
  BY <1>1, Places DEF JoinThread, Joinable, Goto
<1>3. StageOK("join", ppant[c], made[c], callback[c],
              thread_is_running[c], listener_gc[c], thread[c])
  BY <1>2, AtPlace
<1>4. TypeOK' /\ OnlyContext(c)
  BY <1>1, <1>2, Places
     DEF JoinThread, Joinable, Goto, CtxInv, TypeOK, OnlyContext, ctx, ents, disc, doms
<1>5. StageOK("clear", ppant'[c], made'[c], callback'[c],
              thread_is_running'[c], listener_gc'[c], thread'[c])
  BY <1>1, <1>3 DEF JoinThread, Joinable, Goto, CtxInv, TypeOK, StageOK, All, ctx, ents, disc
<1>6. UNCHANGED <<ctx, domain_id, node_count, mutex, nodes, doms, on>>
  BY DEF JoinThread, Joinable, Goto
<1> QED
  BY <1>2, <1>4, <1>5, <1>6, Places, Advance

\* clean_up: the callback of the graph cache
LEMMA ClearCallbackStep ==
  ASSUME CtxInv, NEW t \in Threads, ClearCallback(t)
  PROVE  CtxInv'
<1>1. PICK c \in Contexts : c = on[t]
  BY DEF CtxInv, TypeOK
<1>2. /\ pc[t] = "clear" /\ pc' = [pc EXCEPT ![t] = "unguard"] /\ on[t] = c
      /\ "clear" \in Locked /\ "unguard" \in Locked
  BY <1>1, Places DEF ClearCallback, Goto
<1>3. StageOK("clear", ppant[c], made[c], callback[c],
              thread_is_running[c], listener_gc[c], thread[c])
  BY <1>2, AtPlace
<1>4. TypeOK' /\ OnlyContext(c)
  BY <1>1, <1>2, Places
     DEF ClearCallback, Goto, CtxInv, TypeOK, OnlyContext, ctx, ents, disc, doms
<1>5. StageOK("unguard", ppant'[c], made'[c], callback'[c],
              thread_is_running'[c], listener_gc'[c], thread'[c])
  BY <1>1, <1>3 DEF ClearCallback, Goto, CtxInv, TypeOK, StageOK, All, ctx, ents, disc
<1>6. UNCHANGED <<ctx, domain_id, node_count, mutex, nodes, doms, on>>
  BY DEF ClearCallback, Goto
<1> QED
  BY <1>2, <1>4, <1>5, <1>6, Places, Advance

\* the graph guard condition
LEMMA DestroyGuardStep ==
  ASSUME CtxInv, NEW t \in Threads, DestroyMade(t, "unguard", "gc", "unpub")
  PROVE  CtxInv'
<1>1. PICK c \in Contexts : c = on[t]
  BY DEF CtxInv, TypeOK
<1>2. /\ pc[t] = "unguard" /\ pc' = [pc EXCEPT ![t] = "unpub"] /\ on[t] = c
      /\ "unguard" \in Locked /\ "unpub" \in Locked
  BY <1>1, Places DEF DestroyMade, Goto
<1>3. StageOK("unguard", ppant[c], made[c], callback[c],
              thread_is_running[c], listener_gc[c], thread[c])
  BY <1>2, AtPlace
<1>4. TypeOK' /\ OnlyContext(c)
  BY <1>1, <1>2, Places
     DEF DestroyMade, Goto, CtxInv, TypeOK, OnlyContext, ctx, ents, disc, doms
<1>5. StageOK("unpub", ppant'[c], made'[c], callback'[c],
              thread_is_running'[c], listener_gc'[c], thread'[c])
  BY <1>1, <1>3 DEF DestroyMade, Goto, CtxInv, TypeOK, StageOK, All, ctx, ents, disc
<1>6. UNCHANGED <<ctx, domain_id, node_count, mutex, nodes, doms, on>>
  BY DEF DestroyMade, Goto
<1> QED
  BY <1>2, <1>4, <1>5, <1>6, Places, Advance

\* common.pub
LEMMA DestroyPubStep ==
  ASSUME CtxInv, NEW t \in Threads, DestroyMade(t, "unpub", "pub", "unsub")
  PROVE  CtxInv'
<1>1. PICK c \in Contexts : c = on[t]
  BY DEF CtxInv, TypeOK
<1>2. /\ pc[t] = "unpub" /\ pc' = [pc EXCEPT ![t] = "unsub"] /\ on[t] = c
      /\ "unpub" \in Locked /\ "unsub" \in Locked
  BY <1>1, Places DEF DestroyMade, Goto
<1>3. StageOK("unpub", ppant[c], made[c], callback[c],
              thread_is_running[c], listener_gc[c], thread[c])
  BY <1>2, AtPlace
<1>4. TypeOK' /\ OnlyContext(c)
  BY <1>1, <1>2, Places
     DEF DestroyMade, Goto, CtxInv, TypeOK, OnlyContext, ctx, ents, disc, doms
<1>5. StageOK("unsub", ppant'[c], made'[c], callback'[c],
              thread_is_running'[c], listener_gc'[c], thread'[c])
  BY <1>1, <1>3 DEF DestroyMade, Goto, CtxInv, TypeOK, StageOK, All, ctx, ents, disc
<1>6. UNCHANGED <<ctx, domain_id, node_count, mutex, nodes, doms, on>>
  BY DEF DestroyMade, Goto
<1> QED
  BY <1>2, <1>4, <1>5, <1>6, Places, Advance

\* common.sub
LEMMA DestroySubStep ==
  ASSUME CtxInv, NEW t \in Threads, DestroyMade(t, "unsub", "sub", "delete")
  PROVE  CtxInv'
<1>1. PICK c \in Contexts : c = on[t]
  BY DEF CtxInv, TypeOK
<1>2. /\ pc[t] = "unsub" /\ pc' = [pc EXCEPT ![t] = "delete"] /\ on[t] = c
      /\ "unsub" \in Locked /\ "delete" \in Locked
  BY <1>1, Places DEF DestroyMade, Goto
<1>3. StageOK("unsub", ppant[c], made[c], callback[c],
              thread_is_running[c], listener_gc[c], thread[c])
  BY <1>2, AtPlace
<1>4. TypeOK' /\ OnlyContext(c)
  BY <1>1, <1>2, Places
     DEF DestroyMade, Goto, CtxInv, TypeOK, OnlyContext, ctx, ents, disc, doms
<1>5. StageOK("delete", ppant'[c], made'[c], callback'[c],
              thread_is_running'[c], listener_gc'[c], thread'[c])
  BY <1>1, <1>3 DEF DestroyMade, Goto, CtxInv, TypeOK, StageOK, All, ctx, ents, disc
<1>6. UNCHANGED <<ctx, domain_id, node_count, mutex, nodes, doms, on>>
  BY DEF DestroyMade, Goto
<1> QED
  BY <1>2, <1>4, <1>5, <1>6, Places, Advance

\* and the participant
LEMMA DeleteParticipantStep ==
  ASSUME CtxInv, NEW t \in Threads, DeleteParticipant(t)
  PROVE  CtxInv'
<1>1. PICK c \in Contexts : c = on[t]
  BY DEF CtxInv, TypeOK
<1>2. /\ pc[t] = "delete" /\ pc' = [pc EXCEPT ![t] = "release"] /\ on[t] = c
      /\ "delete" \in Locked /\ "release" \in Locked
  BY <1>1, Places DEF DeleteParticipant, Goto
<1>3. StageOK("delete", ppant[c], made[c], callback[c],
              thread_is_running[c], listener_gc[c], thread[c])
  BY <1>2, AtPlace
<1>4. TypeOK' /\ OnlyContext(c)
  BY <1>1, <1>2, Places
     DEF DeleteParticipant, Goto, CtxInv, TypeOK, OnlyContext, ctx, ents, disc, doms
<1>5. StageOK("release", ppant'[c], made'[c], callback'[c],
              thread_is_running'[c], listener_gc'[c], thread'[c])
  BY <1>1, <1>3 DEF DeleteParticipant, Goto, CtxInv, TypeOK, StageOK, All, ctx, ents, disc
<1>6. UNCHANGED <<ctx, domain_id, node_count, mutex, nodes, doms, on>>
  BY DEF DeleteParticipant, Goto
<1> QED
  BY <1>2, <1>4, <1>5, <1>6, Places, Advance

\* thread_is_running.exchange(false)
LEMMA StopStep ==
  ASSUME CtxInv, NEW t \in Threads, NEW s \in {"trigger", "clear"},
         thread_is_running[on[t]] <=> s = "trigger", DiscoveryThreadStop(t)
  PROVE  CtxInv'
<1>1. PICK c \in Contexts : c = on[t]
  BY DEF CtxInv, TypeOK
<1>2. pc[t] = "stop" /\ pc' = [pc EXCEPT ![t] = s] /\ on[t] = c /\ "stop" \in Locked /\ s \in Locked
  BY <1>1, Places DEF DiscoveryThreadStop
<1>3. StageOK("stop", ppant[c], made[c], callback[c],
              thread_is_running[c], listener_gc[c], thread[c])
  BY <1>2, AtPlace
<1>4. TypeOK' /\ OnlyContext(c)
  BY <1>1, <1>2, Places DEF DiscoveryThreadStop, CtxInv, TypeOK, OnlyContext, ctx, ents, disc, doms
<1>5. StageOK(s, ppant'[c], made'[c], callback'[c],
              thread_is_running'[c], listener_gc'[c], thread'[c])
  BY <1>1, <1>3 DEF DiscoveryThreadStop, CtxInv, TypeOK, StageOK, All, ctx, ents, disc
<1>6. UNCHANGED <<ctx, domain_id, node_count, mutex, nodes, doms, on>>
  BY DEF DiscoveryThreadStop
<1> QED
  BY <1>2, <1>4, <1>5, <1>6, Places, Advance
-----------------------------------------------------------------------------
(***************************************************************************)
(* check_create_domain and check_destroy_domain.                           *)
(***************************************************************************)
\* without a reference there is nobody in the domain
LEMMA NobodyIn ==
  ASSUME CtxInv, NEW d \in Domains, refcount[d] = 0
  PROVE  Holders(d) = {}
<1>1. Cardinality(Holders(d)) = 0 /\ IsFiniteSet(Holders(d))
  BY Countable DEF CtxInv, Covered
<1> QED
  BY <1>1, FS_EmptySet

\* the domain is there, or is made
LEMMA EnterStep ==
  ASSUME CtxInv, NEW t \in Threads, JoinDomain(t) \/ MakeDomain(t)
  PROVE  CtxInv'
<1>1. PICK c \in Contexts : c = on[t]
  BY DEF CtxInv, TypeOK
<1>2. /\ pc[t] = "domain" /\ pc' = [pc EXCEPT ![t] = "ppant"]
      /\ UNCHANGED <<ctx, domain_id, node_count, mutex, nodes, ents, disc, on>>
  BY DEF JoinDomain, MakeDomain, Goto
<1>3. /\ mutex[c] = t /\ Phase(c) = "domain" /\ node_count[c] = 0 /\ t # NoOne
      /\ c \in open /\ domain_id[c] \in Domains
  BY <1>1, <1>2, Held, Places, MutexAssumption
<1>4. PICK d \in Domains : d = domain_id[c]
  BY <1>3
<1>5. /\ refcount' = [refcount EXCEPT ![d] = refcount[d] + 1]
      /\ \/ /\ refcount[d] # 0 /\ discovery_options[d] = options[c]
            /\ UNCHANGED <<entry, discovery_options, domain_handle>>
         \/ /\ refcount[d] = 0 /\ entry' = entry \cup {d}
            /\ discovery_options' = [discovery_options EXCEPT ![d] = options[c]]
            /\ domain_handle' = [domain_handle EXCEPT ![d] = TRUE]
  BY <1>1, <1>4 DEF JoinDomain, MakeDomain, Shares
<1>6. TypeOK'
  <2>1. refcount' \in [Domains -> Nat]
    BY <1>5 DEF CtxInv, TypeOK
  <2>2. pc' \in [Threads -> PCs]
    BY <1>2, Places DEF CtxInv, TypeOK
  <2>3. options[c] \in Options
    BY DEF CtxInv, TypeOK
  <2>4. /\ entry' \subseteq Domains /\ discovery_options' \in [Domains -> Options]
        /\ domain_handle' \in [Domains -> BOOLEAN]
    BY <1>5, <2>3 DEF CtxInv, TypeOK
  <2> QED
    BY <1>2, <2>1, <2>2, <2>4 DEF CtxInv, TypeOK, ctx, ents, disc
<1>7. OnlyThread(t) /\ OnlyContext(c) /\ Phase(c)' = "ppant" /\ pc'[t] = "ppant" /\ on'[t] = c
  BY <1>1, <1>2, <1>3 DEF CtxInv, TypeOK, OnlyThread, OnlyContext, Phase, ctx, ents, disc
<1>8. Owners' /\ \A x \in Contexts \ {c} : Phase(x)' = Phase(x)
  BY <1>1, <1>2, <1>3, <1>6, <1>7, Places, OwnersStep
<1>9. Counted'
  BY <1>2, <1>6, <1>7, CountedStep
<1>10. /\ c \notin Holders(d) /\ Holders(d)' = Holders(d) \cup {c}
       /\ \A e \in Domains \ {d} : Holders(e)' = Holders(e)
  BY <1>2, <1>3, <1>4, <1>6, <1>7, <1>8, Places, HoldersStep
<1>11. Covered' /\ RefcountCovers'
  BY <1>2, <1>5, <1>6, <1>10, BooksEnter DEF ctx
<1>12. Stage(c)'
  <2>1. StageOK("domain", ppant[c], made[c], callback[c], thread_is_running[c], listener_gc[c], thread[c])
    BY <1>1, <1>2, Places, AtPlace
  <2> QED
    BY <1>2, <1>7, <2>1 DEF Stage, StageOK, ents, disc
<1> QED
  BY <1>2, <1>3, <1>6, <1>7, <1>8, <1>9, <1>11, <1>12, StepInv DEF ctx

\* t gives the mutex back without a node; the context is free again
LEMMA Release ==
  ASSUME CtxInv, TypeOK', NEW t \in Threads, NEW c \in Contexts, on[t] = c,
         NEW s \in {"domain", "release"}, Leave(t, s), Unlock(c),
         UNCHANGED <<ctx, domain_id, node_count, nodes, ents, disc>>
  PROVE  /\ OnlyThread(t) /\ OnlyContext(c) /\ Owners' /\ Counted' /\ Stage(c)'
         /\ \A x \in Contexts \ {c} : Phase(x)' = Phase(x)
         /\ Phase(c) = s /\ Phase(c)' = "free" /\ domain_id[c] \in Domains
         /\ pc'[t] = "idle" /\ c \in open
<1>1. pc[t] = s /\ s \in Locked /\ pc' = [pc EXCEPT ![t] = "idle"] /\ on' = [on EXCEPT ![t] = AnyContext]
  BY Places DEF Leave, Goto
<1>2. /\ mutex[c] = t /\ Phase(c) = s /\ node_count[c] = 0 /\ t # NoOne
      /\ c \in open /\ domain_id[c] \in Domains
  BY <1>1, Held, MutexAssumption
<1>3. OnlyThread(t) /\ OnlyContext(c) /\ Phase(c)' = "free" /\ pc'[t] = "idle" /\ mutex'[c] = NoOne
  BY <1>1, <1>2 DEF CtxInv, TypeOK, OnlyThread, OnlyContext, Phase, ctx, ents, disc, Unlock
<1>4. Owners' /\ \A x \in Contexts \ {c} : Phase(x)' = Phase(x)
  BY <1>1, <1>2, <1>3, Places, OwnersStep
<1>5. Counted'
  BY <1>1, <1>3, CountedStep
<1>6. Stage(c)'
  <2>1. StageOK(s, ppant[c], made[c], callback[c], thread_is_running[c], listener_gc[c], thread[c])
    BY <1>1, AtPlace
  <2> QED
    BY <1>3, <2>1 DEF Stage, StageOK, ents, disc
<1> QED
  BY <1>1, <1>2, <1>3, <1>4, <1>5, <1>6

\* check_create_domain fails, and with it init
LEMMA NoDomainStep ==
  ASSUME CtxInv, NEW t \in Threads, RefuseDomain(t) \/ MakeDomainNotSet(t) \/ MakeDomainFails(t)
  PROVE  CtxInv'
<1>1. PICK c \in Contexts : c = on[t]
  BY DEF CtxInv, TypeOK
<1>2. Leave(t, "domain") /\ Unlock(c) /\ UNCHANGED <<ctx, domain_id, node_count, nodes, ents, disc>>
  BY <1>1 DEF RefuseDomain, MakeDomainNotSet, MakeDomainFails
<1>3. pc[t] = "domain" /\ domain_id[c] \in Domains
  BY <1>1, <1>2, Held, Places DEF Leave, Goto
<1>4. PICK d \in Domains : d = domain_id[c]
  BY <1>3
<1>5. TypeOK'
  <2>1. /\ pc' \in [Threads -> PCs] /\ on' \in [Threads -> Contexts]
        /\ mutex' \in [Contexts -> Threads \cup {NoOne}]
    BY <1>1, <1>2, NonEmptyContexts, Places DEF CtxInv, TypeOK, Leave, Goto, Unlock, AnyContext
  <2>2. options[c] \in Options /\ domain_id[c] = d
    BY <1>1, <1>4 DEF CtxInv, TypeOK
  <2>3. /\ entry' \subseteq Domains /\ refcount' \in [Domains -> Nat]
        /\ discovery_options' \in [Domains -> Options] /\ domain_handle' \in [Domains -> BOOLEAN]
    <3>1. CASE RefuseDomain(t)
      BY <3>1 DEF RefuseDomain, CtxInv, TypeOK, doms
    <3>2. CASE MakeDomainNotSet(t)
      BY <1>1, <1>4, <2>2, <3>2 DEF MakeDomainNotSet, CtxInv, TypeOK
    <3>3. CASE MakeDomainFails(t)
      BY <1>1, <1>4, <3>3 DEF MakeDomainFails, CtxInv, TypeOK
    <3> QED
      BY <3>1, <3>2, <3>3
  <2> QED
    BY <1>2, <2>1, <2>3 DEF CtxInv, TypeOK, ctx, ents, disc
<1>6. /\ OnlyThread(t) /\ OnlyContext(c) /\ Owners' /\ Counted' /\ Stage(c)'
      /\ \A x \in Contexts \ {c} : Phase(x)' = Phase(x)
      /\ Phase(c) = "domain" /\ Phase(c)' = "free" /\ pc'[t] = "idle" /\ c \in open
  BY <1>1, <1>2, <1>5, Release
<1>7. \A e \in Domains : Holders(e)' = Holders(e)
  BY <1>5, <1>6, Places, HoldersStep
<1>8. Covered' /\ RefcountCovers'
  <2>1. CASE RefuseDomain(t)
    BY <1>2, <1>5, <1>7, <2>1, BooksKept DEF RefuseDomain, ctx
  <2>2. CASE MakeDomainNotSet(t)
    <3>1. /\ refcount' = [refcount EXCEPT ![d] = 1] /\ refcount[d] = 0 /\ options' = options
          /\ discovery_options' = [discovery_options EXCEPT ![d] = options[c]]
          /\ options[c] = NotSet
      BY <1>1, <1>2, <1>4, <2>2 DEF MakeDomainNotSet, ctx
    <3>2. Holders(d) = {} /\ Cardinality(Holders(d)) \in Nat
      BY <3>1, NobodyIn, Countable
    <3>3. Cardinality(Holders(d)) = 0
      BY <3>2, FS_EmptySet
    <3>4. Covered'
      <4>1. refcount'[d] = 1 /\ \A e \in Domains \ {d} : refcount'[e] = refcount[e]
        BY <3>1 DEF CtxInv, TypeOK
      <4>2. \A e \in Domains \ {d} : discovery_options'[e] = discovery_options[e]
        BY <3>1 DEF CtxInv, TypeOK
      <4>3. \A e \in Domains : refcount'[e] >= Cardinality(Holders(e)')
        BY <1>7, <3>3, <4>1 DEF CtxInv, Covered
      <4>4. \A e \in Domains : \A x \in Holders(e)' : discovery_options'[e] = options'[x]
        BY <1>7, <3>1, <3>2, <4>2 DEF CtxInv, Covered
      <4> QED
        BY <4>3, <4>4 DEF Covered
    <3>5. RefcountCovers'
      <4> SUFFICES ASSUME NEW e \in Domains
                   PROVE  /\ refcount'[e] = Cardinality(Holders(e)') + Unreturned(e)'
                          /\ e \in entry' <=> refcount'[e] # 0
                          /\ domain_handle'[e] => e \in entry'
                          /\ Stranded(e)' => discovery_options'[e] = NotSet
        BY DEF RefcountCovers
      <4>1. /\ refcount[e] = Cardinality(Holders(e)) + Unreturned(e)
            /\ e \in entry <=> refcount[e] # 0
            /\ domain_handle[e] => e \in entry
            /\ Stranded(e) => discovery_options[e] = NotSet
        BY DEF CtxInv, RefcountCovers
      <4>2. entry' = entry \cup {d} /\ domain_handle' = domain_handle
        BY <1>1, <1>4, <2>2 DEF MakeDomainNotSet
      <4>3. CASE e = d
        <5>1. refcount'[e] = 1 /\ discovery_options'[e] = NotSet
          BY <3>1, <4>3 DEF CtxInv, TypeOK
        <5>2. Stranded(e)'
          BY <3>1, <4>1, <4>2, <4>3 DEF Stranded
        <5>3. Unreturned(e)' = 1 /\ Cardinality(Holders(e)') = 0
          BY <1>7, <3>3, <4>3, <5>2 DEF Unreturned
        <5> QED
          BY <4>2, <4>3, <5>1, <5>3
      <4>4. CASE e # d
        <5>1. /\ refcount'[e] = refcount[e] /\ (e \in entry' <=> e \in entry)
              /\ discovery_options'[e] = discovery_options[e]
          BY <3>1, <4>2, <4>4 DEF CtxInv, TypeOK
        <5>2. (Stranded(e)' <=> Stranded(e)) /\ Unreturned(e)' = Unreturned(e)
          BY <4>2, <5>1 DEF Stranded, Unreturned
        <5> QED
          BY <1>7, <4>1, <4>2, <5>1, <5>2
      <4> QED
        BY <4>3, <4>4
    <3> QED
      BY <3>4, <3>5
  <2>3. CASE MakeDomainFails(t)
    <3>1. /\ refcount[d] = 0 /\ entry' = entry \ {d} /\ options' = options
          /\ UNCHANGED <<refcount, discovery_options, domain_handle>>
      BY <1>1, <1>2, <1>4, <2>3 DEF MakeDomainFails, ctx
    <3>2. Holders(d) = {}
      BY <3>1, NobodyIn
    <3>3. Covered'
      BY <1>7, <3>1 DEF CtxInv, Covered
    <3>4. RefcountCovers'
      <4>1. entry' = entry
        BY <3>1 DEF CtxInv, RefcountCovers
      <4> QED
        BY <1>7, <3>1, <4>1 DEF CtxInv, RefcountCovers, Unreturned, Stranded
    <3> QED
      BY <3>3, <3>4
  <2> QED
    BY <2>1, <2>2, <2>3
<1> QED
  BY <1>1, <1>2, <1>5, <1>6, <1>8, StepInv DEF ctx

\* only the participant of the context that leaves can be in a domain that ends,
\* and it has been deleted
LEMMA NobodyLost ==
  ASSUME CtxInv, NEW t \in Threads, NEW c \in Contexts, on[t] = c, pc[t] = "release",
         NEW d \in Domains, d = domain_id[c], refcount[d] = 1
  PROVE  \A x \in Contexts : domain_id[x] = d => ppant[x] # "up"
<1>1. Phase(c) = "release" /\ HoldersByPhase
  BY Held, Places, PhaseOfHolders DEF CtxInv
<1>2. c \in Holders(d)
  BY <1>1, Places DEF HoldersByPhase
<1>3. Holders(d) \ {c} = {}
  <2>1. Cardinality(Holders(d)) <= 1 /\ IsFiniteSet(Holders(d)) /\ Cardinality(Holders(d)) \in Nat
    BY Countable DEF CtxInv, Covered
  <2>2. Cardinality(Holders(d) \ {c}) = Cardinality(Holders(d)) - 1 /\ IsFiniteSet(Holders(d) \ {c})
    BY <1>2, <2>1, FS_RemoveElement
  <2>3. Cardinality(Holders(d) \ {c}) \in Nat
    BY <2>2, FS_CardinalityType
  <2>4. Cardinality(Holders(d) \ {c}) = 0
    BY <2>1, <2>2, <2>3
  <2> QED
    BY <2>2, <2>4, FS_EmptySet
<1>4. ASSUME NEW x \in Contexts, domain_id[x] = d, ppant[x] = "up"
      PROVE  FALSE
  <2>1. Stage(x) /\ Stage(c)
    BY DEF CtxInv
  <2>2. x # c
    BY <1>1, <1>4, <2>1 DEF Stage, StageOK
  <2>3. Phase(x) \notin {"free", "domain"}
    BY <1>4, <2>1 DEF Stage, StageOK
  <2>4. Phase(x) \in {"free", "up"} \cup Locked
    BY DEF CtxInv, TypeOK, Owners, Phase
  <2>5. Phase(x) \in InDomain
    BY <2>3, <2>4, Places
  <2> QED
    BY <1>1, <1>3, <1>4, <2>2, <2>5 DEF HoldersByPhase
<1> QED
  BY <1>4

\* check_destroy_domain
LEMMA LeaveStep ==
  ASSUME CtxInv, NEW t \in Threads, LeaveDomain(t) \/ DestroyDomain(t)
  PROVE  CtxInv'
<1>1. PICK c \in Contexts : c = on[t]
  BY DEF CtxInv, TypeOK
<1>2. /\ Leave(t, "release") /\ Unlock(c)
      /\ UNCHANGED <<ctx, domain_id, node_count, nodes, made, callback, disc, discovery_options>>
  BY <1>1 DEF LeaveDomain, DestroyDomain, ents
<1>3. pc[t] = "release" /\ domain_id[c] \in Domains /\ Phase(c) = "release"
  BY <1>1, <1>2, Held, Places DEF Leave, Goto
<1>4. PICK d \in Domains : d = domain_id[c]
  BY <1>3
<1>5. c \in Holders(d)
  BY <1>3, <1>4, Places, PhaseOfHolders DEF CtxInv, HoldersByPhase
<1>6. refcount[d] \in Nat /\ refcount[d] # 0
  BY <1>5, NobodyIn DEF CtxInv, TypeOK
<1>7. UNCHANGED ppant
  <2>1. CASE LeaveDomain(t)
    BY <2>1 DEF LeaveDomain, ents
  <2>2. CASE DestroyDomain(t)
    <3>1. \A x \in Contexts : domain_id[x] = d => ppant[x] # "up"
      BY <1>1, <1>3, <1>4, <2>2, NobodyLost DEF DestroyDomain
    <3>2. ppant' = [x \in Contexts |-> ppant[x]]
      BY <1>1, <1>4, <2>2, <3>1 DEF DestroyDomain
    <3> QED
      BY <3>2 DEF CtxInv, TypeOK
  <2> QED
    BY <2>1, <2>2
<1>8. /\ refcount' = [refcount EXCEPT ![d] = refcount[d] - 1]
      /\ \/ refcount[d] # 1 /\ UNCHANGED <<entry, domain_handle>>
         \/ /\ refcount[d] = 1 /\ entry' = entry \ {d}
            /\ domain_handle' = [domain_handle EXCEPT ![d] = FALSE]
  BY <1>1, <1>4 DEF LeaveDomain, DestroyDomain
<1>9. TypeOK'
  <2> DEFINE n == refcount[d] - 1
  <2>1. n \in Nat
    BY <1>6
  <2>2. refcount' = [refcount EXCEPT ![d] = n] /\ refcount \in [Domains -> Nat]
    BY <1>8 DEF CtxInv, TypeOK
  <2> HIDE DEF n
  <2>3. refcount' \in [Domains -> Nat]
    BY <2>1, <2>2
  <2> QED
    BY <1>1, <1>2, <1>7, <1>8, <2>3, NonEmptyContexts, Places
       DEF CtxInv, TypeOK, ctx, disc, Leave, Goto, Unlock, AnyContext
<1>10. /\ OnlyThread(t) /\ OnlyContext(c) /\ Owners' /\ Counted' /\ Stage(c)'
       /\ \A x \in Contexts \ {c} : Phase(x)' = Phase(x)
       /\ Phase(c)' = "free" /\ pc'[t] = "idle" /\ c \in open
  BY <1>1, <1>2, <1>7, <1>9, Release DEF ents
<1>11. /\ Holders(d)' = Holders(d) \ {c}
       /\ \A e \in Domains \ {d} : Holders(e)' = Holders(e)
  BY <1>3, <1>4, <1>9, <1>10, Places, HoldersStep
<1>12. Covered' /\ RefcountCovers'
  BY <1>2, <1>5, <1>8, <1>9, <1>11, BooksLeave DEF ctx
<1> QED
  BY <1>1, <1>2, <1>9, <1>10, <1>12, StepInv DEF ctx
-----------------------------------------------------------------------------
(***************************************************************************)
(* The first and the last node, and those in between.                      *)
(***************************************************************************)
\* a step of t on c on nodes and mutex alone, after which c is as before in the
\* domain or out of it
LEMMA NodeStep ==
  ASSUME CtxInv, TypeOK', NEW t \in Threads, NEW c \in Contexts, OnlyThread(t), OnlyContext(c),
         Owners', Counted', \A x \in Contexts \ {c} : Phase(x)' = Phase(x),
         UNCHANGED <<ctx, ents, disc, doms>>, c \in open,
         StageOK(Phase(c)', ppant[c], made[c], callback[c], thread_is_running[c], listener_gc[c], thread[c]),
         pc'[t] # "idle" => on'[t] = c,
         \/ Phase(c) \in InDomain /\ Phase(c)' \in InDomain /\ domain_id'[c] = domain_id[c]
         \/ Phase(c) \notin InDomain /\ Phase(c)' \notin InDomain,
         Phase(c)' # "free" => domain_id'[c] \in Domains
  PROVE  CtxInv'
<1>1. \A d \in Domains : Holders(d)' = Holders(d)
  BY HoldersStep
<1>2. Covered' /\ RefcountCovers'
  BY <1>1, BooksKept DEF ctx
<1>3. Stage(c)'
  BY DEF Stage, ents, disc
<1> QED
  BY <1>2, <1>3, StepInv DEF ctx

\* the first node of a context
LEMMA InitFirstStep == ASSUME CtxInv, NEW t \in Threads, InitFirst(t) PROVE CtxInv'
<1>1. PICK c \in Contexts : c = on[t]
  BY DEF CtxInv, TypeOK
<1>2. /\ pc[t] = "init" /\ pc' = [pc EXCEPT ![t] = "domain"] /\ mutex[c] = NoOne /\ node_count[c] = 0
      /\ mutex' = [mutex EXCEPT ![c] = t]
      /\ domain_id' = [domain_id EXCEPT ![c] = actual_domain_id[c]]
      /\ UNCHANGED <<ctx, node_count, nodes, ents, disc, doms, on>>
  BY <1>1 DEF InitFirst, Goto
<1>3. TypeOK'
  BY <1>1, <1>2, Places DEF CtxInv, TypeOK, ctx, ents, disc, doms
<1>4. /\ OnlyThread(t) /\ OnlyContext(c) /\ Phase(c)' = "domain" /\ pc'[t] = "domain" /\ on'[t] = c
      /\ mutex'[c] = t /\ domain_id'[c] \in Domains /\ c \in open
  BY <1>1, <1>2, MutexAssumption
     DEF CtxInv, TypeOK, InUseOpen, OnlyThread, OnlyContext, Phase, ctx, ents, disc
<1>5. Phase(c) = "free"
  BY <1>2, Unheld
<1>6. Owners' /\ \A x \in Contexts \ {c} : Phase(x)' = Phase(x)
  BY <1>1, <1>2, <1>3, <1>4, Places, OwnersStep
<1>7. Counted'
  BY <1>2, <1>3, <1>4, CountedStep
<1>8. StageOK("domain", ppant[c], made[c], callback[c], thread_is_running[c], listener_gc[c], thread[c])
  BY <1>5 DEF CtxInv, Stage, StageOK
<1> QED
  BY <1>2, <1>3, <1>4, <1>5, <1>6, <1>7, <1>8, Places, NodeStep

\* the last one
LEMMA FiniLastStep == ASSUME CtxInv, NEW t \in Threads, FiniLast(t) PROVE CtxInv'
<1>1. PICK c \in Contexts : c = on[t]
  BY DEF CtxInv, TypeOK
<1>2. /\ pc[t] = "fini" /\ pc' = [pc EXCEPT ![t] = "stop"] /\ mutex[c] = NoOne /\ node_count[c] = 1
      /\ mutex' = [mutex EXCEPT ![c] = t] /\ node_count' = [node_count EXCEPT ![c] = 0]
      /\ UNCHANGED <<ctx, domain_id, nodes, ents, disc, doms, on>>
  BY <1>1 DEF FiniLast, Goto
<1>3. TypeOK'
  BY <1>1, <1>2, Places DEF CtxInv, TypeOK, ctx, ents, disc, doms
<1>4. /\ OnlyThread(t) /\ OnlyContext(c) /\ Phase(c)' = "stop" /\ pc'[t] = "stop" /\ on'[t] = c
      /\ mutex'[c] = t /\ node_count'[c] = 0 /\ nodes'[c] = nodes[c] /\ c \in open
  BY <1>1, <1>2, MutexAssumption
     DEF CtxInv, TypeOK, InUseOpen, OnlyThread, OnlyContext, Phase, ctx, ents, disc
<1>5. Phase(c) = "up" /\ domain_id[c] \in Domains
  BY <1>2, Unheld DEF CtxInv, Placed
<1>6. Owners' /\ \A x \in Contexts \ {c} : Phase(x)' = Phase(x)
  BY <1>1, <1>2, <1>3, <1>4, Places, OwnersStep
<1>7. Counted'
  <2>1. node_count'[c] - nodes'[c] = node_count[c] - nodes[c] - 1
    BY <1>2, <1>4 DEF CtxInv, TypeOK
  <2> QED
    BY <1>1, <1>2, <1>3, <1>4, <2>1, CountedStep
<1>8. StageOK("stop", ppant[c], made[c], callback[c], thread_is_running[c], listener_gc[c], thread[c])
  BY <1>5 DEF CtxInv, Stage, StageOK
<1> QED
  BY <1>2, <1>3, <1>4, <1>5, <1>6, <1>7, <1>8, Places, NodeStep

\* init is done: the first node is counted and the mutex is free
LEMMA InitDoneStep == ASSUME CtxInv, NEW t \in Threads, InitDone(t) PROVE CtxInv'
<1>1. PICK c \in Contexts : c = on[t]
  BY DEF CtxInv, TypeOK
<1>2. /\ pc[t] = "count" /\ pc' = [pc EXCEPT ![t] = "named"]
      /\ mutex' = [mutex EXCEPT ![c] = NoOne] /\ node_count' = [node_count EXCEPT ![c] = @ + 1]
      /\ UNCHANGED <<ctx, domain_id, nodes, ents, disc, doms, on>>
  BY <1>1 DEF InitDone, Goto, Unlock
<1>3. /\ mutex[c] = t /\ Phase(c) = "count" /\ node_count[c] = 0 /\ c \in open /\ domain_id[c] \in Domains
  BY <1>1, <1>2, Held, Places
<1>4. TypeOK'
  BY <1>1, <1>2, Places DEF CtxInv, TypeOK, ctx, ents, disc, doms
<1>5. node_count'[c] = 1 /\ nodes'[c] = nodes[c] /\ nodes[c] \in Nat
  BY <1>2, <1>3 DEF CtxInv, TypeOK
<1>6. /\ OnlyThread(t) /\ OnlyContext(c) /\ Phase(c)' = "up" /\ pc'[t] = "named" /\ on'[t] = c
      /\ mutex'[c] = NoOne
  BY <1>1, <1>2, <1>5 DEF CtxInv, TypeOK, OnlyThread, OnlyContext, Phase, ctx, ents, disc
<1>7. Owners' /\ \A x \in Contexts \ {c} : Phase(x)' = Phase(x)
  BY <1>1, <1>3, <1>4, <1>6, Places, OwnersStep
<1>8. Counted'
  <2>1. node_count'[c] - nodes'[c] = node_count[c] - nodes[c] + 1
    BY <1>3, <1>5
  <2> QED
    BY <1>2, <1>4, <1>6, <2>1, CountedStep
<1>9. StageOK("up", ppant[c], made[c], callback[c], thread_is_running[c], listener_gc[c], thread[c])
  BY <1>3 DEF CtxInv, Stage, StageOK
<1> QED
  BY <1>2, <1>3, <1>4, <1>6, <1>7, <1>8, <1>9, Places, NodeStep

\* a node more or less of a context that stays up
LEMMA CountStep ==
  ASSUME CtxInv, NEW t \in Threads, InitAgain(t) \/ FiniNotLast(t)
  PROVE  CtxInv'
<1>1. PICK c \in Contexts : c = on[t]
  BY DEF CtxInv, TypeOK
<1>2. /\ mutex[c] = NoOne /\ mutex' = mutex /\ pc[t] \in {"init", "fini"}
      /\ UNCHANGED <<ctx, domain_id, nodes, ents, disc, doms>>
  BY <1>1 DEF InitAgain, FiniNotLast, Leave, Goto
<1>3. c \in open /\ node_count[c] \in Nat /\ nodes[c] \in Nat /\ node_count \in [Contexts -> Nat]
  BY <1>1, <1>2 DEF CtxInv, TypeOK, InUseOpen
<1>4. FiniNotLast(t) => node_count[c] # 0
  <2> SUFFICES ASSUME FiniNotLast(t) PROVE node_count[c] # 0
    OBVIOUS
  <2>1. t \in Named(c) /\ IsFiniteSet(Named(c)) /\ Cardinality(Named(c)) \in Nat
    BY <1>1, Countable DEF FiniNotLast, Leave, Goto, Named
  <2>2. Cardinality(Named(c)) # 0
    BY <2>1, FS_EmptySet
  <2> QED
    BY <1>3, <2>1, <2>2 DEF CtxInv, Counted
<1>5. PICK n \in Nat \ {0} :
        /\ node_count[c] # 0 /\ node_count' = [node_count EXCEPT ![c] = n]
        /\ \/ pc[t] = "init" /\ pc'[t] = "named" /\ on'[t] = c /\ n = node_count[c] + 1
           \/ pc[t] = "fini" /\ pc'[t] = "idle" /\ n = node_count[c] - 1
  <2>1. CASE InitAgain(t)
    <3>1. /\ node_count[c] + 1 \in Nat \ {0} /\ node_count[c] # 0
          /\ node_count' = [node_count EXCEPT ![c] = node_count[c] + 1]
      BY <1>1, <1>3, <2>1 DEF InitAgain
    <3>2. pc[t] = "init" /\ pc'[t] = "named" /\ on'[t] = c
      BY <1>1, <2>1 DEF InitAgain, Goto, CtxInv, TypeOK
    <3> QED
      BY <3>1, <3>2
  <2>2. CASE FiniNotLast(t)
    <3>1. /\ node_count[c] - 1 \in Nat \ {0} /\ node_count[c] # 0
          /\ node_count' = [node_count EXCEPT ![c] = node_count[c] - 1]
      BY <1>1, <1>3, <1>4, <2>2 DEF FiniNotLast
    <3>2. pc[t] = "fini" /\ pc'[t] = "idle"
      BY <2>2 DEF FiniNotLast, Leave, Goto, CtxInv, TypeOK
    <3> QED
      BY <3>1, <3>2
  <2> QED
    BY <2>1, <2>2
<1>6. TypeOK'
  <2>1. node_count' \in [Contexts -> Nat]
    BY <1>3, <1>5
  <2>2. pc' \in [Threads -> PCs] /\ on' \in [Threads -> Contexts]
    BY NonEmptyContexts, Places, SMTT(40) DEF CtxInv, TypeOK, InitAgain, FiniNotLast, Leave, Goto, AnyContext
  <2> QED
    BY <1>2, <2>1, <2>2 DEF CtxInv, TypeOK, ctx, ents, disc, doms
<1>7. OnlyThread(t)
  BY DEF CtxInv, TypeOK, OnlyThread, InitAgain, FiniNotLast, Leave, Goto
<1>8. OnlyContext(c) /\ node_count'[c] = n
  BY <1>2, <1>3, <1>5 DEF OnlyContext, ctx, ents, disc
<1>9. Phase(c) = "up" /\ Phase(c)' = "up" /\ domain_id[c] \in Domains
  BY <1>2, <1>5, <1>8 DEF CtxInv, Phase, Placed
<1>10. Owners' /\ \A x \in Contexts \ {c} : Phase(x)' = Phase(x)
  BY <1>2, <1>5, <1>6, <1>7, <1>8, Places, OwnersStep
<1>11. Counted'
  <2>1. nodes'[c] = nodes[c]
    BY <1>2
  <2>2. CASE pc[t] = "init" /\ pc'[t] = "named" /\ on'[t] = c /\ n = node_count[c] + 1
    <3>1. node_count'[c] - nodes'[c] = node_count[c] - nodes[c] + 1
      BY <1>3, <1>8, <2>1, <2>2
    <3> QED
      BY <1>6, <1>7, <1>8, <2>2, <3>1, CountedStep
  <2>3. CASE pc[t] = "fini" /\ pc'[t] = "idle" /\ n = node_count[c] - 1
    <3>1. node_count'[c] - nodes'[c] = node_count[c] - nodes[c] - 1
      BY <1>3, <1>8, <2>1, <2>3
    <3> QED
      BY <1>1, <1>6, <1>7, <1>8, <2>3, <3>1, CountedStep
  <2> QED
    BY <1>5, <2>2, <2>3
<1>12. StageOK("up", ppant[c], made[c], callback[c], thread_is_running[c], listener_gc[c], thread[c])
  BY <1>9 DEF CtxInv, Stage
<1> QED
  BY <1>2, <1>3, <1>5, <1>6, <1>7, <1>8, <1>9, <1>10, <1>11, <1>12, Places, NodeStep

\* a call begins, or ends with the node made or not; nothing else changes
LEMMA CallStep ==
  ASSUME CtxInv, NEW t \in Threads,
         \/ \E c \in Contexts : RmwCreateNode(t, c) \/ RmwDestroyNode(t, c)
         \/ NodeCreated(t) \/ NodeFails(t)
  PROVE  CtxInv'
<1>1. PICK c \in Contexts : \/ RmwCreateNode(t, c) \/ RmwDestroyNode(t, c)
                            \/ c = on[t] /\ (NodeCreated(t) \/ NodeFails(t))
  BY DEF CtxInv, TypeOK
<1>2. UNCHANGED <<ctx, domain_id, node_count, mutex, ents, disc, doms>>
  BY <1>1 DEF RmwCreateNode, RmwDestroyNode, NodeCreated, NodeFails
<1>3. nodes \in [Contexts -> Nat] /\ node_count[c] \in Nat /\ nodes[c] \in Nat /\ node_count' = node_count
  BY <1>2 DEF CtxInv, TypeOK
<1>4. PICK n \in Nat :
        /\ nodes' = [nodes EXCEPT ![c] = n]
        /\ \/ pc[t] = "idle" /\ pc'[t] = "init" /\ on'[t] = c /\ n = nodes[c] /\ c \in open
           \/ pc[t] = "idle" /\ pc'[t] = "fini" /\ on'[t] = c /\ n = nodes[c] - 1
           \/ pc[t] = "named" /\ pc'[t] = "idle" /\ on[t] = c /\ n = nodes[c] + 1
           \/ pc[t] = "named" /\ pc'[t] = "fini" /\ on[t] = c /\ on'[t] = c /\ n = nodes[c]
  <2>1. CASE RmwCreateNode(t, c)
    <3>1. nodes' = [nodes EXCEPT ![c] = nodes[c]]
      BY <1>3, <2>1 DEF RmwCreateNode
    <3>2. pc[t] = "idle" /\ pc'[t] = "init" /\ on'[t] = c /\ c \in open
      BY <2>1 DEF RmwCreateNode, Goto, CtxInv, TypeOK
    <3> QED
      BY <1>3, <3>1, <3>2
  <2>2. CASE RmwDestroyNode(t, c)
    <3>1. nodes[c] - 1 \in Nat /\ nodes' = [nodes EXCEPT ![c] = nodes[c] - 1]
      BY <1>3, <2>2 DEF RmwDestroyNode
    <3>2. pc[t] = "idle" /\ pc'[t] = "fini" /\ on'[t] = c
      BY <2>2 DEF RmwDestroyNode, Goto, CtxInv, TypeOK
    <3> QED
      BY <3>1, <3>2
  <2>3. CASE c = on[t] /\ NodeCreated(t)
    <3>1. nodes[c] + 1 \in Nat /\ nodes' = [nodes EXCEPT ![c] = nodes[c] + 1]
      BY <1>3, <2>3 DEF NodeCreated
    <3>2. pc[t] = "named" /\ pc'[t] = "idle" /\ on[t] = c
      BY <2>3 DEF NodeCreated, Leave, Goto, CtxInv, TypeOK
    <3> QED
      BY <3>1, <3>2
  <2>4. CASE c = on[t] /\ NodeFails(t)
    <3>1. nodes' = [nodes EXCEPT ![c] = nodes[c]]
      BY <1>3, <2>4 DEF NodeFails
    <3>2. pc[t] = "named" /\ pc'[t] = "fini" /\ on[t] = c /\ on'[t] = c
      BY <2>4 DEF NodeFails, FiniOnFailure, Goto, CtxInv, TypeOK
    <3> QED
      BY <1>3, <3>1, <3>2
  <2> QED
    BY <1>1, <2>1, <2>2, <2>3, <2>4
<1>5. c \in open
  <2>1. RmwDestroyNode(t, c) => nodes[c] > 0
    BY DEF RmwDestroyNode
  <2>2. RmwDestroyNode(t, c) => c \in open
    BY <1>3, <2>1 DEF CtxInv, InUseOpen
  <2>3. RmwCreateNode(t, c) => c \in open
    BY DEF RmwCreateNode
  <2>4. NodeCreated(t) \/ NodeFails(t) => on[t] \in open
    BY DEF NodeCreated, NodeFails, FiniOnFailure, Leave, Goto, CtxInv, InUseOpen
  <2> QED
    BY <1>1, <2>2, <2>3, <2>4
<1>6. TypeOK'
  <2>1. nodes' \in [Contexts -> Nat]
    BY <1>3, <1>4
  <2>2. pc' \in [Threads -> PCs] /\ on' \in [Threads -> Contexts]
    BY <1>1, NonEmptyContexts, Places, SMTT(40)
       DEF CtxInv, TypeOK, RmwCreateNode, RmwDestroyNode, NodeCreated, NodeFails, FiniOnFailure, Leave,
           Goto, AnyContext
  <2> QED
    BY <1>2, <2>1, <2>2 DEF CtxInv, TypeOK, ctx, ents, disc, doms
<1>7. OnlyThread(t)
  BY <1>1 DEF CtxInv, TypeOK, OnlyThread, RmwCreateNode, RmwDestroyNode, NodeCreated, NodeFails,
              FiniOnFailure, Leave, Goto
<1>8. OnlyContext(c) /\ nodes'[c] = n
  BY <1>2, <1>3, <1>4 DEF OnlyContext, ctx, ents, disc
<1>9. pc[t] \notin Locked /\ pc'[t] \notin Locked /\ mutex' = mutex
  BY <1>2, <1>4, Places
<1>10. Owners' /\ \A x \in Contexts \ {c} : Phase(x)' = Phase(x)
  BY <1>3, <1>6, <1>7, <1>8, <1>9, OwnersStep
<1>11. Phase(c)' = Phase(c)
  <2>1. mutex[c] # t /\ mutex[c] \in Threads \cup {NoOne}
    BY <1>9, MutexAssumption DEF CtxInv, Owners, TypeOK
  <2> QED
    BY <1>3, <1>7, <1>9, <2>1 DEF Phase, OnlyThread
<1>12. Counted'
  <2>1. CASE pc[t] = "idle" /\ pc'[t] = "init" /\ n = nodes[c]
    <3>1. node_count'[c] - nodes'[c] = node_count[c] - nodes[c]
      BY <1>3, <1>8, <2>1
    <3> QED
      BY <1>6, <1>7, <1>8, <2>1, <3>1, CountedStep
  <2>2. CASE pc[t] = "idle" /\ pc'[t] = "fini" /\ on'[t] = c /\ n = nodes[c] - 1
    <3>1. node_count'[c] - nodes'[c] = node_count[c] - nodes[c] + 1
      BY <1>3, <1>8, <2>2
    <3> QED
      BY <1>6, <1>7, <1>8, <2>2, <3>1, CountedStep
  <2>3. CASE pc[t] = "named" /\ pc'[t] = "idle" /\ on[t] = c /\ n = nodes[c] + 1
    <3>1. node_count'[c] - nodes'[c] = node_count[c] - nodes[c] - 1
      BY <1>3, <1>8, <2>3
    <3> QED
      BY <1>6, <1>7, <1>8, <2>3, <3>1, CountedStep
  <2>4. CASE pc[t] = "named" /\ pc'[t] = "fini" /\ on[t] = c /\ on'[t] = c /\ n = nodes[c]
    <3>1. node_count'[c] - nodes'[c] = node_count[c] - nodes[c]
      BY <1>3, <1>8, <2>4
    <3> QED
      BY <1>6, <1>7, <1>8, <2>4, <3>1, CountedStep
  <2> QED
    BY <1>4, <2>1, <2>2, <2>3, <2>4
<1>13. /\ StageOK(Phase(c), ppant[c], made[c], callback[c], thread_is_running[c], listener_gc[c], thread[c])
       /\ Phase(c) # "free" => domain_id[c] \in Domains
  BY DEF CtxInv, Stage, Placed
<1> QED
  BY <1>2, <1>4, <1>5, <1>6, <1>7, <1>8, <1>10, <1>11, <1>12, <1>13, NodeStep
-----------------------------------------------------------------------------
(***************************************************************************)
(* rmw_init, rmw_context_fini and the discovery threads.                   *)
(***************************************************************************)
\* a context with no node and no call in progress is free
LEMMA Unused ==
  ASSUME CtxInv, NEW c \in Contexts, nodes[c] = 0, CallsOn(c) = {}
  PROVE  node_count[c] = 0 /\ mutex[c] = NoOne /\ Phase(c) = "free"
<1>1. Named(c) = {}
  BY DEF CallsOn, InCall, Named
<1>2. node_count[c] = 0
  <2>1. Cardinality(Named(c)) = 0
    BY <1>1, FS_EmptySet
  <2> QED
    BY <2>1 DEF CtxInv, TypeOK, Counted
<1>3. mutex[c] = NoOne
  <2> SUFFICES ASSUME mutex[c] # NoOne PROVE FALSE
    OBVIOUS
  <2>1. mutex[c] \in Threads /\ on[mutex[c]] = c /\ pc[mutex[c]] \in Locked
    BY DEF CtxInv, TypeOK, Owners
  <2>2. "idle" \notin Locked
    BY Places
  <2> QED
    BY <2>1, <2>2 DEF CallsOn, InCall
<1> QED
  BY <1>2, <1>3 DEF Phase

\* setting up, or giving up, a context that is free
LEMMA FreeStep ==
  ASSUME CtxInv, TypeOK', NEW c \in Contexts, nodes[c] = 0, CallsOn(c) = {},
         open' \in {open \cup {c}, open \ {c}}, node_count'[c] = 0,
         \A x \in Contexts \ {c} : /\ options'[x] = options[x] /\ domain_id'[x] = domain_id[x]
                                   /\ node_count'[x] = node_count[x],
         UNCHANGED <<mutex, nodes, ents, disc, doms, pc, on>>
  PROVE  CtxInv'
<1>1. node_count[c] = 0 /\ mutex[c] = NoOne /\ Phase(c) = "free"
  BY Unused
<1>2. \A x \in Contexts : node_count'[x] = node_count[x]
  BY <1>1
<1>3. \A x \in Contexts : Phase(x)' = Phase(x)
  BY <1>2 DEF Phase
<1>4. Owners'
  BY <1>2 DEF CtxInv, Owners
<1>5. Counted'
  <2>1. \A x \in Contexts : Named(x)' = Named(x)
    BY DEF Named
  <2> QED
    BY <1>2, <2>1 DEF CtxInv, Counted
<1>6. InUseOpen'
  BY DEF CtxInv, InUseOpen, CallsOn, InCall
<1>7. Placed'
  BY <1>1, <1>3 DEF CtxInv, Placed
<1>8. OnlyContext(c)
  BY DEF OnlyContext, ents, disc
<1>9. \A d \in Domains : Holders(d)' = Holders(d)
  BY <1>1, <1>3, <1>4, <1>8, Places, HoldersStep
<1>10. \A d \in Domains : c \notin Holders(d)
  BY <1>1, Places, PhaseOfHolders DEF CtxInv, HoldersByPhase
<1>11. \A d \in Domains : \A x \in Holders(d) : options'[x] = options[x]
  BY <1>10 DEF Holders
<1>12. Covered' /\ RefcountCovers'
  BY <1>9, <1>11, BooksKept
<1>13. \A x \in Contexts : Stage(x)'
  BY <1>3 DEF CtxInv, Stage, ents, disc
<1> QED
  BY <1>4, <1>5, <1>6, <1>7, <1>12, <1>13 DEF CtxInv

\* rmw_init
LEMMA RmwInitStep ==
  ASSUME CtxInv, NEW c \in Contexts, NEW d \in Domains, NEW o \in Options, RmwInit(c, d, o)
  PROVE  CtxInv'
<1>1. nodes[c] = 0 /\ CallsOn(c) = {}
  BY DEF RmwInit, CtxInv, InUseOpen, CallsOn, InCall
<1>2. TypeOK'
  BY DEF RmwInit, CtxInv, TypeOK, ents, disc, doms
<1>3. /\ open' = open \cup {c} /\ node_count'[c] = 0
      /\ \A x \in Contexts \ {c} : /\ options'[x] = options[x] /\ domain_id'[x] = domain_id[x]
                                   /\ node_count'[x] = node_count[x]
      /\ UNCHANGED <<mutex, nodes, ents, disc, doms, pc, on>>
  BY DEF RmwInit, CtxInv, TypeOK
<1> QED
  BY <1>1, <1>2, <1>3, FreeStep

\* rmw_context_fini
LEMMA RmwContextFiniStep ==
  ASSUME CtxInv, NEW c \in Contexts, RmwContextFini(c)
  PROVE  CtxInv'
<1>1. nodes[c] = 0 /\ CallsOn(c) = {} /\ node_count' = node_count
  BY DEF RmwContextFini
<1>2. TypeOK'
  BY NonEmptyContexts DEF RmwContextFini, CtxInv, TypeOK, ents, disc, doms, AnyOptions, AnyDomain
<1>3. /\ open' = open \ {c} /\ node_count'[c] = 0
      /\ \A x \in Contexts \ {c} : /\ options'[x] = options[x] /\ domain_id'[x] = domain_id[x]
                                   /\ node_count'[x] = node_count[x]
      /\ UNCHANGED <<mutex, nodes, ents, disc, doms, pc, on>>
  BY <1>1, Unused DEF RmwContextFini, CtxInv, TypeOK
<1> QED
  BY <1>1, <1>2, <1>3, FreeStep

\* a step that is nobody's but a discovery thread's or a reader's, or changes
\* only is_shutdown: the discovery thread stays, or stays away
LEMMA QuietStep ==
  ASSUME CtxInv, TypeOK', \A c \in Contexts : thread'[c] = "none" <=> thread[c] = "none",
         UNCHANGED <<open, options, domain_id, node_count, mutex, nodes, ents, thread_is_running,
                     listener_gc, doms, pc, on>>
  PROVE  CtxInv'
<1>1. \A c \in Contexts : Phase(c)' = Phase(c) /\ Named(c)' = Named(c)
  BY DEF Phase, Named
<1>2. \A d \in Domains : Holders(d)' = Holders(d)
  BY DEF Holders, Holds
<1>3. Covered' /\ RefcountCovers'
  BY <1>2, BooksKept
<1>4. \A c \in Contexts : Stage(c)'
  BY <1>1 DEF CtxInv, Stage, StageOK, ents
<1>5. Owners' /\ Counted' /\ InUseOpen' /\ Placed'
  BY <1>1 DEF CtxInv, Owners, Counted, InUseOpen, Placed
<1> QED
  BY <1>3, <1>4, <1>5 DEF CtxInv

\* the discovery thread and its readers, and rmw_shutdown
LEMMA QuietSteps ==
  ASSUME CtxInv, NEW c \in Contexts, DiscoveryStep(c) \/ NewsArrives(c) \/ RmwShutdown(c)
  PROVE  CtxInv'
<1>1. UNCHANGED <<open, options, domain_id, node_count, mutex, nodes, ents, thread_is_running,
                  listener_gc, doms, pc, on>>
  BY DEF DiscoveryStep, SetUp, SetUpFails, CheckRunning, WakeUp, WaitFails, Handle, NewsArrives,
         RmwShutdown, AllButThread, ctx, disc
<1>2. /\ is_shutdown' \in [Contexts -> BOOLEAN] /\ actual_domain_id' = actual_domain_id
      /\ waitset' \in [Contexts -> BOOLEAN] /\ news' \in [Contexts -> BOOLEAN]
  BY DEF CtxInv, TypeOK, DiscoveryStep, SetUp, SetUpFails, CheckRunning, WakeUp, WaitFails, Handle,
         NewsArrives, RmwShutdown, AllButThread, ctx, disc
<1>3. /\ thread' \in [Contexts -> {"none", "setup", "check", "wait", "handle", "done"}]
      /\ \A x \in Contexts : thread'[x] = "none" <=> thread[x] = "none"
  BY DEF CtxInv, TypeOK, DiscoveryStep, SetUp, SetUpFails, CheckRunning, WakeUp, WaitFails, Handle,
         NewsArrives, RmwShutdown, Move, disc
<1>4. TypeOK'
  BY <1>1, <1>2, <1>3 DEF CtxInv, TypeOK, ents, doms
<1> QED
  BY <1>1, <1>3, <1>4, QuietStep

-----------------------------------------------------------------------------
(***************************************************************************)
(* The invariant holds.                                                    *)
(***************************************************************************)
\* at first every context is free and nobody is in a domain
LEMMA CtxInit == Init => CtxInv
<1> SUFFICES ASSUME Init PROVE CtxInv
  OBVIOUS
<1>1. TypeOK
  BY NonEmptyContexts, Places DEF Init, TypeOK, AnyContext, AnyDomain, AnyOptions
<1>2. Owners
  BY Places DEF Init, Owners
<1>3. \A c \in Contexts : Phase(c) = "free"
  BY DEF Init, Phase
<1>4. Counted
  <2>1. \A c \in Contexts : Named(c) = {}
    BY DEF Init, Named
  <2>2. \A c \in Contexts : Cardinality(Named(c)) = 0
    BY <2>1, FS_EmptySet
  <2> QED
    BY <2>2 DEF Init, Counted
<1>5. InUseOpen /\ Placed
  BY <1>3 DEF Init, InUseOpen, Placed
<1>6. \A d \in Domains : Holders(d) = {} /\ Cardinality(Holders(d)) = 0
  <2>1. \A d \in Domains : Holders(d) = {}
    BY <1>1, <1>2, <1>3, Places, PhaseOfHolders DEF HoldersByPhase
  <2> QED
    BY <2>1, FS_EmptySet
<1>7. Covered
  BY <1>6 DEF Init, Covered
<1>8. RefcountCovers
  <2>1. \A d \in Domains : ~Stranded(d) /\ Unreturned(d) = 0
    BY DEF Init, Stranded, Unreturned
  <2> QED
    BY <1>6, <2>1 DEF Init, RefcountCovers
<1>9. \A c \in Contexts : Stage(c)
  BY <1>3 DEF Init, Stage, StageOK
<1> QED
  BY <1>1, <1>2, <1>4, <1>5, <1>7, <1>8, <1>9 DEF CtxInv

\* every step keeps it
LEMMA CtxNext == CtxInv /\ [Next]_vars => CtxInv'
<1> SUFFICES ASSUME CtxInv, [Next]_vars PROVE CtxInv'
  OBVIOUS
<1>1. ASSUME NEW c \in Contexts,
             \/ \E d \in Domains, o \in Options : RmwInit(c, d, o)
             \/ RmwShutdown(c) \/ RmwContextFini(c)
             \/ NewsArrives(c) \/ DiscoveryStep(c)
      PROVE  CtxInv'
  BY <1>1, RmwInitStep, RmwContextFiniStep, QuietSteps
<1>2. ASSUME NEW t \in Threads, \E c \in Contexts : RmwCreateNode(t, c) \/ RmwDestroyNode(t, c)
      PROVE  CtxInv'
  BY <1>2, CallStep
<1>3. ASSUME NEW t \in Threads, LockStep(t) PROVE CtxInv'
  BY <1>3, CountStep, InitFirstStep, FiniLastStep DEF LockStep
<1>4. ASSUME NEW t \in Threads, InitStep(t) PROVE CtxInv'
  BY <1>4, EnterStep, NoDomainStep, CreateParticipantStep, CreateReadersFailStep, CreatePubStep,
     CreateSubStep, CreateGraphGuardStep, ThreadStartStep, InitDoneStep, InitFailsStep, CallStep
     DEF InitStep
<1>5. ASSUME NEW t \in Threads, CleanUpStep(t) PROVE CtxInv'
  <2>1. CASE DiscoveryThreadStop(t)
    <3>1. CASE thread_is_running[on[t]]
      BY <2>1, <3>1, StopStep
    <3>2. CASE ~thread_is_running[on[t]]
      BY <2>1, <3>2, StopStep
    <3> QED
      BY <3>1, <3>2
  <2>2. CASE ~DiscoveryThreadStop(t)
    BY <1>5, <2>2, TriggerStep, JoinStep, ClearCallbackStep, DestroyGuardStep, DestroyPubStep,
       DestroySubStep, DeleteParticipantStep, LeaveStep DEF CleanUpStep
  <2> QED
    BY <2>1, <2>2
<1>6. CASE UNCHANGED vars
  <2>1. TypeOK'
    BY <1>6 DEF CtxInv, TypeOK, vars, ctx, ents, disc, doms
  <2> QED
    BY <1>6, <2>1, QuietStep DEF vars, ctx, disc
<1> QED
  BY <1>1, <1>2, <1>3, <1>4, <1>5, <1>6 DEF Next

\* so it holds in every reachable state
LEMMA CtxAlways == Spec => []CtxInv
  BY CtxInit, CtxNext, PTL DEF Spec

-----------------------------------------------------------------------------
(***************************************************************************)
(* What follows from it.                                                   *)
(***************************************************************************)
\* every variable has its type, for any number of nodes in a context
THEOREM ContextTypeCorrect == Spec => []TypeOK
<1>1. CtxInv => TypeOK
  BY DEF CtxInv
<1> QED
  BY <1>1, CtxAlways, PTL

\* gcdds().domains counts every context in a domain once, whatever fails and
\* whoever comes and goes, and nobody else but, once in a domain that was never
\* made, a context that was refused for its discovery range
THEOREM RefcountAlwaysCovers == Spec => []RefcountCovers
<1>1. CtxInv => RefcountCovers
  BY DEF CtxInv
<1> QED
  BY <1>1, CtxAlways, PTL

\* so it has exactly the domains in use and counts the contexts in each when all
\* options have a discovery range: 1154 leaves a reference for one that is not set
THEOREM RefcountAlwaysExact == NotSet \notin Options => (Spec => []RefcountExact)
<1> SUFFICES ASSUME NotSet \notin Options PROVE Spec => []RefcountExact
  OBVIOUS
<1>1. CtxInv => RefcountExact
  <2> SUFFICES ASSUME CtxInv, NEW d \in Domains
               PROVE  /\ refcount[d] = Cardinality(Holders(d))
                      /\ d \in entry <=> Holders(d) # {}
                      /\ domain_handle[d] <=> d \in entry
    BY DEF RefcountExact
  <2>1. /\ refcount[d] = Cardinality(Holders(d)) + Unreturned(d)
        /\ d \in entry <=> refcount[d] # 0
        /\ domain_handle[d] => d \in entry
        /\ Stranded(d) => discovery_options[d] = NotSet
    BY DEF CtxInv, RefcountCovers
  <2>2. ~Stranded(d) /\ Unreturned(d) = 0
    BY <2>1 DEF CtxInv, TypeOK, Unreturned
  <2>3. refcount[d] = Cardinality(Holders(d))
    BY <2>1, <2>2, Countable
  <2>4. Cardinality(Holders(d)) = 0 <=> Holders(d) = {}
    BY Countable, FS_EmptySet
  <2> QED
    BY <2>1, <2>2, <2>3, <2>4 DEF Stranded
<1> QED
  BY <1>1, CtxAlways, PTL

\* contexts that share a domain do not delete one another's participant, and
\* all were given the same discovery options; with NotSet too
THEOREM DomainAlwaysSharedSafely == Spec => []DomainSharedSafely
<1>1. CtxInv => DomainSharedSafely
  <2> SUFFICES ASSUME CtxInv PROVE DomainSharedSafely
    OBVIOUS
  <2>1. ASSUME NEW c \in Contexts PROVE ppant[c] # "lost"
    BY DEF CtxInv, Stage, StageOK
  <2>2. ASSUME NEW c \in Contexts, ppant[c] = "up"
        PROVE  /\ domain_id[c] \in Domains
               /\ discovery_options[domain_id[c]] = options[c]
    <3>1. Phase(c) \notin {"free", "domain"}
      BY <2>2 DEF CtxInv, Stage, StageOK
    <3>2. Phase(c) \in {"free", "up"} \cup Locked
      BY DEF CtxInv, TypeOK, Owners, Phase
    <3>3. Phase(c) \in InDomain /\ domain_id[c] \in Domains
      BY <3>1, <3>2, Places DEF CtxInv, Placed
    <3>4. c \in Holders(domain_id[c])
      BY <3>3, PhaseOfHolders DEF CtxInv, HoldersByPhase
    <3> QED
      BY <3>3, <3>4 DEF CtxInv, Covered
  <2> QED
    BY <2>1, <2>2 DEF DomainSharedSafely
<1> QED
  BY <1>1, CtxAlways, PTL

\* the discovery thread never outlives what it waits on, and its callback never
\* outlives the guard condition it triggers
THEOREM ThreadAlwaysUsesLive == Spec => []ThreadUsesLive
<1>1. CtxInv => ThreadUsesLive
  <2> SUFFICES ASSUME CtxInv, NEW c \in Contexts
               PROVE  /\ thread[c] \notin {"none", "done"} =>
                           /\ ppant[c] = "up" /\ "sub" \in made[c]
                           /\ listener_gc[c] # "none" /\ callback[c]
                      /\ callback[c] => "gc" \in made[c]
    BY DEF ThreadUsesLive
  <2>1. Stage(c)
    BY DEF CtxInv
  <2> QED
    BY <2>1 DEF Stage, StageOK, All
<1> QED
  BY <1>1, CtxAlways, PTL

\* a context without nodes and without calls in progress has nothing left
THEOREM EverythingAlwaysResets == Spec => []EverythingResets
<1>1. CtxInv => EverythingResets
  <2> SUFFICES ASSUME CtxInv, NEW c \in Contexts, nodes[c] = 0, CallsOn(c) = {}
               PROVE  /\ node_count[c] = 0 /\ mutex[c] = NoOne
                      /\ ppant[c] = "none" /\ made[c] = {} /\ ~callback[c]
                      /\ ~thread_is_running[c] /\ thread[c] = "none" /\ listener_gc[c] = "none"
    BY DEF EverythingResets
  <2>1. Stage(c) /\ node_count[c] = 0 /\ mutex[c] = NoOne /\ Phase(c) = "free"
    BY Unused DEF CtxInv
  <2> QED
    BY <2>1 DEF Stage, StageOK
<1> QED
  BY <1>1, CtxAlways, PTL
=============================================================================
