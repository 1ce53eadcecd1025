----------------------------- MODULE MCWaitset -----------------------------
(***************************************************************************)
(* Small instances of Waitset: the argument lists the configurations pass  *)
(* to rmw_wait, over the addresses a1 and a2.                              *)
(***************************************************************************)
EXTENDS Waitset, TLC

CONSTANTS a1, a2

Ent(k, a) == [kind |-> k, addr |-> a]
Ev(a, ty) == [addr |-> a, type |-> ty]
Call(es, vs, f) == [ents |-> es, evs |-> vs, finite |-> f]

\* "qs" is a status only readers have, "qp" one only writers have, "ic" that of
\* an incompatible type (DDS_INCONSISTENT_TOPIC, which neither has); they are
\* all supported: rmw_*_event_init refuses to make events of other types
Statuses == {"qs", "rs", "qp", "ic"}
IncompatibleType == {"ic"}
StatusTable == [k \in Kinds |->
  IF k = "pub" THEN {"qp"} ELSE IF k = "gc" THEN {} ELSE {"qs", "rs"}]

NoStatuses == {}
NoStatusTable == [k \in Kinds |-> {}]

\* two threads, two waitsets, a subscription and guard conditions that recycle
\* addresses, and waiting for nothing at all
SharedCalls ==
  {Call(<<>>, <<>>, FALSE),
   Call(<<Ent("gc", a1)>>, <<>>, FALSE),
   Call(<<Ent("sub", a1), Ent("gc", a2)>>, <<>>, TRUE)}
SharedSymmetry ==    \* no configuration tells these apart
  Permutations(Handles) \cup Permutations(Waiters) \cup Permutations(Destroyers)

\* for the liveness properties: one guard condition, or two
LiveCalls ==
  {Call(<<Ent("gc", a1)>>, <<>>, FALSE),
   Call(<<Ent("gc", a1), Ent("gc", a2)>>, <<>>, FALSE)}

\* events of a publisher and of a subscription, some the entity cannot have
EventCalls ==
  {Call(<<>>, <<Ev(a1, "qs"), Ev(a1, "rs")>>, FALSE),
   Call(<<Ent("sub", a1)>>, <<Ev(a1, "qs"), Ev(a1, "ic")>>, TRUE),
   Call(<<>>, <<Ev(a1, "ic")>>, TRUE),
   Call(<<Ent("sub", a1)>>, <<>>, TRUE),
   Call(<<>>, <<Ev(a1, "qp")>>, FALSE)}
=============================================================================
