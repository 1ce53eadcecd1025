---------------------------- MODULE WaitContract ----------------------------
(***************************************************************************)
(* What rmw_wait promises about the entities it is given, without          *)
(* waitsets, caches or attachments: a thread asks for a set of conditions  *)
(* and is told which of them were on at one instant of its call; a guard   *)
(* condition it is told about may be switched off on the way out.          *)
(***************************************************************************)
CONSTANTS Threads, Conditions

VARIABLES on,      \* the conditions that are triggered
          phase,   \* per thread, "out", "waiting" or "woken"
          asked,   \* what a waiting thread waits for
          told     \* what a woken thread reports

vars == <<on, phase, asked, told>>

Init ==
  /\ on = {}
  /\ phase = [t \in Threads |-> "out"]
  /\ asked = [t \in Threads |-> {}] /\ told = [t \in Threads |-> {}]

Ask(t) ==
  /\ phase[t] = "out"
  /\ phase' = [phase EXCEPT ![t] = "waiting"]
  /\ \E A \in SUBSET Conditions : asked' = [asked EXCEPT ![t] = A]
  /\ UNCHANGED <<on, told>>

\* something asked for is on: all of it is told.  With nothing on the thread
\* comes back empty-handed (timeout, or an event of another kind)
Wake(t) ==
  /\ phase[t] = "waiting"
  /\ phase' = [phase EXCEPT ![t] = "woken"]
  /\ told' = [told EXCEPT ![t] = asked[t] \cap on]
  /\ asked' = [asked EXCEPT ![t] = {}]
  /\ UNCHANGED on

\* the call fails before it waited
GiveUp(t) ==
  /\ phase[t] = "waiting"
  /\ phase' = [phase EXCEPT ![t] = "out"]
  /\ asked' = [asked EXCEPT ![t] = {}]
  /\ UNCHANGED <<on, told>>

\* only what is told is switched off
Leave(t) ==
  /\ phase[t] = "woken"
  /\ phase' = [phase EXCEPT ![t] = "out"]
  /\ told' = [told EXCEPT ![t] = {}]
  /\ \E G \in SUBSET told[t] : on' = on \ G
  /\ UNCHANGED asked

\* entities trigger, data is taken, entities are deleted
Environment ==
  /\ on' \in SUBSET Conditions
  /\ UNCHANGED <<phase, asked, told>>

Next == Environment \/ \E t \in Threads : Ask(t) \/ Wake(t) \/ GiveUp(t) \/ Leave(t)

\* a thread that was asked for something that stays on comes back, and a
\* woken thread leaves
MustWake(t) == asked[t] \cap on # {} /\ (Wake(t) \/ GiveUp(t))
Spec == Init /\ [][Next]_vars
FairSpec == Spec /\ \A t \in Threads : WF_vars(MustWake(t)) /\ WF_vars(Leave(t))
=============================================================================
