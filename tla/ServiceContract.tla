-------------------------- MODULE ServiceContract --------------------------
(***************************************************************************)
(* What clients and services may rely on, without endpoints, discovery,    *)
(* samples or polling: a service works on a request that was sent, it      *)
(* answers or drops it, and a client gets what a service answered, to a    *)
(* request of its own.  Nothing says that anything arrives.                *)
(***************************************************************************)
CONSTANTS Clients, Services, Seqs,
          Nothing      \* what a service works on between two requests

VARIABLES sent,       \* per client, the ids of its requests
          work,       \* per service, the request it works on
          answered,   \* the responses given, by whom and to which request
          got         \* per client, the requests it has a response to

vars == <<sent, work, answered, got>>

Init ==
  /\ sent = [c \in Clients |-> {}] /\ work = [s \in Services |-> Nothing]
  /\ answered = {} /\ got = [c \in Clients |-> {}]

\* no two requests share an id, whoever sends them, until all ids are used
Unused(q) == \A c \in Clients : q \notin sent[c]
AllUsed == \A q \in Seqs : ~Unused(q)
Send(c) ==
  /\ \E q \in Seqs : /\ Unused(q) \/ AllUsed
                     /\ sent' = [sent EXCEPT ![c] = @ \cup {q}]
  /\ UNCHANGED <<work, answered, got>>

Accept(s) ==
  /\ work[s] = Nothing
  /\ \E c \in Clients : \E q \in sent[c] : work' = [work EXCEPT ![s] = [guid |-> c, seq |-> q]]
  /\ UNCHANGED <<sent, answered, got>>

Finish(s) == work[s] # Nothing /\ work' = [work EXCEPT ![s] = Nothing]
Drop(s) == Finish(s) /\ UNCHANGED <<sent, answered, got>>
Answer(s) ==
  /\ Finish(s)
  /\ answered' = answered \cup {[from |-> s, req |-> work[s]]}
  /\ UNCHANGED <<sent, got>>

Get(c) ==
  /\ \E a \in answered : a.req.guid = c /\ got' = [got EXCEPT ![c] = @ \cup {a.req}]
  /\ UNCHANGED <<sent, work, answered>>

Next ==
  \/ \E c \in Clients : Send(c) \/ Get(c)
  \/ \E s \in Services : Accept(s) \/ Drop(s) \/ Answer(s)

Spec == Init /\ [][Next]_vars
=============================================================================
