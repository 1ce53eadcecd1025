------------------------------ MODULE MCGraph ------------------------------
(***************************************************************************)
(* A small instance of Graph: a client here, a server and a subscription   *)
(* elsewhere, all of one name, and one that ends as the DDS topic of a     *)
(* request does.                                                           *)
(***************************************************************************)
EXTENDS Graph, TLC

CONSTANTS client, server, subscription, r1

Kinds == client :> "cli" @@ server :> "srv" @@ subscription :> "sub"
Named == [e \in {client, server, subscription} |-> <<"/", "Request">>]
Owner == [e \in {server, subscription} |-> r1]

\* names of up to three parts, and the words the conversions look for as names
Words == {"/", "a", "rt", "rq", "Request", "Reply"}
TopicNames == {<<"/">> \o n : n \in UNION {[1..k -> Words] : k \in 1..3}}
TypeNames == {<<"Type">>, <<"Request">>, <<"Response">>}

\* what is mangled comes back when it is demangled, and only as what it was (no
\* state changes that: it is evaluated once, before anything is cached)
NamesComeBack ==
  cached = {} => /\ \A n \in TopicNames : ComesBack(n)
                 /\ \A n \in TypeNames : TypeComesBack("pkg", n)
=============================================================================
