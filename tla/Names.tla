------------------------------- MODULE Names -------------------------------
(***************************************************************************)
(* Names in DDS of ROS topics, services and types, and back (rmw_node.cpp: *)
(* make_fqtopic; type_name.cpp; demangle.cpp).                             *)
(*                                                                         *)
(* A name is a sequence of tokens: "rt", "rq", "rr", "/", "::", "__",      *)
(* "dds_::", "_", "Request", "Reply", "Response" or anything else.         *)
(***************************************************************************)
EXTENDS Integers, Sequences

\* a full name of a topic or service, as rmw_validate_full_topic_name wants it
Qualified(name) == name \in Seq(STRING) /\ name # <<>> /\ name[1] = "/"

Nothing    == <<>>                       \* ""
OutOfRange == <<"std::out_of_range">>    \* the exception at() throws

Ends(n, s) ==    \* n ends in s
  Len(n) >= Len(s) /\ SubSeq(n, Len(n) - Len(s) + 1, Len(n)) = s
Cut(n, k) == SubSeq(n, 1, Len(n) - k)
Swap(n, old, new) == [i \in DOMAIN n |-> IF n[i] = old THEN new ELSE n[i]]
Smallest(S) == CHOOSE i \in S : \A j \in S : i <= j
Largest(S)  == CHOOSE i \in S : \A j \in S : i >= j
At(n, s) == {i \in DOMAIN n : i + Len(s) - 1 <= Len(n) /\ SubSeq(n, i, i + Len(s) - 1) = s}

(***************************************************************************)
(* Topics.                                                                 *)
(***************************************************************************)
make_fqtopic(prefix, name, suffix, avoid_ros_namespace_conventions) ==
  (IF avoid_ros_namespace_conventions THEN <<>> ELSE <<prefix>>) \o name \o suffix

resolve_prefix(name, prefix) ==
  IF name = <<>> \/ name[1] # prefix THEN Nothing
  ELSE IF Len(name) = 1 THEN OutOfRange
  ELSE IF name[2] = "/" THEN Tail(name) ELSE Nothing

demangle_ros_topic(name) == resolve_prefix(name, "rt")

\* the suffix counts where it occurs last
FirstSuffix(name, suffix) ==    \* (a variant that gets it wrong)
  IF At(name, suffix) = {} \/ Smallest(At(name, suffix)) + Len(suffix) - 1 # Len(name)
    THEN Nothing ELSE Cut(name, Len(suffix))
WithoutSuffix(name, suffix) ==
  IF At(name, suffix) = {} \/ Largest(At(name, suffix)) + Len(suffix) - 1 # Len(name)
    THEN Nothing ELSE Cut(name, Len(suffix))
demangle_service(prefix, name, suffix) ==
  LET service == resolve_prefix(name, prefix) IN
  IF service \in {Nothing, OutOfRange} THEN service ELSE WithoutSuffix(service, suffix)
demangle_request(name) == demangle_service("rq", name, <<"Request">>)
demangle_reply(name)   == demangle_service("rr", name, <<"Reply">>)
demangle_service_from_topic(name) ==
  IF demangle_reply(name) # Nothing THEN demangle_reply(name) ELSE demangle_request(name)

(***************************************************************************)
(* Types.  suffix is <<>> for a message, and <<"Request", "_">> or         *)
(* <<"Response", "_">> for the two of a service.                           *)
(***************************************************************************)
AsInC(namespace) == namespace    \* (a variant that gets it wrong)
AsInCpp(namespace) == Swap(namespace, "__", "::")
get_type_name(namespace, name, suffix) ==
  (IF namespace = <<>> THEN <<>> ELSE AsInCpp(namespace) \o <<"::">>)
    \o <<"dds_::">> \o name \o <<"_">> \o suffix

demangle_if_ros_type(type) ==
  LET at == At(type, <<"dds_::">>) IN
  IF ~Ends(type, <<"_">>) \/ at = {} THEN type
  ELSE Swap(SubSeq(type, 1, Smallest(at) - 1), "::", "/")
         \o SubSeq(type, Smallest(at) + 1, Len(type) - 1)

\* where "_Response_" or "_Request_" begins; a "_Request_" that is found is
\* taken even if it is not at the end
SuffixOf(type) ==
  IF Ends(type, <<"_", "Response", "_">>) THEN Len(type) - 2
  ELSE IF At(type, <<"_", "Request", "_">>) = {} THEN 0
  ELSE Largest(At(type, <<"_", "Request", "_">>))
demangle_service_type_only(type) ==
  LET at == At(type, <<"dds_::">>)
      start == Smallest(at) + 1
      end == IF SuffixOf(type) < start THEN Len(type) ELSE SuffixOf(type) - 1
  IN  IF at = {} \/ SuffixOf(type) = 0 THEN Nothing
      ELSE Swap(SubSeq(type, 1, start - 2), "::", "/") \o SubSeq(type, start, end)

(***************************************************************************)
(* What the conversions promise for the names ROS allows.                  *)
(***************************************************************************)
\* a topic or service is listed under its own name, and as what it is: "the
\* topic name for a given topic if it is part of one, else """ (demangle.cpp)
ComesBack(name) ==
  LET topic   == make_fqtopic("rt", name, <<>>, FALSE)
      request == make_fqtopic("rq", name, <<"Request">>, FALSE)
      reply   == make_fqtopic("rr", name, <<"Reply">>, FALSE)
  IN  /\ demangle_ros_topic(topic) = name
      /\ demangle_service_from_topic(topic) = Nothing
      /\ \A n \in {request, reply} : demangle_ros_topic(n) = Nothing
                                     /\ demangle_service_from_topic(n) = name
      /\ demangle_request(request) = name /\ demangle_request(reply) = Nothing
      /\ demangle_reply(reply) = name /\ demangle_reply(request) = Nothing

\* types get the same name from C ("pkg__srv") and C++ ("pkg::srv"), so that
\* their endpoints match, and are listed as "pkg/srv/Name"
TypeComesBack(package, name) ==
  LET c   == <<package, "__", "srv">>
      cpp == <<package, "::", "srv">>
      ros == <<package, "/", "srv", "/">> \o name
  IN  \A suffix \in {<<"Request", "_">>, <<"Response", "_">>} :
        LET type == get_type_name(c, name, suffix) IN
        /\ type = get_type_name(cpp, name, suffix)
        /\ demangle_service_type_only(type) = ros
        /\ demangle_if_ros_type(get_type_name(c, name, <<>>)) = ros
        /\ demangle_service_type_only(get_type_name(c, name, <<>>)) = Nothing
=============================================================================
