------------------------------- MODULE Reader -------------------------------
(***************************************************************************)
(* What arrives at one reader, how the application hears of it and how it  *)
(* takes it (rmw_node.cpp: dds_listener_callback, on_*_fn,                 *)
(* rmw_*_set_on_new_*_callback, rmw_event_set_callback, rmw_take_int,      *)
(* rmw_take_ser_int, rmw_take_seq and the conversion of the history depth).*)
(*                                                                         *)
(* Cyclone stores a sample and then calls the listener, from a thread of   *)
(* its own; the application sets and removes its callback, and takes, from *)
(* others.  An event-driven application takes once for every event the     *)
(* callback announces: a sample that is announced too rarely stays in the  *)
(* reader until the next one arrives.                                      *)
(***************************************************************************)
EXTENDS Integers, Sequences, FiniteSets

CONSTANTS Kinds,       \* what is listened to: "sub", "cs" (a client or a
                       \*   service) or "event" (a status of an entity)
          Profiles,    \* rmw_qos_profile_t as far as history goes
          Instances,   \* of the topic: one for each value of its key, or one
          Takers,      \* threads that take
          NoSample,
          Capacity,    \* of the arrays given to rmw_take_sequence
          MaxSamples,  \* bound: samples, or status changes, that arrive
          MaxErrors    \* bound: how often dds_take fails

Unlimited == -1                              \* DDS_LENGTH_UNLIMITED
Histories == {"SYSTEM_DEFAULT", "KEEP_LAST", "KEEP_ALL"}

ASSUME KindAssumption    == Kinds \subseteq {"sub", "cs", "event"}
ASSUME ProfileAssumption == Profiles \subseteq [history : Histories, depth : Nat]
ASSUME BoundAssumption   == Capacity \in Nat \ {0} /\ {MaxSamples, MaxErrors} \subseteq Nat

Samples == [n : 1..MaxSamples, valid : BOOLEAN, of : Instances]
ASSUME NoSampleAssumption == NoSample \notin Samples
ASSUME TakersAssumption   == IsFiniteSet(Takers)

VARIABLES
  kind, depth,     \* of the entity, fixed when it is created; depth as in DDS
  history,         \* the samples in the reader, oldest first
  arrived,         \* how many were stored
  pending,         \* how many the listener is still to be called for
  \* user_callback_data_t
  callback,        \* is one set?
  unread_count,    \* or event_unread_count of the status
  \* the application
  announced,       \* the sum of what its callbacks were told
  started,         \* calls of rmw_take it made for them
  errors,          \* how many of them dds_take failed in
  pc, last, ret,   \* per taker: where, the sample it got, the return code
  seq              \* what the last rmw_take_sequence left in its arrays

dds   == <<kind, depth, history, arrived>>
cb    == <<callback, unread_count>>
taker == <<pc, last, ret>>
vars  == <<dds, pending, cb, announced, started, errors, taker, seq>>

\* where the samples with data are, in order, and the samples there
Ascending(S) == CHOOSE q \in [1..Cardinality(S) -> S] : \A i, j \in DOMAIN q : i < j => q[i] < q[j]
ValidAt(h)   == {i \in DOMAIN h : h[i].valid}
Good(h)      == [k \in 1..Cardinality(ValidAt(h)) |-> h[Ascending(ValidAt(h))[k]]]

(***************************************************************************)
(* The history depth: from the profile to DDS (create_readwrite_qos) and   *)
(* back (dds_qos_to_rmw_qos).                                              *)
(***************************************************************************)
DepthAsGiven(p) == IF p.history = "KEEP_ALL" THEN Unlimited ELSE p.depth   \* (wrong)
HistoryDepth(p) ==
  IF p.history = "KEEP_ALL" THEN Unlimited
  ELSE IF p.depth = 0 THEN 1 ELSE p.depth    \* 0 is DEPTH_SYSTEM_DEFAULT
DepthReported(d) == IF d = Unlimited THEN 0 ELSE d

NoSeq == [took |-> <<>>, data |-> <<>>, infos |-> <<>>, size |-> 0]

Init ==
  /\ kind \in Kinds
  /\ \E p \in Profiles : depth = HistoryDepth(p)
  /\ history = <<>> /\ arrived = 0 /\ pending = 0
  /\ callback = FALSE /\ unread_count = 0
  /\ announced = 0 /\ started = 0 /\ errors = 0
  /\ pc = [t \in Takers |-> "idle"] /\ last = [t \in Takers |-> NoSample]
  /\ ret = [t \in Takers |-> "OK"]
  /\ seq = NoSeq

(***************************************************************************)
(* Cyclone.                                                                *)
(***************************************************************************)
\* each instance keeps the last depth samples with data: when it has as many, the
\* oldest gives way
Without(h, i)    == SubSeq(h, 1, i - 1) \o SubSeq(h, i + 1, Len(h))
OfInstance(h, k) == {i \in ValidAt(h) : h[i].of = k}
MakeRoom(h, k) ==
  LET S == OfInstance(h, k) IN
  IF Cardinality(S) = depth THEN Without(h, CHOOSE i \in S : \A j \in S : i <= j) ELSE h

\* a sample is stored, or a status changes; a sample without valid data tells
\* that an instance was disposed of or lost its writers
Arrive(valid, k) ==
  /\ arrived < MaxSamples
  /\ arrived' = arrived + 1 /\ pending' = pending + 1
  /\ history' = IF kind = "event" THEN history
                ELSE Append(IF valid THEN MakeRoom(history, k) ELSE history,
                            [n |-> arrived + 1, valid |-> valid, of |-> k])
  /\ UNCHANGED <<kind, depth, cb, announced, started, errors, taker, seq>>

(***************************************************************************)
(* Callbacks; user_callback_data_t's mutex makes each of these one step.   *)
(***************************************************************************)
\* dds_listener_callback, on_*_fn
Listener ==
  /\ pending > 0
  /\ pending' = pending - 1
  /\ IF callback THEN announced' = announced + 1 /\ UNCHANGED unread_count
                 ELSE unread_count' = unread_count + 1 /\ UNCHANGED announced
  /\ UNCHANGED <<dds, callback, started, errors, taker, seq>>

ClipsToZero(n) ==                \* (the code before CHANGELOG.rst 4.2.1, #584)
  IF kind = "sub" /\ DepthReported(depth) < n THEN DepthReported(depth) ELSE n
\* what is replayed of n unread events: a subscription that does not keep all
\* announces no more than the depth, which is what one instance can hold
Events(n) ==
  IF kind = "sub" /\ DepthReported(depth) \in 1..n THEN DepthReported(depth) ELSE n

\* rmw_*_set_on_new_*_callback and rmw_event_set_callback, with a callback
KeepsCount ==                    \* (a variant that gets it wrong)
  /\ callback' = TRUE
  /\ announced' = announced + Events(unread_count)
  /\ UNCHANGED <<dds, pending, unread_count, started, errors, taker, seq>>
SetCallback ==
  /\ callback' = TRUE
  /\ announced' = announced + Events(unread_count) /\ unread_count' = 0
  /\ UNCHANGED <<dds, pending, started, errors, taker, seq>>

\* the QoS of the reader cannot be read: an error, but the callback is set
SetCallbackFails ==
  /\ kind = "sub" /\ unread_count > 0
  /\ callback' = TRUE
  /\ UNCHANGED <<dds, pending, unread_count, announced, started, errors, taker, seq>>

ClearCallback ==                 \* with a null callback
  /\ callback' = FALSE
  /\ UNCHANGED <<dds, pending, unread_count, announced, started, errors, taker, seq>>

(***************************************************************************)
(* rmw_take and rmw_take_serialized_message: dds_take, one sample at a     *)
(* time, until one has valid data or none is left.                         *)
(***************************************************************************)
StartTake(t, call) ==            \* one call per announced event
  /\ kind # "event" /\ announced > started
  /\ call = "ser" => kind = "sub"
  /\ pc[t] = "idle"
  /\ started' = started + 1
  /\ pc' = [pc EXCEPT ![t] = call]
  /\ last' = [last EXCEPT ![t] = NoSample] /\ ret' = [ret EXCEPT ![t] = "OK"]
  /\ UNCHANGED <<dds, pending, cb, announced, errors, seq>>

Taking(t) == pc[t] # "idle"
Finish(t, sample, code) ==
  /\ pc' = [pc EXCEPT ![t] = "idle"]
  /\ last' = [last EXCEPT ![t] = sample] /\ ret' = [ret EXCEPT ![t] = code]

TakeValid(t) ==
  /\ Taking(t) /\ history # <<>> /\ Head(history).valid
  /\ history' = Tail(history)
  /\ Finish(t, Head(history), "OK")
  /\ UNCHANGED <<kind, depth, arrived, pending, cb, announced, started, errors, seq>>

SkipInvalid(t) ==
  /\ Taking(t) /\ history # <<>> /\ ~Head(history).valid
  /\ history' = Tail(history)
  /\ UNCHANGED <<kind, depth, arrived, pending, cb, announced, started, errors, taker, seq>>

TakeNothing(t) ==
  /\ Taking(t) /\ history = <<>>
  /\ Finish(t, NoSample, "OK")
  /\ UNCHANGED <<dds, pending, cb, announced, started, errors, seq>>

\* an error of dds_take is not told apart from an empty reader
TakeFails(t) ==
  /\ Taking(t) /\ errors < MaxErrors
  /\ errors' = errors + 1
  /\ Finish(t, NoSample, "OK")
  /\ UNCHANGED <<dds, pending, cb, announced, started, seq>>

\* the sample is out of the reader when the message cannot be made to fit
QuietResizeFails(t) ==           \* (a variant that gets it wrong)
  /\ pc[t] = "ser" /\ history # <<>> /\ Head(history).valid
  /\ history' = Tail(history)
  /\ Finish(t, NoSample, "OK")
  /\ UNCHANGED <<kind, depth, arrived, pending, cb, announced, started, errors, seq>>
ResizeFails(t) ==
  /\ pc[t] = "ser" /\ history # <<>> /\ Head(history).valid
  /\ history' = Tail(history)
  /\ Finish(t, NoSample, "ERROR")
  /\ UNCHANGED <<kind, depth, arrived, pending, cb, announced, started, errors, seq>>

(***************************************************************************)
(* rmw_take_sequence, called with message arrays just initialized: slot i  *)
(* of message_sequence points to message i.                                *)
(***************************************************************************)
Message(i) == <<"message", i>>
Slot(i)    == <<"slot", i>>      \* the address of slot i itself
IndicesOf(took, valid) == Ascending({i \in DOMAIN took : took[i].valid = valid})

\* the address collected for sample i, and the slots after reordering
Collected(i) == Slot(i)
Data(took) ==
  LET order == IndicesOf(took, TRUE) \o IndicesOf(took, FALSE) IN
  [i \in 1..Capacity |-> IF i \in DOMAIN took THEN Collected(order[i]) ELSE Message(i)]

\* message_info_sequence: filled in step with *taken
Infos(took) == Good(took)

TakeSeq(count) ==
  /\ kind = "sub"
  /\ LET n    == IF count < Len(history) THEN count ELSE Len(history)
         took == SubSeq(history, 1, n) IN
     /\ history' = SubSeq(history, n + 1, Len(history))
     /\ seq' = [took |-> took, data |-> Data(took), infos |-> Infos(took),
                size |-> Len(Good(took))]
  /\ UNCHANGED <<kind, depth, arrived, pending, cb, announced, started, errors, taker>>

(***************************************************************************)
(* The specification.                                                      *)
(***************************************************************************)
CallbackStep == Listener \/ SetCallback \/ SetCallbackFails \/ ClearCallback
TakeStep(t) ==
  \/ \E call \in {"take", "ser"} : StartTake(t, call)
  \/ TakeValid(t) \/ SkipInvalid(t) \/ TakeNothing(t)
  \/ TakeFails(t) \/ ResizeFails(t)
Next ==
  \/ \E valid \in BOOLEAN, k \in Instances : Arrive(valid, k)
  \/ CallbackStep
  \/ \E t \in Takers : TakeStep(t)
  \/ \E count \in 1..Capacity : TakeSeq(count)

Spec == Init /\ [][Next]_vars

(***************************************************************************)
(* Properties.                                                             *)
(***************************************************************************)
\* every variable has its type
TypeOK ==
  /\ kind \in Kinds /\ depth \in {Unlimited} \cup (Nat \ {0})
  /\ history \in Seq(Samples) /\ arrived \in 0..MaxSamples
  /\ pending \in Nat /\ callback \in BOOLEAN /\ unread_count \in Nat
  /\ announced \in Nat /\ started \in 0..announced
  /\ errors \in 0..MaxErrors
  /\ pc \in [Takers -> {"idle", "take", "ser"}]
  /\ last \in [Takers -> Samples \cup {NoSample}]
  /\ ret \in [Takers -> {"OK", "ERROR"}]
  /\ seq.size \in 0..Len(seq.took)

\* a valid sample in the reader has been announced and its rmw_take is still to
\* come or under way, or it is counted, or the listener will be called: an
\* application that calls rmw_take once per event leaves none behind, although
\* the replay of unread events is cut off at the depth and samples arrive, are
\* pushed out and are taken meanwhile; only a dds_take that fails, which
\* rmw_take reports as an empty reader, may leave one behind.  (Not so when a
\* topic has several instances: the depth is that of each, the cut that of all.)
InFlight == Cardinality({t \in Takers : Taking(t)})
NothingUnannounced ==
  kind # "event" =>
    Len(Good(history)) <=
      (announced - started) + InFlight + unread_count + pending + errors

\* nothing is announced twice, over any sequence of setting, replacing and
\* clearing callbacks; and, unless it was cut off, everything is announced,
\* counted or about to be
AnnouncedOnce ==
  LET accounted == announced + unread_count + pending IN
  /\ accounted <= arrived
  /\ kind # "sub" \/ depth = Unlimited => accounted = arrived

\* valid data leaves the reader only into the hands of a caller, with an error
\* returned to one, or pushed out by newer data
Seen(s) == {h \in Samples : h.valid /\ \E i \in DOMAIN s : s[i] = h}
LostOnlyWithError ==
  [][\A s \in Seen(history) \ Seen(history') :
       \/ arrived' # arrived
       \/ s \in Seen(seq'.took)
       \/ \E t \in Takers : Taking(t) /\ (last'[t] = s \/ ret'[t] = "ERROR")]_vars

\* "reorder sequence with valid messages at the front": slot k points to the
\* message that holds the sample of the k-th message info
ValidAtFront ==
  \A k \in 1..seq.size :
    \E i \in DOMAIN seq.took :
      seq.took[i] = seq.infos[k] /\ seq.data[k] = Message(i)
=============================================================================
