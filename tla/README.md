# rmw_cyclonedds in TLA+

TLA+ specifications of `rmw_cyclonedds_cpp`, the layer that implements the ROS 2
middleware interface (`rmw_*`) on top of Eclipse Cyclone DDS. Line numbers refer to
`rmw_cyclonedds_cpp/src/rmw_node.cpp` unless another file is named. `PROJECT.json`
maps every definition to the lines it models.

## 1. The system

| Component | State | Operations | Modelled in |
|---|---|---|---|
| Waitsets and waiting | per `CddsWaitset`: `inuse`, cached argument arrays, `nelems`, `trigs`; global: `gcdds().waitsets`, the guard condition for empty waitsets, `gcdds().lock`; in Cyclone: what is attached | `rmw_wait`, `rmw_create_wait_set`, `rmw_destroy_wait_set`, `clean_waitset_caches`, `rmw_trigger_guard_condition`, `rmw_take_event` | `Waitset` |
| Contexts, nodes, domains | per context: `node_count`, participant, discovery readers, graph guard condition, `is_shutdown`; global: `gcdds().domains` with reference counts and options | `rmw_init`, `rmw_shutdown`, `rmw_context_fini`, `rmw_create_node`, `rmw_destroy_node`, `init`, `fini`, `clean_up`, `check_create_domain`, `check_destroy_domain` | `Context` |
| Discovery thread, graph cache | the thread, its waitset and guard condition; graph cache in `rmw_dds_common` | `discovery_thread`, `handle_*` | thread's life: `Context`; handlers and graph cache: `Graph` |
| Clients and services | two endpoints per client and service, matched endpoints on both sides, request ids | `rmw_init_cs`, `rmw_fini_cs`, send and take of requests and responses, `rmw_service_server_is_available` | `Service` |
| Publishing and taking messages | samples in a reader, valid or not; the arrays of the caller | `rmw_publish*`, `rmw_borrow_*`, `rmw_return_*`, `rmw_take*`, `rmw_take_sequence`, `rmw_take_serialized_message`, loans | order and announcement: `Reader`; data and loans: `Serdata` |
| Callbacks | per entity: callback, user data, unread counts, a mutex | `dds_listener_callback`, `on_*_fn`, `rmw_*_set_on_new_*_callback`, `rmw_event_set_callback` | `Reader` |
| Publishers and subscriptions | an entity each, types, QoS, graph entries | `rmw_create_*`, `rmw_destroy_*` | destruction: `Waitset`; creation and the graph: `Graph` |
| QoS conversion | none | `create_readwrite_qos`, `dds_qos_to_rmw_qos` | history in `Reader` and `Service`, reliability in `Service` |
| Graph queries, names | none of their own | `rmw_count_*`, `rmw_get_*`, `demangle.cpp`, `type_name.cpp` | `Graph`, `Names` |
| CDR serialization, type descriptions | `trivsercache.hpp`: a cache of what can be copied; else none | `Serialization.cpp`, `TypeSupport2.cpp`, `dyntype*` | `Cdr`; dynamic types not |
| Serdata and sertype | reference counted data, serialized on demand under the lock of its type, loans, keys | `serdata.cpp` | `Serdata`, `Sertype` |
| UTF-16 strings, build support | none | `u16string.cpp`, version macros | no: pure conversion, no state |

How they interact. The application calls `rmw_*` from any number of threads. Cyclone's
own threads run the listeners that count data for callbacks. Every context with a node
has one discovery thread that listens for remote participants and endpoints and feeds
the graph cache. The waitset code shares `gcdds().lock` with the destruction of
every entity; contexts share `gcdds().domains_lock` with each other, and the nodes of
one context its `initialization_mutex`. Cyclone is called for everything else, and
what matters here is what it keeps: handles, attachments, triggers, matches, samples.

What is hard, and therefore what the properties are about (the complete list, with
lines, is under "hazards" in `PROJECT.json`):

- *Waitsets*: raw pointers are cached across calls and compared by address while
  other threads free and reallocate objects; the release of a busy waitset on every
  exit; guard conditions that are reset when reported; one shared guard condition
  that keeps Cyclone from returning at once. Correct means: no cached pointer dangles
  where it is followed, what is attached is what the call was given, what triggers is
  reported, a call with something triggered returns.
- *Contexts*: a dozen failure exits that must undo exactly what was done; a domain
  shared by independent contexts; a thread joined with a mutex held. Correct means:
  counts are exact, nobody's participant vanishes, everything is reset at the end.
- *Services*: four endpoints discovered in any order, independently on both sides.
  Correct means: no client gets another's response, none is lost that could have been
  delivered, availability is not made up from endpoints of different services.
- *Graph*: participants, endpoints and the messages that tie them to nodes are told by
  four readers in no common order; clients and services are two endpoints and a graph
  entry each, made and deleted one by one. Correct means: what the queries answer is
  what exists, under the names it was given, as soon as the thread has caught up.
- *Reading*: data arrives while callbacks are set and samples taken; invalid samples
  sit between valid ones. Correct means: notifications are neither lost nor doubled,
  valid data is delivered.
- *Serdata*: one object is in two caches and in use by several threads, its bytes made
  by whoever needs them first; a loan wanders through the application, objects and a
  plugin. Correct means: nothing is freed early, late or twice, and bytes given out do
  not change.
- *CDR*: size, writer, reader and the extraction of keys walk a type separately, each
  with its own alignment and its own shortcuts for values whose memory is already
  their serialization. Correct means: they agree, across languages and byte orders.

## 2. Waitset, WaitContract, WaitsetProofs

`Waitset` models objects as addresses that are reused and DDS entities as handles.
`obj` maps an address to what is there; a `CddsWaitset` is `inuse`, `ents` (the four
arrays `subs`, `gcs`, `srvs`, `cls` as one sequence of tagged pointers: they are
compared, attached and reported by the same code one after the other), `evs`,
`nelems`, `trigs`; `attE`, `attS` and `attDummy` are what Cyclone has attached.
A call of `rmw_wait` is split wherever another thread can get in:

| Code | Action |
|---|---|
| 4516-4535 lock, test and set `inuse` | `Claim`, `Reject` |
| 4537-4546 `require_reattach` is false | `CacheHit` |
| 4548 `waitset_detach` | `Detach` |
| 4550-4617 attach, gather events, record | `Attach`; `GatherFails` for the early return at 4600 |
| 4619-4628 `dds_waitset_wait` | `Wake`, `TimeOut` |
| 4630-4692 report and clear | `Report` |
| 4696-4699 `inuse = false` | `Release` |
| 4701 return code | `Return` |

Destruction is `StartDestroy`, `BeginClean`, `CleanOne` per waitset, `EndClean`,
`DeleteEntity`, `FreeObject`; publishers skip the cleaning. The application's side of
the contract is in guards: arguments stay alive during a call (`MayDestroy`), and two
constants say which further promises it keeps. `Overlap` allows destroying an entity
that an `rmw_wait` in progress has cached but was not given; `clean_waitset_caches`
skips waitsets in use, although its comment (4439-4440) speaks of "all waitsets".
`Concurrent` allows the concurrent calls on one waitset that `rmw_wait` refuses.

With `Overlap` there is one window in which a freed pointer stays cached: a waitset that
was claimed (4534) and is not yet detached (4548) still has the entities of the call
before. `CacheNeverDangles` says that no pointer is dangling when `waitset_detach` can next
run on it, that window included; `SweepNeverDangles` says so of waitsets not in use, which
is what `clean_waitset_caches` and the next claim find.

`WaitContract` is what a caller is promised: the entries reported are exactly those
triggered at one instant of the call, and a call with an entity that stays triggered
comes back.

Runs. `WaitsetThreads` has two waitsets, two waiting threads, a destroyer, two
addresses and three handles: enough for an address to be freed and reused for another
kind while two caches hold it and the shared guard condition takes the third handle.
Deadlock is not checked there, because every failed creation of a waitset leaves its
guard condition behind (4335-4347) and the handles of the instance run out.
The application there destroys what it likes but arguments (`Overlap`), and calls
`rmw_wait` on a busy waitset.
`WaitsetEvents` has one address used for a subscription or a publisher with two and
one possible events, so that one entity carries several events, one is refused, and
the same subscription is waited for with and without its events; it is without
`Overlap`, and checks `CacheNeverDangles`.
`WaitsetLiveness` has two threads, two destroyers and two guard conditions.
`WaitsetGatherFails` shows the finding that a failed `gather_event_entities` leaves
the waitset in use for good.

Observed while modelling: with `Overlap` and one waitset, TLC finds `CacheNeverDangles`
violated: an entity destroyed in the window above is followed by `waitset_detach` (4548)
after it was freed, although `clean_waitset_caches` is to drop "all cached entities from all
waitsets" (4439). And the return code is read from `ws->trigs` (4701) after the waitset was
released (4698): a second call that starts in between is not refused (4531) and replaces
them, so that the first may return `RMW_RET_TIMEOUT` with an entity in its arrays, or
`RMW_RET_OK` with nothing. `Return` follows `Release` as a step of its own; what it returns
is not kept in the model.

The status mask of an entity belongs to the entity, not to the waitset. Two waitsets that wait for different events of one entity overwrite each
other's mask and `WaitedEventsEnabled` fails. It is checked on one waitset, and proved for any
number under the condition that this does not happen (`EventsApart`).

An event that is not supported is skipped (4467), and an event of an incompatible type is
deliberately not put in the mask (a TODO, 4473-4477): `MaskFor` does both.
`WaitedEventsEnabled` says that a supported event is enabled if and only if it is not of
that kind; a wait for an incompatible type alone can only end by something else. The test
at 4467 is modelled although `init_rmw_event` (3990) refuses such events before.

Fairness (`FairSpec`): a thread inside `rmw_wait` or a destruction runs on (weak
fairness of its steps); acquiring `gcdds().lock` has strong fairness, because a
`std::mutex` promises no order but is never held across a wait here. Nobody is
obliged to make a call, and entities need not trigger.

## 3. Context, ContextProofs

One action per step between two points where another thread can interleave:
`RmwCreateNode` begins the call, `InitAgain` or `InitFirst` lock `initialization_mutex`
and decide on `node_count`, then `JoinDomain`, `MakeDomain` and their failures,
`CreateParticipant`, `CreateReadersFail`, `CreateEndpoint` (once per endpoint),
`CreateGraphGuard`, `DiscoveryThreadStart`, `InitDone`; tear-down is `FiniLast`,
`DiscoveryThreadStop`, `TriggerListener`, `JoinThread`, `DestroyEndpoints`, `DestroyMade`,
`ClearCallback`, `DeleteParticipant`, `LeaveDomain` or `DestroyDomain`. Every failure exit of `init`
goes through `InitFails` into the same tear-down, as in the code. The discovery
thread is `SetUp`, `CheckRunning`, `WakeUp`, `Handle` and its exits. `ppant` is
"lost" when Cyclone deleted the participant with its domain.

Runs. `ContextCalls`: two contexts in one domain, two threads, two configurations, up
to two nodes per context, and a failure allowed at every call that can fail. Two
contexts are what it takes to share or fight over a domain, two nodes to have a first
and a last one. `ContextLiveness`: three threads on one context, under fairness (weak
for the steps of threads in calls and of the discovery thread, strong for the
acquisition of the mutex), with configurations that are refused.

Two comments the model contradicts without harm: `domains_lock` is not held until the
participant exists (1412-1413 say so, 1418 releases it inside `check_create_domain`),
and the reference count makes up for it (`DomainSharedSafely`); the waitset of a
discovery thread that gives up at 1036 or 1052 is not deleted with the participant
(1011-1012 say so), because it is created under `DDS_CYCLONEDDS_HANDLE`, and leaks.

Observed while modelling: a domain asked for with the discovery range NOT_SET is refused
after its entry got a reference (1154), which nobody drops: the next node in that domain
finds a domain that was never made. The comments (245, 1119) speak of a reference per
participant. `MakeDomainNotSet` models it. `ContextCalls` has that range among its options and
checks `RefcountCovers`: every context in a domain is counted once, and what is counted
beyond them is one reference in a domain that was never made, for this range.
That the count is that of the contexts alone, `RefcountExact`, is false with it: TLC shows the
reference left behind.

## 4. Service, ServiceContract, ServiceProofs

Each peer has a stage (none, writer, up, readerless, gone) and two sets of matched
remote endpoints; `WriterFinds`, `ReaderFinds`, `WriterLoses`, `ReaderLoses` are the
discovery of Cyclone, one endpoint on one side at a time. `flight` holds samples
written to the readers matched at that moment, `history` those that have arrived.
`rmw_send_response` is `CheckWriter`, `ListReaders`, `CompareReaders`, then `Sleep`,
`DropResponse` or `SendResponse`; `rmw_service_server_is_available` is `AskReaders`,
`AskWriters`, `CompareServices`.

`rmw_init_cs` gives both endpoints the QoS it is asked for (5266-5269, 2241-2272), so a
history keeps all (`KeepAll`) or the last `Depth` samples (`Push`), and the endpoints are
reliable or `BestEffort`; all endpoints of an instance have the same setting, and match.
Names, types and the other QoS are left out; endpoints are volatile, and a service type has
no keys, so a history has one instance. A sample that is on its way is lost (`Lose`) with
its endpoints, always possibly between best-effort ones, and between keep-last ones when
its writer has more than `Depth` samples on their way to that reader: Cyclone drops what the
writer wrote first, `Lose` leaves open which.

All clients' responses share each client's history, so a response to a matched client can be
pushed out by other clients' responses. `behind` records the clients that ever had more than
`Depth` responses, anybody's, on their way and unread; `ResponseNotLost` speaks of all others,
and of everybody when all is kept. `ServiceClients` has a depth of one and two clients: it
fails there without that exception, which a client with a short history has to live with.

`ServiceContract` is what an application sees of that: requests are sent under ids that no
request of any client has, until all ids are used; a service works on one request that was
sent and answers or drops it; a client gets an answer to a request of its own. Discovery,
samples and polling are stutters there, and so is every loss.

Runs. `ServiceClients`: two clients of one service, a history of one, reliable, and a
request counter that wraps. `ServiceServers`: one client, two services, one of which has no
id in its user data, best effort and keep-all, under fairness of the service's steps.
Every peer lives once, so the instances stop when all are gone (no deadlock check).

Observed while modelling: a failing lookup of matched endpoints is never noticed.
`get_matched_endpoints` returns `RMW_RET_ERROR`, which is positive, and the callers test
`< 0` (4946, 5669-5670, and 5728-5729 for the topic names). `ListReaders` models it as a
list without readers; `client_present_t::FAILURE` (4913) is never returned.

`AvailableIsPaired` has an exception: a service that goes away between listing and
lookup makes the list of ids empty, and the fallback for services without ids
(5685-5687) then says yes for any response writer that was listed.

## 5. Reader, ReaderProofs

One reader (of a subscription, or of a client or service), or one status of an entity.
`Arrive` and the obligation `pending` to call the listener are Cyclone's; `Listener`,
`SetCallback`, `SetCallbackFails`, `ClearCallback` are one step each, because the code
holds the mutex of `user_callback_data_t` throughout. `rmw_take` and
`rmw_take_serialized_message` are one step per `dds_take`: `TakeValid`,
`SkipInvalid`, `TakeNothing`, `TakeFails`, `ResizeFails`; `TakeSeq` is a single
`dds_take` and the reordering after it. `HistoryDepth` and `DepthReported` convert the
depth from a profile to DDS and back; the replay is cut off at the latter.

`NothingUnannounced` is the point of the counting: an application that calls `rmw_take`
once per announced event leaves no valid sample behind. On a topic with one instance, as
every topic without a key has, it holds because the history holds no more than the depth
at which the replay is cut off, and it did not before the fix recorded in CHANGELOG 4.2.1
(#584); that version is the mutant. It also catches a take that reports nothing or stops
at an invalid sample while a valid one waits. On a topic with a key it does not hold: the
depth is that of each instance (`MakeRoom`), the cut that of the reader (577).

Runs. `ReaderCalls`: one instance, all three kinds and three history settings (default, a depth of two,
all), four arrivals with or without data, two takers, arrays of two messages; four
arrivals overflow the depth of two twice. A failing `dds_take` looks like an empty
reader to the caller and may strand one sample, so their number is bounded
(`MaxErrors`) and enters the invariant. `ReaderSequence` shows that
`rmw_take_sequence` overwrites the message pointers with the addresses of their slots.

Observed while modelling: with two instances and a depth of one TLC finds
`NothingUnannounced` violated. Both samples are in the reader when the callback is set, and
one event is announced (577), "limiting them to the QoS depth" (564-565): an application that
takes once per event leaves the other sample behind.

Simplifications: the order of samples with and without data is arbitrary, and samples of
several instances are taken in the order in which they came. A client takes only its own responses
(`Service`); here all takes stop at the first sample with data.

## 6. Graph, Names, GraphProofs, NamesProofs

`Names` has the conversions of names as functions on sequences of tokens: what splits or
joins a name ("rt", "/", "::", "dds_::", "_", "Request" and the like) is a token, anything
else a name. `NamesComeBack` says of all topic names of up to three such parts, the
words the conversions look for among them, that mangling and demangling are inverse and
that each name is listed as exactly what it is; and that C and C++ type supports agree on
the name of a type, without which endpoints would not match.

| Code | Action of `Graph` |
|---|---|
| 1048-1060 loop of `discovery_thread` | `CheckRunning`, `WakeUp`, `NextReader` |
| 900 `handle_ParticipantEntitiesInfo` | `HandleInfo`, per message |
| 912 `handle_DCPSParticipant` | `HandleParticipant`, per sample |
| 935 `handle_builtintopic_endpoint` | `HandleEndpoint`, per sample |
| 1526 end of `init`, 1588 `fini`, 1559 `clean_up` | `StartContext`, `StopContext`, `JoinThread` |
| 2641, 3150, 5331, 5438 `rmw_create_*` | `CreateEntity`, `MakeEnd`, `MakeFails`, `AddGraph`, `AddGraphFails` |
| 2943, 3311, 5408, 5501 `rmw_destroy_*` | `DestroyEntity`, `DeleteEnd`, `Deleted` |
| 5591-6274 queries | operators of the same names |

`Appear`, `Vanish` and `InfoArrives` are DDS: participants and endpoints of others come
and go, and each participant sends its graph again after it was rediscovered
(reliable, transient local). A built-in topic has one instance per thing: `unread` is
the set of those with something to take, and what is taken comes with the state the
instance has *now* (925, 945). `cached`, `known` and `assoc` are the graph cache of
`rmw_dds_common`, modelled from its use: `add_*`, `remove_*`, and
`update_participant_entities`, which enters a participant it does not know; pairing the
reader and the writer of one client for `rmw_get_clients_info_by_service` is also its job.

`left` are the things that may stay in the cache although they are gone, and
`CacheIsWorld` exempts them: a participant whose own message is handled after its
removal was (the two readers have no order), and everything cached when the context's
last node is destroyed, because `clean_up` deletes the participant, and with it whoever
could tell of departures, but does not empty the cache (nor does it undo
`add_participant` of 1541). The next life of the context starts with them.

Run. `GraphCalls`: a client in this context, a server and a subscription in another
participant, all of them named "/Request", so that the DDS topics of the service end in
the suffix twice; three changes from outside, which is what it takes for a participant
to come, go and return, or for both endpoints of the server to come; one message per
participant; and two lives of the context. It stops after the second (no deadlock check).
`FairSpec` assumes only that the discovery thread runs on while it has something to do;
`ThreadRests` then says that it catches up, and with `CacheIsWorld` that
no difference lasts.

`WholeOrNothing` and `AssociatedExist` are about the failure exits of creation and the
order of destruction (CHANGELOG line 18, #594, is a fix of the latter): the graph
never announces an endpoint that does not exist.

Observed while modelling `demangle.cpp`: `name.at(prefix.length())` (40) throws
`std::out_of_range` for a DDS topic named exactly "rt", "rq" or "rr", in a query of the
graph, although the comment promises `else ""` (88); and `_demangle_service_type_only`
accepts a "_Request_" that is not at the end, after warning of it (165-172).

Left out: `avoid_ros_namespace_conventions` and `no_demangle` (identities), topics that
begin with "DCPS", participants without an enclave in their user data, types and QoS.

## 7. Serdata, Sertype, Cdr, SerdataProofs, SerdataViews

`Cdr` is the codec as pure operators on value types: `StructType` builds them from an
introspection as `TypeSupport2.cpp` does, `Trivial` and `TrivialMany` are the tests of
`trivsercache.hpp`, then come the writer, the size bounds, the reader (deserializing,
printing) and the extraction of keys of `Serialization.cpp`. Byte values do not matter,
only which byte of which scalar is where: a byte is a triple, and memory, padding and what
was never written are such bytes too. `UMax` stands for `UINT32_MAX`. `Sertype` has what
`serdata.cpp` makes of it for a type: buffers, keys, key hashes.

`Serdata` is the life of serialized data and of loans. Its codec is a constant, a table:
`MCSerdata` fills it in from `Sertype`, so that a run looks up what it needs, and the
proofs hold for every codec. Objects and loans are addresses with reference counts;
`rhc` and `whc` are the caches of Cyclone's reader and writer, `psmx` is what is on its way
through a plugin, `held` are the loans of the application. A call of a thread on an object
is split where another thread can get in:

| Code | Action |
|---|---|
| `rmw_publish` with `serdata_rmw_from_sample` (serdata.cpp:293) | `Publish` |
| `rmw_publish_serialized_message` (2055), `serdata_rmw_from_ser` (serdata.cpp:225) | `PublishSerialized`, `PublishSerializedFails`, `FromSer` |
| `rmw_borrow_loaned_message` (2851), `rmw_return_loaned_message_*` (2892) | `Borrow`, `ReturnLoan` |
| `rmw_publish_loaned_message` with `serdata_rmw_from_loaned_sample` (serdata.cpp:332) | `PublishLoaned` |
| `serdata_rmw_from_psmx` (serdata.cpp:394) | `FromPsmx` |
| `rmw_take` and `rmw_take_ser_int` (3552) | `Take`, `NoRoom`, `SkipInvalid` |
| `rmw_take_loan_int` (3621): `dds_take` in a loop, 3653-3662 | `TakeLoan`, `TakeBack`; `LeaveLoan` when it ends with nothing taken |
| `serdata_rmw_serialize_into_on_demand` (serdata.cpp:161) | `Lock`, `Check`, `Resize`, `Fill` |
| `to_ser_ref`, `size`, `to_ser`, `to_sample`, `to_ser_unref` (serdata.cpp:199, 453-507) | `ToSerRef`, `Size`, `Copy`, `Finish` |

`Send`, `Ack` and `FromElsewhere` are Cyclone and other processes. `oom` marks an object
for whose data memory was once refused, which only the properties look at. `Hold` says how a
loan got out: borrowed by a publisher, taken by a subscription, in the `pointer` of a
`rmw_take_loan_int` that goes on after a sample without valid data, or `left` in it. A
`dds_take` that finds a loan in the pointer takes that back first (`TakeBack`: Cyclone, not
this code). A null object in `rmw_publish_serialized_message` is used at once (2075):
`PublishSerializedFails` is the end of the process, after which another one starts.

Runs. `SerdataCalls`: two threads, two objects and one loan. An object can be in both
caches and in use by both threads; two objects can share the loan, as after publishing
and receiving it in one process. Eight topics, each a message: `point` (no key, copied by
`memcpy`, or not, see below), `tree` (keys in keys), `texts` (strings, wide
strings and flags in all forms), `parts` (sequences and arrays of strings and structures,
with and without padding), `query` (a request with its header), and three whose keys the
code gets wrong (`Miskeyed`): `grid`, an array of two elements as key, `list`, a sequence of
structures of which a part is key, and `call`, a request with a key. Three samples: two with
the same key and one with another. `Encodings` adds the serialization by a C process of
the other byte order. On `point`, whose samples alone may be lent to the application, the threads run at the same
time; on the other topics, which are there for the codec, one thread at a time (`Busy`).
3,201,455 states.

`ViewsStable` is what `serialize_lock` is for: an iovec given to the network stays whole
while another thread asks for the bytes of the same object. `ReferencesExact` is the
accounting of the hand-overs. `TakenIsPublished` follows a sample from publishing through
serialization (or a loan), another process's encoding, and back to a sample; `print` must
see the same. `KeysAgree` compares the keys of any two objects, which may come from a
sample, a serialized sample or a serialized key. It is not a property of all messages, and
exempts the `Miskeyed` topics. That is no more than is needed: TLC checks
`MiskeyedAssumption`, that the codec alone, without threads and loans, makes wrong keys of
these messages (`KeysFaithful` of their tables is false). `BufferFits` compares what is written
with what was announced.

Left out of the messages, because of the flag that is never initialised (below): types whose
only part that is not plain memory is an array of strings. Also left out: a `dds_write` that fails, the variant for
Cyclone 0.10 (iceoryx), fragments, encoding headers that are refused,
`get_serialized_size_estimate`, the text that `print` writes, hashes of sertypes.

Observed while modelling:

- The size bound of an array counts two elements twice (Serialization.cpp:624: `count`
  instead of `count - 2` more after the second). No buffer is too small, but a message of
  fixed size is longer than its serialization and its last bytes are never written
  (serdata.cpp:72 zeroes only the padding); the key made from a sample is longer than the
  one extracted from its serialization (topic `grid`), and an array of 16 bytes as key is
  hashed with MD5.
- `extractkey_top_level` skips 8 bytes of the header of a request (Serialization.cpp:870),
  which has 16, and the key of a sample is made without unwrapping it (339): a request with
  a key has a wrong one (topic `call`).
- A wide string in a key is swapped if the *source* has the other byte order
  (Serialization.cpp:1202), not if source and destination differ: the key hash, which is
  big-endian, of the same wide string differs between machines. The key itself does not.
- The shortcut of `serialize_many` and its like copies whole structures also when only
  their keys are wanted (485, 1231), which the one for single values does not (540):
  topic `list`.
- `ArrayValueType::m_is_self_contained` is never initialised (TypeSupport2.hpp:229-235).
  `IsSelfContained` allows both values; a type with an array may or may not use loans.
- `serialize_into` swallows the exception (serdata.cpp:156): `rmw_publish` reports success
  for an object without data, which is taken as a message of length 0. An attempt on demand
  that fails is repeated by the next call, while the first caller goes on with null.
- A loan of a key is never serialized on demand; the error says "uninitialized"
  (serdata.cpp:174).
- `rmw_take_loan_int` that ends after a sample without valid data leaves that sample's loan
  in the pointer of the caller and reports nothing taken (`LeaveLoan`). The references
  stay exact, because the loan is counted where it was left; nobody is told to return it,
  and the pointer is refused at the next call (3635).
- Where memory for the serdata is refused, `rmw_publish_serialized_message` writes through
  a null pointer (2075).
- `serdata_rmw_print` reads the data without the lock, and without serializing it first.

## 8. Proofs

`WaitsetProofs` proves about `Waitset`, for all values of its constants:

- `TypeCorrect`: `Spec => []TypeOK`, action by action, over lemmas about the types of
  what the helpers return.
- `NoDanglingCache`: `Spec => []SweepNeverDangles`, without any assumption on what the
  application destroys meanwhile. `NoDanglingClaim`: `[]CacheNeverDangles`, if it destroys
  nothing that an `rmw_wait` in progress has cached (`~Overlap`; section 2 has what happens
  otherwise). Neither is inductive: a pointer is safe because a destroying thread has swept all waitsets
  before it frees, and because what it swept stays clean. `CacheSafe` adds what is
  needed: arguments are alive (`ArgsHeld`), a busy thread holds the claim
  (`UsersClaim`), the cache of a claimed waitset is its caller's arguments once
  attached (`CacheIsArgs`), nothing cached is dying while a claimed waitset is compared, if
  `~Overlap` (`ClaimedClean`), and what a destroyer has swept does not come back (`CleanedGone`).
  `CacheSafeAlways` proves it inductive; `WaitsetThreads` checks it first.
- `OneUserPerWaitset`: `Spec => []OneUser`, from the same invariant, with `Overlap` too.
- `WaitsForItsArguments`: `Spec => []AttachedAreArgs`, with `~Overlap`. Comparing the cached
  pointers with the arguments decides whether the attachments are kept, so the attachments
  must follow the cache (`AttachFollows`), and a pointer must stand for one handle as long
  as it is cached. `HandlesOnce` says that of objects; that nothing cached is freed is
  `CacheSafe`. The invariant `AttachInv` is inductive relative to the two before it.
- `WaitsForEnabledEvents`: `[]WaitedEventsEnabled`, with `~Overlap` and `[]EventsApart`: no
  entity's events are cached by, or given to calls on, two waitsets at once. `MasksFollow`
  ties the mask of an entity to the one waitset that has its events cached.
- `KeepsContract`: `Spec => Contract!Spec`, the safety part of the refinement. A call is
  "waiting" from the claim on and "woken" until it has reported; `Wake` maps to the instant
  at which what it tells was triggered, `Report` to leaving and resetting guard conditions, and all
  steps between are stutters. What is told is `Reported`, the walk of one index over the
  sorted indices of Cyclone, and the refinement needs that it finds all of them:
  `ReportedIs`. That is an induction over the entries. It is done without an induction
  theorem: a least entry where the walk is wrong would have to exist (`Least`, from the
  well-foundedness of `<`), and the one before it contradicts that. `CanBeSorted` shows in
  the same way that the sorted indices exist.
- `TriggersAreReported`: `Spec => GuardTriggerKept`, from `AttachInv` and `TrigsFit` (the
  indices in `trigs` are those of arguments). Like `KeepsContract` it needs `~Overlap`.
- `WaitsForSomething`: `Spec => NeverReturnsEarly`, from `DummyInv`: as long as there
  is a waitset there is the shared guard condition, and every waitset that is not being
  closed has it attached, so that a wait never starts on an empty waitset.

`SerdataProofs` proves about `Serdata`, for all threads, objects, loans, topics, samples
and codecs:

- `SerdataTypeCorrect`: `Spec => []TypeOK`. Reference counts are natural numbers above
  zero there, so nothing is freed twice.
- `ReferencesAlwaysExact`: `Spec => []ReferencesExact`. The inductive invariant is
  `RefInv`. `ReferencesExact` alone is not inductive. A loan that is handed on moves a
  reference from one holder to the next, and the count stays right only if the giver had
  it and the receiver had not: `OneKeeper` says that the reader's cache, the plugin and
  the application never have the same loan at once (the writer's cache may), and that
  nobody sees a loan that is still being written. `OnLoan` is what makes the sample that
  `Fill` serializes one of the type. The counting rests on the theorems about cardinalities
  of the library and on the sets of threads and objects being finite
  (`FiniteAssumption`).

`SerdataViews` adds `ViewsAlwaysStable`: `Spec => []ViewsStable`. Its invariant, `ViewInv`,
follows the lock: only its holder is between the test of `data()` and the end of the
serialization (`Locked`), so what is null at the test stays null and what is half filled is
seen by nobody else (`Filling`); who goes on to use an object found it whole or was refused
memory (`Filled`); and an object that is sent or taken has its data or a loan that holds
them (`HasData`).

`SerdataViews` also has `TakenIsAlwaysPublished`: `Spec => []TakenIsPublished`, if the codec satisfies `RoundTrips`:
by itself, without threads and loans, it reads back every serialized sample as the sample,
and prints what it reads. (The tables of `MCSerdata` do; the run would show a
`TakenIsPublished` that fails otherwise, because every sample in every encoding is taken
there.) The theorem says that nothing between publishing and taking undoes this. Its
invariant, `ContentInv`, ties together what three places say of a sample: the data and the
loan of an object are of the sample the object stands for (`ObjectsHold`), a loan of the
application is of the sample it was borrowed or taken for, raw and written (`HeldHold`), and
a copy that is not whole is of an object for which memory was refused (`TakesHold`). It
needs `OneKeeper` for a publisher's loan, which is rewritten when it is published, `OnLoan`
for what is serialized on demand, and `Filled` for what a take finds after the lock.

The third theorem there is `KeysAlwaysAgree`: `Spec => [](KeysFaithful(C) => KeysAgree)`,
for every codec, also one that gets some keys wrong: `KeysAgree` holds on every topic, with
table `C`, whose message has its keys right by itself. `KeysFaithful` says: of one sample
it makes one key, from the sample, from whatever serialized it and from the serialized key
alone; the key gives the values of the key members back; and two samples have the same key,
and the same hash, exactly when these values are the same. The tables of `MCCodec` satisfy
it, but for those of `MCMiskeyed`. What the steps must not undo is `KeyInv`: an object
whose key is extracted from serialized data has them, whole. A buffer for a serialization
on demand would take them away, but it is only made where there were none (`Filling`).

`ContextProofs` proves the five invariants of `Context` for all contexts, threads, domains,
options and failing calls, from one inductive invariant, `CtxInv`:

- `Owners`: the holder of an `initialization_mutex` is at a place in `init` or `clean_up`,
  on that context, whose `node_count` is zero meanwhile. So every context is in one phase:
  free, up, or at its holder's place (`Phase`).
- `Stage`: the phase says what the context has: participant, endpoints, callback, discovery
  thread and its guard condition. "stop", reached from the last node and from five failures,
  is the weak one: it knows only that a running thread has all it uses, and that without one
  there is nothing to join. `ThreadUsesLive` and `EverythingResets` follow.
- `Counted`: `node_count` is the nodes and the calls that make or destroy one; with
  `InUseOpen` it is why a context that is set up again is free.
- `Covered`: a domain has at least as many references as contexts in it, all with its
  options. This holds with discovery ranges that are not set too, where the reference that
  `check_create_domain` leaves behind makes the count too high and never too low; it is why
  the last reference finds no participant but the one just deleted (`NobodyLost`), hence
  `DomainSharedSafely`.
- `RefcountCovers`: the same counted exactly, for all options (`RefcountAlwaysCovers`).
  `RefcountAlwaysExact` is what is left of it when none of them is `NotSet`.

A step in `init` or `clean_up` that stays in the domain is an instance of `Advance`, which
leaves only `Stage` to show; entering and leaving a domain are counted once (`BooksEnter`,
`BooksLeave`). `CtxInv` was checked with TLC, with and without `NotSet`, on two contexts and
two threads.

`ServiceProofs` proves the five safety properties of `Service` for all clients, services,
histories and numbers of requests, from `ServiceInv`:

- `RequestsSent`: whatever request is about, in flight, in a reader or with a service, was
  sent by the client it names; `OwnResponses` follows, although responses of one client
  arrive at the readers of all.
- `MatchedWereThere`, `BusyAreUp`: an endpoint is only matched with ones that exist or did, and a service
  that answers is up. `VerdictHolds`: once the matched readers were listed and the client's
  was among them, only the end of that reader undoes it; so what is sent then
  arrives (`AnsweredKept`). This is where the order of `ListReaders` and `CompareReaders` matters.
- `UnreadFits`: a client that is not `behind` has no more samples on their way and unread than
  `Depth`, so there is room for each that is on its way (`NotFull`), and neither `Push` nor the
  writer's history drops one. It needs `ClientsMatchServices`: no request goes to a client.
- `KeepsServiceContract`: `Spec => Promise!Spec`, the refinement, with `header` as the work
  of a service. `PromiseInv` adds what it needs: whatever is on its way to a client or in its
  reader is somebody's answer (`AnswersGiven`, again by `ClientsMatchServices`), a service between two calls has no request, and the ids in use are
  the first ones or all (`FirstInUse`), also when the counter wraps.
- `AvailableMeansPaired` needs types only: it is about one step, `CompareServices`.

`GraphProofs` proves the five invariants of `Graph` for all participants, entities and lives
of the context, from `GraphInv`:

- `LifeOK`: what the thread and the context are at; `WorkInv`: the endpoints of an entity
  that is being made or deleted, in which order (`WriterFirst`), and that only its worker
  changes them (`OnlyWorker`). `WholeOrNothing` is part of it, `AssociatedExist` follows.
- `CacheInv`: an endpoint or a participant is in the cache if and only if it exists, unless
  it is still unread or one of those in `left`; and the last message of each participant is
  known or on its way (`InboxFollows`, `LastKnown`). With nothing unread this is `CacheIsWorld`.
- `QueriesTell` joins that with `NamesProofs`: endpoints are found by their DDS topic, and
  the topics of different names and kinds are different, so the queries count entities. A
  bijection between an entity and the endpoint it is counted by does the rest (`AsMany`).

`NamesProofs` proves `EveryNameComesBack` and `TopicsApart` for names of any length with any
words in them. The suffix is found where it occurs last, and what matters is that the end of
the topic is such a place. `EveryTypeComesBack` is the same for types, for any package and any
name ROS allows (`OfAType`: no `_` in the name, and a package that is not a separator): the
first `dds_::` is the one before the name, whatever the name contains (`DdsFound`), and
`_Request_` or `_Response_` is found at the end or, in a message, nowhere (`SuffixFound`).

`ReaderProofs` proves about `Reader`, for all takers, profiles and numbers of instances,
samples and errors, from `ReaderInv`:

- `NothingStaysUnannounced`: `NothingUnannounced` wherever the replay is not cut off (everything is
  kept, or a client or service) or there is one instance (`OneInstance`); with more it is
  false (section 5). It is not inductive: cutting the replay at the depth loses
  nothing only if the history has no more valid samples than that (`Fits`), which pushing
  out the oldest valid one of the only instance keeps (`GoodsRoom`). Samples are counted by
  where they are in the history, and compared by injections (`NoMoreGoods`).
- `EventsAnnouncedOnce`, in the same induction, for any number of instances.
- `DataLostOnlyWithError`, from types.

The assumptions on constants are those named in the modules. The addresses of nobody and
nothing are distinct from the others; threads, objects, contexts, takers and entities are finitely
many; the samples of a topic are samples; endpoints are not participants, and
the names of entities are full names (`ThingsAssumption`), because `rmw_create_*` refuses
others (2658-2669 and its like). `~Overlap` is a promise of the application (section 2):
to destroy nothing that an `rmw_wait` in progress has cached. The theorems that need it are
named above.

Only model-checked: everything under fairness (`DestroyEnds`, `CallsEnd`, `SendResponseEnds`,
`ThreadRests` and the liveness part of `WaitImplementsContract`), for which TLAPS has no
means; and `BufferFits` of `Serdata`, which is about what the codec computes, as are
`RoundTrips`, which `TakenIsAlwaysPublished` assumes, and `KeysFaithful`, the premise in
`KeysAlwaysAgree`. The installed provers cannot do induction over data in general, nor use RECURSIVE
operators: that is why `Cdr` and `Sertype`, which follow the structure of types, have no
theorems, and why `Serdata` takes the codec as a constant.

## 9. Plan

1. Nodes in `Graph`: node names, and several nodes per context in the queries by node.
2. QoS conversion, checked for agreement there and back.

Not planned: dynamic types (`dyntype*`, a description for Cyclone without state), UTF-16
conversion, network flow endpoints (a query copied field by field), security and the
contents of configuration strings.
