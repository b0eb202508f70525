# TLA+ models of WoTEx

WoTEx is a family of Elixir libraries, with native helper processes in C and
C++, for W3C Web of Things consumers and servers. Much of it is inert data:
Thing Descriptions, forms, profiles, canonical values. What can go wrong in ways
a test hardly reaches is in its processes: subscription owners, socket owners
and connections on the BEAM, and the native hosts behind a framed pipe. They
share state with callers, watch deadlines and other processes, and must release
what they acquired. This project models those processes, checks them with TLC on
small instances and proves the central results with TLAPS for every value of the
constants.

## Inventory

`PROJECT.json` lists every part with its sources and what is left out of it, maps
each definition to its lines, and lists the hazards with the properties that
would catch them.

| Part (under `packages/`) | State it keeps | Operations | Interacts with | Hard behaviour | What makes it correct |
|---|---|---|---|---|---|
| **wotex-runtime, subscription** (`subscription.ex`, `subscription_opening.ex`) | `active?`, `closed?`, the handle, a buffer of early messages; guardian, callback worker, watcher | start, open handover (claim, cancel), deliver, statuses, stop, terminate | transport callbacks and messages, receiver, supervisor, callers of `stop/2` | four processes whose signals are ordered per pair only; crash of any; 1000 ms and 100 ms timeouts | the handle is given back exactly once; messages arrive in order; nothing after a final status |
| **wotex-udp, admission** (`admission.ex`) | one ETS record: requests, bytes, sequence, notification, closing | `enqueue`, `take`, `release` | any caller and the owner, by compare and replace | lock-free updates, retry budgets, lost wakeups | atomicity, limits, order, close is last, no entry without a wakeup |
| **wotex-udp, owner** (`owner.ex`, `backend.ex`) | pending map, queue, active request, select reference, alias | take, dispatch, deadlines, caller exits, close | admission queue, socket, callers | stale select and timer messages, callers dying anywhere, close with work pending | each admitted request is answered once, in order; a close answers all |
| **wotex-modbus, connection** (`connection.ex`, `codec.ex`) | phase, calls, queue, active call, transaction id, send worker | connect, ready, request, send, respond, deadline, fail, terminate | creator, callers, TCP peer, send worker | a write may have left although no answer came; repeated answers; kills | one exchange at a time; an answer belongs to its call; effects are reported honestly |
| **wotex-coap, OSCORE store** (`store.c`) | registry file and its temporary, lock file, reserved and sent sequence numbers | open, lock, admit, persist, reserve, close | other processes, the file system | crash between any two system calls, power loss before a sync | no key and nonce twice |
| **wotex-coap, OSCORE worker** (`worker.c`, `exchange.c`, `observation.c`, `credit.c`, `body.c`) | one exchange, one observation, a report being written, credit, output | commands, datagrams, deadlines, renewal, exit | BEAM, peer, store | lost, repeated, reordered messages; renewal racing expiry and cancel | one answer per command; reports in order; the peer's observer is released |
| **wotex-matter, controller** (`protocol.cpp`, `controller.cpp`, `subscription.cpp`, `value.cpp`, ...) | streams with credit, contexts shared with the SDK, work queue, writer queue | requests, reports, activation, recovery, cancel, retire, shutdown | BEAM, Matter SDK thread, writer, lifetime monitor | three threads; callbacks into contexts that may be freed; a barrier that must be last | barrier last, credit adds up, contexts freed once and not early, honest effects |
| **wotex-matter, bridge** (`bridge_*.cpp`, `storage.cpp`) | tickets, command contexts, observations, endpoints, the store's files | start, read, write, invoke, observe, add, remove, close | consumer process, Matter peers, signals, file system | results after the deadline, fabric removed meanwhile, crash around a commit | a success is fresh and real; the closed receipt is true; an endpoint means one Thing for ever |
| **wotex-opcua, native host** (`owner.c`, `session_*.c`, `subscription*.c`) | request slots, browse continuations, Publish window, reports | open, read, write, browse, subscribe, cancel, close | BEAM, OPC UA SDK and server | callbacks for requests already retired, lost and repeated notifications, sequence wrap | one honest answer; storage not reused early; reports complete and in order |
| **wotex-ble, BlueZ host** (`bluez/native/*.hpp`) | link, discovery, notification entries, pairing agent, output and credit | connect, discover, read, write, subscribe, pair, close | BEAM, `org.bluez` daemon | calls that take effect after they were given up, lost sender, cleanup deadlines | what was acquired at the daemon is released; streams end in one barrier |
| wotex-runtime, codec execution (`codec/beam/execution.ex`) | starter, worker, closing reason, outcome | start, attach, return, cancel, cleanup | owner, starter, codec worker | who dies first; cleanup timeout | one outcome, no surviving worker |
| wotex-coap, -matter, -opcua, -ble: BEAM side | slots of native requests, report ledgers, CoAP exchanges and observations | request, observe, renew, close | the native processes | slot reservation racing close, reordered notifications | freshness, no slot leak |
| wotex-bacnet | leases, COV subscriptions, segments | subscribe, renew, expire | BACnet stack process | renewal racing expiry | one live lease |
| wotex-zigbee | owner of a ZNP co-processor, joins, key rotation, channel migration | staged commands | serial port | partial failure of staged commands | stages are resumable or undone |
| wotex-ble (CoreBluetooth), -thread | native helper processes | connect, read, write, subscribe | platform SDKs | as for the BlueZ host | as for the BlueZ host |
| wotex-routines, -directory, -continuum, -nx, -profiles, -conformance, wotex, HTTP and MQTT bindings | values only | pure functions | consumers | none that is concurrent | functional correctness |
| wotex-lab, tooling | demonstrations, metrics, build scripts | | | | not part of the libraries |

The parts in bold are modelled. Parts interact through three patterns: a process
owned by a supervisor with callers that may die (runtime, UDP, Modbus), a native
process behind a framed pipe with credit (CoAP, Matter, OPC UA, BLE), and files
shared by successive processes (OSCORE store, Matter store).

## Modules

Definitions carry the names of the functions they translate. `Mutant:` comments
mark deliberately wrong variants of an operator. No specification uses them; each
shows that some property notices the bug.

### Runtime: Subscription

The subscription process (`pc`, `active`, `closed`, `opening`, `buffer`), the
guardian (`gpc`, `result`, `claimed`), the worker (`worker`, `wres`) and the
transport, receiver, supervisor and stop callers as environment. One action per
callback; a `GenServer.call` is two actions, request and return, because the
callee and the timeout run in between, and `unsubscribe/4` is its own step because
it runs a foreign callback. Erlang orders signals per pair of processes: messages
of the transport are a FIFO (`chan`), signals of different senders are sets (`sig`,
`gbox`) with guards for the order one sender gives. What the receiver sees is the
history `log`, with `dropped` for what decoding ignored or overflow dropped.

`Faults` selects what may go wrong beyond ordinary crashes of the transport:
`call_timeout` (the guardian does not answer within 1000 ms), `slow_kill` (a killed
worker takes longer than 100 ms to die), `guardian_crash`, `worker_crash`,
`brutal_kill`.

### UDP: AdmissionQueue, Admission, AdmissionCAS, UdpOwner; Queues

`AdmissionQueue` has the record the ETS table holds and the functions on it as
values (`Verdict`, `Admitted`, `Taken`, `Released`, and `Kept`, what a queue
promises). `Admission` states `enqueue/2`, `take/2` and `release/2` as atomic steps.
`AdmissionCAS` is the code: every caller's `reserve/3` loop and the owner's
`mutate/2` loop read the record, compute, and replace it only if it is still the
one they read. `Refinement` says the loops implement the atomic queue; `losses`
counts the owner's failed replacements in one update.

`UdpOwner` has callers' `submit/4` (publish, wake, wait), the owner's callbacks and
the socket, on the same queue. A callback that reads something another process can
change meanwhile (the queue, a deadline, whether a caller lives) is split there:
`StartPump`, `TakeWork`, `Ingest`, `Advance`, `Dispatch`. The alias a wakeup is sent
to, its replacement at each take and the flush of a stale wakeup are modelled; a
wakeup to a dead alias is dropped, as the runtime system does. `Queues` has the
removal from a `:queue` that owner and Modbus connection share.

### Modbus: ModbusConnection

Start-up with the `:ready` handshake, callers' `request/3` with its exit handling,
the serialized exchange with a send worker per request, a peer that answers late,
twice, wrongly or never, deadlines, caller exits, socket loss, termination and
kills. A frame is reduced to the call whose transaction it answers and its verdict.
`transmitted` records requests that have reached the wire; a killed send worker may
or may not have written before it died.

### CoAP OSCORE: OscoreStore; OscoreExchange, OscoreWorker

`OscoreStore`: processes that open one registry directory, one action per system
call of `persist`. The disk is what is visible and what is durable; a crash of a
process keeps the first, a power loss leaves any state the syncs allow. Key
identities are computed from the material the way `store.c` does it, with digests
taken to be collision-free.

`OscoreExchange` has exchange, freshness, credit and body as pure operators;
`OscoreWorker` the single-threaded loop around them with a peer and a network that
loses, repeats and reorders.

### Matter controller: MatterFlow, MatterSubscription, MatterHost, MatterInteraction, MatterValue, MatterRequests

`MatterFlow` is the credit manager, `MatterSubscription` a subscription's buffer and
recovery, `MatterHost` the protocol thread, the writer and the SDK thread over them,
`MatterInteraction` reads, writes, commands and commissionings with the waiting
thread and the SDK callbacks that race its deadline. `MatterValue` and
`MatterRequests` are the tables of what is parsed, converted, encoded and decoded: the
descriptors and their schemas, the decoder and the encoder `controller.cpp` picks for each
attribute, and the list of access control, which is read without widths and given them
back by its tags.

### Matter bridge: BridgeChecks, BridgeCustody, BridgeHost; MatterStore

`BridgeCustody` hands tickets from SDK callbacks to the consumer and back,
`BridgeChecks` the validations, `BridgeHost` the worker, reader, writer, watcher, main
and SDK threads from start to the closed receipt. A peer's request is captured, waits, has its
outcome taken under the custody mutex and is answered after the unlock, each a step of its
own (`WaitTakes`, `CallbackAnswers` for reads and writes, `WorkerTakes`, `WorkerAnswers`
for commands), because deadline and scope are looked at when the outcome is taken and not
again. `MatterStore` is the commit with
its crash points and the recovery at open.

### OPC UA: OpcuaSequence, OpcuaSession, OpcuaHost

`OpcuaSequence` is the numbering of notification messages with its wrap and the
recovery by Republish; `OpcuaSession` browse chains, the browse that exposes no
continuation, and subscriptions; `OpcuaHost`
the request slots and the loop of `main.c`, with a server that loses, repeats and
delays.

### BlueZ: BluezReports, BluezSession, BluezHost

`BluezReports` is output, credit and report queue; `BluezSession` link, discovery,
notification entries and pairing, with the cleanup deadlines that decide whether a close
still submits `Disconnect`; `BluezHost` requests, the turn of the loop, close,
and the daemon.

## Runs

| Run | Question | Bounds |
|---|---|---|
| `subscription` | A caller of `stop/2`, an overflowing or dying receiver, early messages, crashes of guardian and worker and a kill race the open handover. Is the handle given back once, is the caller told the truth, is the order kept, does everything end? | 1 caller, 2 messages, opening limit 1, queue limit 1, policy `stop`, pid receiver |
| `sub_named_leak` | Violation, see findings | 1 message, no fault, named receiver |
| `admission_cas` | Do the loops implement the atomic queue, keep what it promises, and bound the owner's losses? | two sends of different size, a poll, a close; 2 calls, 3 bytes, 1 take, 2 attempts |
| `udp_owner` | Order, bookkeeping, select ownership, one answer per request, a close answers all; is a request served whose caller died before the wakeup? | batch receive of 2, send, close; 3 takes, 1 select, 1 death |
| `modbus` | Serialization, attribution, honest effects, one answer per call; does every admitted call end with a silent peer? | 1 read, 1 write, 3 transaction ids from 2 (so that they wrap), 3 frames |
| `oscore_store` | Is a key and sequence number ever used twice, is every number sent reserved on disk, is the lease exclusive? | 2 processes, 3 opens, 1 power loss, reservations of 1 up to 2, 4 materials of which three collide in part, 2 contexts |
| `oscore_worker` | One answer per command, reports in the peer's order without holes, no event lost, no observer left at the peer | 4 commands (3 with three messages of the peer), 1 odd message, 8 Observe values from 6, window 5, 3 output frames |
| `matter_host` | Barrier last, cancellation after it, credit adds up, no context freed early or never; do the tables agree? Is "no effect" true when it is said in time, does anything reach a released interaction, does a finished one give its place back? | 1 stream, 3 reports, 2 generations, credit 2 and 1, buffers of 1, 2 attempts; apart from it, a write, a commissioning and a commissioning window with one place |
| `matter_effect` | Violation, see findings | a write |
| `opcua_host` | One honest answer, SDK callbacks find their storage, a continuation point has one owner or ends the session, reports are the server's messages in order | requests: 3 ids, 2 slots, 1 chain of up to 3 pages, browses with and without continuation; streams: 1 subscription, 10 messages on a ring of 9 with 3 odd answers, 4 messages held as in the code; 4 messages beside an unsubscribe |
| `bluez_host` | One answer, the link and what was acquired at the daemon are released, each stream reports in order and ends in one barrier that names its last report, with one error at most | procedures beside a stream, pairing, health, on a borrowed link one stream with 5 values, two with 3 and, without an odd outcome, two with 5; window, frames and waiting queue of 2; 3 or 4 requests, 1 or 2 odd outcomes |
| `bridge_host` | Tickets have one owner, receipts are true, a success was current when its outcome was taken, the store is what was acknowledged | 10 workloads: up to 2 peer requests, 3 observations, 2 generations, 1 crash |

Why the bounds are enough to be interesting: the code distinguishes a caller and
the others, so that two callers (or a caller and a stop) make its races; the limits
(64 early messages, 64 attempts, 64 pending calls, 65536 identifiers, 2^24 Observe
values, 128 frames) are constants set so that they are reached and passed; a ring
is started near its end so that it wraps. Where one instance that combines
everything is out of reach, several workloads in one run each combine two or three
of the hazards; the workload is chosen in `Init`. In `modbus` the pending limit is
not reached by live calls; the refusal is reached through expired callers.
In `matter_host` the refused-stream branch (`MaxStreams`) is not reached.
Its interactions leave out the read: with it the four kinds together exceed what TLC
explores in minutes, and a read has no effect to be honest about and takes the path of
the write otherwise. Streams and interactions share the threads and no table, and a
behaviour of the run exercises one of them (`MCMatterHost`). `opcua_host` holds as many messages as the code does
(`WOP_SESSION_HELD`), so that a release hands on several in order. Deadlock
checking is off where a process may legitimately end or wait for ever for its
environment; it is on in `bridge_host`, whose last state stutters.

Fairness is stated for `subscription`, `udp_owner` and `modbus`: weak fairness of the
modelled processes' own steps, because the BEAM schedules every runnable process,
delivers signals and fires timers. None is assumed of transport callbacks, peers,
sockets, callers or receivers, so the liveness results hold if those stay silent.
Progress is therefore stated up to the point where the code waits for one of them:
`Ends` stops at the call of `unsubscribe/4`, which has no timeout of its own. The
native hosts state no fairness; what must eventually happen there is stated as an
invariant (`CancelNotLost`, `CreditBalance`: whoever waits, something that will
release it is on its way).

## Findings

Two runs end in a violation: a document says one thing and the code, in the order
TLC shows, does another.

* `sub_named_leak`. The receiver is a registered name and exits while `open/2`
  flushes early messages. `send/2` to a missing name raises, so the process crashes
  inside the callback instead of stopping with `{:shutdown, :receiver_down}`, and
  `terminate/2` gets the state from before the open: it cancels the guardian, which
  has already handed the result over, and finds nothing to unsubscribe. WRT.01
  promises "Monitor fires; unsubscribe; stop". With a pid receiver the property
  holds and is proved (`HandleInCustody`).
* `matter_effect`. `OnConnected` checks the remaining time (`controller.cpp:1192`) and
  submits the write later (1295-1333). If `Wait` (1120-1134) times out in between,
  it classifies by `mutation_.submitted()`, still false, and the caller is told that
  nothing was submitted; then it is. `error.ex:6-8` promises `:none` only when
  nothing was. Said before the deadline, the effect is honest (`EffectHonestInTime`).

Met while modelling, described here and not made runs; for the first two the property a
document states is in the module, and TLC refutes it when it is added to the run:

* OPC UA, `NoStrayContinuation` in `opcua_host`. A Browse without `allow_continuation` that
  times out or is retired while pending fails, and the session goes on: only operations of a
  chain set `browse_orphaned` (`session_open.c:1120-1126`, 1197-1209). The server may keep the
  continuation point it allocated; WOP.05:279-281 closes the session then.
  `ContinuationOwned`, which holds, is about the browses that allow one.
* BlueZ, `LinkReleased` in `bluez_host`. A `StopNotify` that is not answered by the entry's
  cleanup deadline ends in `force_close` with that deadline (`notifications.hpp:74-79`), and
  `discovery.hpp:46` then finishes without `Disconnect`: an owned link stays up while the host
  goes on. WBL.04:232-233 has a stalled `StopNotify` close the sender within a grace that also
  bounds the submission of `Disconnect` (86-88). `LinkCustody`, which holds, excuses a cleanup
  that ran out of its own time.
* Subscription, `call_timeout`: the guardian answers a claim after the 1000 ms the
  subscription waits, and the handle is in the discarded answer. `slow_kill`: a stop
  whose cancel gives up after 100 ms while the worker, killed but not yet dead, still
  returns a handle nobody unsubscribes. WRT.01: the subscription "MUST always attempt
  the protocol unsubscribe on graceful termination". TLC finds each with that
  fault alone added to the `subscription` run; both are excluded by name (`Reliable`)
  in `HandleInCustody`.
* Matter controller: a subscription that recovers or ends between its success reply
  and `ActivateSubscription` makes the dispatch fail, and the host closes every
  stream (`protocol.cpp:1624`); WMA.08:211 says other streams survive. `Activate` emits
  after it released its mutex, so `OnReportEnd` may emit a newer report first
  (`controller.cpp:1651-1662`, 1765-1773). A `ScheduleWork` that refuses leaks the
  context it should have reaped (872, 1081, 1566, 2070).
* OPC UA: a CreateSubscription answered by BADTIMEOUT does not set
  `subscription_orphaned` (`session_open.c:1103-1167`), although WOP.07:786 says that an
  unconfirmed create ends the generation. A browse page too large for a frame, with
  a live continuation point, is answered by `response_limit` and its token is lost
  (WOP.03:149).
* BlueZ: a discover that waits for a refresh is never answered when a concurrent
  `StopNotify` fails and force-closes the owner (`host.hpp:137-149`,
  `notifications.hpp:74-79`); WBL.04:98 says pending work fails. The comment at
  `host.hpp:75` ("Only then may link ownership disconnect that sender") does not hold
  when a procedure is active at close.
* OSCORE store and Matter store: a crash in the middle of creating a store leaves
  one that is refused from then on. It fails closed; nothing is reused.
* Matter bridge: a consumer that hangs up right behind its close frame races the
  watcher's POLLHUP and may get no receipt; `OpenExisting` does not sync the
  directory, so that an intent it unlinked may come back after a power loss (the
  recovery then refuses it).

## Proofs

| Theorem | Module | States |
|---|---|---|
| `TypeCorrect` | `SubscriptionProofs` | `Spec => []TypeOK` |
| `UnsubscribedAtMostOnce` | `SubscriptionProofs` | `Spec => []UnsubscribeOnce` |
| `DeliveredInOrder` | `SubscriptionProofs` | `Spec => []Delivery` |
| `BufferAlwaysDisciplined` | `SubscriptionProofs` | `Spec => []BufferDiscipline` |
| `HandleInCustody` | `SubscriptionProofs` | `Reliable` implies `Spec => []Custody` |
| `QueueAlwaysKept`, `OwnerLossBound` | `AdmissionCASProofs` | `Spec => []QueueKept`, `Spec => []OwnerLossesBounded` |
| `Implements` | `AdmissionCASProofs` | `Spec => Refinement`, the atomic queue's specification |
| `DisciplineAlwaysKept`, `AnswersAlwaysOnce` | `UdpOwnerProofs` | `Spec => []ServiceDiscipline`, `Spec => []Answers` |
| `ExchangesSerialized`, `AnswersHonest` | `ModbusConnectionProofs` | `FewCalls` implies `Spec => []Serialized`, `Spec => []HonestAnswers` |
| `NonceNeverReused`, `SequencesReserved`, `LeaseAlwaysExclusive` | `OscoreStoreProofs` | `Spec => []NonceUnique`, `[]SequenceReserved`, `[]LeaseExclusive` |
| `ObserverAlwaysReleased`, `CommandsAnsweredOnce` | `OscoreWorkerProofs` | `Spec => []ObserverReleased`, `Spec => []AnsweredOnce` |
| `ContextsFreedLast`, `CancelsReachTheQueue` | `MatterHostProofs` | `Spec => []NoDanglingContext`, `Spec => []CancelNotLost` |
| `BarriersCloseStreams`, `CancelsConfirmedLast`, `CreditIsBalanced` | `MatterHostProofs` | `Spec => []BarrierLast`, `Spec => []CancelAfterBarrier`, `Spec => []CreditBalance` |

They hold for every value of the constants that satisfies the modules' named
assumptions (`ConstantsAssumption`, `AdmissionAssumption`, `CASAssumption`,
`OwnerAssumption`, `ConnectionAssumption`, `StoreAssumption`, `ExchangeAssumption`,
`WorkerAssumption`, `CreditAssumption`, `BoundsAssumption`): types of the parameters, non-zero limits, distinct markers. So
they do not depend on the bounds of the runs. Two theorems have a hypothesis more:

* `Reliable` (`HandleInCustody`): a pid receiver, and neither `call_timeout` nor
  `slow_kill` among the faults. Each of the three alone loses the handle, see above.
  Crashes of guardian and worker, kills of the process, overflow and stops remain.
* `FewCalls` (`ModbusConnectionProofs`): no more calls than transaction identifiers
  (65536) in the life of the connection. Beyond that an answer that is 65536
  transactions late has the identifier of another call.

Every inductive invariant was first checked by TLC on the component's run.

**Subscription.** `TypeOK` is inductive because it also ties the guardian's `nil`
result to a claim and a stop caller's answer to a computed result.
`UnsubscribeInv` says where the process can be after `unsubscribe/4`: ending, or in
`terminate/2` with `closed?` set. `OrderInv` says where the messages are: while the
process runs, what was forwarded or dropped is an initial segment of what was sent,
the buffer continues it and the channel continues the buffer (`Numbering`), and no
final entry is logged. `CustodyInv` follows the handle: which processes exist; a
result is on its way to the guardian or held by it until it is claimed; an
unanswered claim or cancel has a caller that waits; after the guardian gave the
handle away, the reply, `active?`, the running unsubscribe or `unsubs = 1` has it;
and the process ends only when that is settled. `BufferInv` says that a process that
is active, or has an `ok` on its way to it, was given the worker's result by a claim.

**Admission.** What an admission, a take and a release do to a queue with `Kept` is
stated about queue values, and used in the same words by the loops
(`AdmissionCASProofs`) and by the owner (`UdpOwnerProofs`). A close stays the newest entry because `closing` refuses others. The
refinement needs `LoopInv`: a caller about to replace holds a snapshot that admitted
its request, so that a successful comparison makes the step the atomic one; the
owner's task stays valid because callers only add entries. `LossInv`: while the owner
updates, entries are only added, so its losses are at most the entries, which are at
most `max_calls`. This is the comment above `mutate/2`, proved.

**Queues.** What the removal of elements leaves of a queue: its elements, their
order and distinctness. The removal is a recursive function, and the induction is done
by hand: if the claim fails for some length, there is a least such length
(`LeastNumber`), and one unfolding of the function contradicts it.

**UDP owner.** The invariant is the agreement of five pieces of bookkeeping that
separate callbacks change: the pending map, the queue, the entries of the admission
record, the armed select, and how far the current callback got. It implies that a
request leaves all of them at once, when it is answered.

**Modbus.** `Unused` (nothing is asked of a connection that is not ready), `Sorted`
(calls are the queued ones and the active one), `Ledger` (what is known of each
call), `SentOnce` (only the active call has a transaction identifier and is still
unanswered), `Untold` (a write told to have had no effect is neither sent nor going to
be), `Turn` (identifiers are given out in turn and, by `FewCalls`, none twice) and
`Attribution`, the part of `HonestAnswers` about answers of the peer.

**OSCORE store.** `Lease`: the lock is held exactly by the process inside. `Durable`:
every registry that a crash may leave is whole and covers all numbers sent.
`Lessee`: what the process inside read is what is on disk, what it is about to
write covers everything sent and ends in its own reservation; its sequence number is
at most what was granted, that at most the boundary, and the boundary at most the
target; and nobody else has sent in its key spaces. `NonceUnique` follows, through any number of
crashes, because a boundary is durable before the first number below it is used.

**OSCORE worker.** `Numbered`: requests are numbered and no two have the same number.
`Pending`: what is pending is the last request, and after a cancellation nothing is
registered again. `Known`: while nothing was cancelled, the peer knows at most the
last registration or the one it renews; an answer to a registration in flight means
that the request is no longer on its way, and a refusing one that the peer has
forgotten it. Without the last part the invariant is not inductive: an old refusal
could make the worker forget a registration that the peer still makes. Then
`wco_exchange_abandon` leaves a later cancellation wherever the peer may have
registered. `Ledger` is the invariant of `CommandsAnsweredOnce`: for each command, the
answers the BEAM received, those in the output and the request in progress are
together at most one, exactly one while the worker runs and has read the command, and
none before; an exchange is active exactly while something is pending; and the
sequences assigned and not yet written are the report frames in the output. Every
operator is shown to add one answer for the command it is given, or none for the
others, or to fail the worker (`Owes`), and these facts compose along the code.

**Matter controller.** `Custody` follows a subscription's context between the
dispatcher, which schedules its start and its cancellation, the SDK thread, which runs
them and schedules the reap, and the work queue between the two. For each context: a start
is its first item in the queue and stands before a shutdown, and no cancellation follows
the reap (`Order`); a done context, one that is not listed yet and one whose start is
still queued have neither client nor timer, and no handler of the SDK thread is about
them; only a listed context has a cancellation queued and only a done one a reap; and
while the host runs, a scheduled cancellation is queued until it was run, and a done
context that is still listed has its reap queued. To be inductive it also has to know
that a recovery timer is not armed while the first connection is made (`Armed`), and that
the frames on the dispatcher's stack name contexts that exist (`Known`).

The three properties of streams and credit rest on `Sync`, an invariant on top of `Custody`.
`Ledger` is what holds of the protocol state whatever has failed: counts, window and
queue of the credit manager agree, nothing is left between it and the writer, and the
frames written so far obey `BarrierLast` and `CancelAfterBarrier`. That alone is not
inductive, because the next barrier takes its number from the credit manager and the
next report its generation from the subscription table. So `Tidy` says that a live
stream has no barrier yet and that its last report is the number the credit manager
remembers; `Sound` that the live streams are exactly those of the subscription table, that
every other stream still in the manager has its barrier, and that no frame is of a
later generation than the table's. Both stop holding after a failure, and at different
points: a retirement that has begun still writes its barrier after another thread has failed the
session, so `Tidy` has to survive that and `Sound` does not. Two facts join it to the
threads. A request that waits on the dispatcher's stack still finds what it waits for
(`Awaits`): a subscribe nothing of its identity sent (`Fresh`), a cancellation a stream that is
live or has its barrier; this is what goes wrong when the SDK thread ends a stream
between a cancellation's check and its return. And only a cancellation nests, inside
a request that is not one (`Nested`). Most of the proof is on the operators: submitting, transmitting,
draining, acknowledging and retiring each keep the counts, and queues
filtered by stream keep those of the others (`QueuesProofs`).

### Only model-checked

* `Ends`, `Served`, `EveryCallEnds`: liveness under fairness is out of the prover's reach.
* `ReportsKept` of the OSCORE worker (`ReportsInOrder` and `EventsKept`): the proof would follow every
  report through freshness, slot, output and credit. For every value of the constants,
  `ReportsInOrder` also needs the notifications in flight to span less than half the
  Observe ring: the run's bounds give that, and the code leaves it to the peer and the
  network (`observation.c:24` compares modulo 2^24 within 128 seconds).
* The properties of `OpcuaHost`, `BluezHost` and `BridgeHost`. Their
  invariants relate a dozen variables of three or more threads; TLC covers their
  workloads completely. `TablesAgree` compares tables and is checked by evaluation.

## What is not modelled

The parts that `PROJECT.json` lists as `not_modelled`, and of the others:

* data: payload decoding, credentials, telemetry, error texts, byte framing (an
  ignored delivery keeps its effect on control); `valid_request?/1` and option
  validation; cryptography and libraries (libcoap, Matter SDK, open62541, `org.bluez`)
  beyond what the code relies on;
* time: a timeout may fire whenever it is armed, and no relation between two
  durations is used except where it is a fault named above;
* UDP: socket creation in `init/1`; join, leave and local are the operation `other`;
* OSCORE store: the checks of the directory itself (`store.c:100-170`) and foreign
  tampering;
* OSCORE worker: a cancellation that cannot be sent always fails the exchange, in
  `exchange.c:589-593` only when the store refused; the other refusals are the library's. A
  failed observe send keeps the event kind that `worker.c:1147` clears, which nothing reads
  before the next observe sets it;
* Matter controller: refusal of `ScheduleWork` and, in `OnResubscriptionNeeded`, of
  `StartTimer` (1937-1943), which would end the stream as a failed recovery does; the 64 live
  streams of `subscription.cpp:348`; a close or a malformed line nested in a request is
  applied when it is read, while the code unwinds to the outer request first
  (`protocol.cpp:1564-1568`, 1657-1659), whose answer is dropped in both; retiring a
  stream after a cancellation and erasing it from the table (1268-1283, 1288-1291) are one
  step, since the context is done by then and the SDK thread has nothing more to say
  about it; in the tables, what the SDK makes of unknown enumerators is left out, a list of
  access control is far below the 1024 elements the code reads, numbers are 16-bit halves, node ids are scaled, and the nesting of `ElementValue` is abstracted;
* OPC UA: `call` (the control flow of write), an encode failure of a first browse page,
  which is terminal in the code and a failed request in the model, allocation failures,
  refused Republish sends,
  namespace translation (`session_open.c:263-400`);
* BlueZ: byte limits and exact-byte acknowledgements, overflow of barrier frames,
  page cursors; a write turn writes everything or nothing; boot calls are one step;
* Matter bridge: endpoints may be added and removed while it runs, which in the program only
  its tests do; one fabric; a consumer frame is read as sent; a validator is a set
  of checks, named for the conditions the mapped lines test, and an input that fails any is
  refused as a whole, so that a rejection at every such point is a step of the model; failures of Attach.

## Plan

Done: the modules above, with the order runtime, UDP, Modbus, then the native hosts;
proofs of every safety property of the BEAM components and of the OSCORE store, of the
OSCORE worker's answers and the release of its observer, and of the Matter controller's
subscription contexts, streams and credit.

Left, in this order:

1. `EventsKept` of `OscoreWorker`, on the types, the exchange invariant and the ledger
   already proved.
2. `CodecExecution`, the codec custodian of wotex-runtime.
3. `NativeAdmission`, the reservation table of the CoAP and Matter connections at the
   granularity of its ETS operations, against an atomic specification, as
   `AdmissionCAS` is to `Admission`.
4. CoAP `observation.ex`: freshness, assembly and renewal.
5. The BACnet COV owner, the CoreBluetooth and OpenThread hosts, then the Zigbee
   owner's staged operations.
