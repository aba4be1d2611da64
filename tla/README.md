# Thalweg in TLA+

Thalweg is a local-first event store: one daemon per device keeps an immutable
log of events, serves local clients over a Unix socket and replicates each
network it is a member of with other daemons. This directory holds TLA+ models
of the daemon, the TLC runs that check them on small instances and TLAPS proofs
for all instances. Paths below are relative to the repository; Go files without
a directory are in `core/daemon`.

Contents: [inventory](#inventory), [modules](#modules), [runs](#runs),
[bounds](#bounds), [fairness](#fairness), [proofs](#proofs),
[where code and documentation disagree](#where-code-and-documentation-disagree),
[what is not modelled](#what-is-not-modelled), [plan](#plan).

To run: `tlc -config EventStore.cfg MCEventStore` (each run of `PROJECT.json`
names its module and configuration) and `tlapm EventStoreProofs.tla`, and likewise
for `DurableSiphonProofs`, `MeshSyncProofs`, `MeshPeersProofs`, `RegistryProofs`,
`EnrollmentProofs` and `SdkClientProofs`.

## Inventory

| Component | State | Operations | Interacts with |
|---|---|---|---|
| Event store and clock (`daemon.go`, `hlc.go`) | events, ID index, arrival index, persisted and in-memory HLC, `ingestMu` | `ingestInternal`, `ingestReplicated`, start | broadcast, siphon wake channel, mesh wake-up |
| Durable siphons (`durable_siphon.go`) | definitions with cursor and pending batch, `durableMu`, the wake channel | create, poll, long poll, acknowledge, delete | arrival index, registry workers, clients |
| Live subscriptions (`daemon.go`) | subscriptions with bounded queues | register, unregister, broadcast, deliver | ingestion, client connections |
| Mesh synchronization (`sync.go`) | the session on a stream: phase, cursor, page | push and pull inventory, serve requests | event store, conflicts |
| Conflicts (`conflicts.go`) | observations; resolution and recovered events | record, resolve, materialize, reconcile at start | event store, sessions |
| Mesh peers (`peer_health.go`) | peer records, `meshSyncing`, `meshLeaving`, wake set and token | retry loop, event loop, synchronize, remember, remove | sessions, memberships, ingestion |
| Handshake (`mesh.go`) | the membership captured for a stream | prove membership, remember the peer, serve | memberships, mesh peers |
| Memberships (`membership.go`) | name to credential, a file | create, join, invite, leave, with rollback when the file cannot be written | everything that needs a credential |
| Enrollment (`enrollment.go`) | offers, pending requests, timers | listen, close, request, approve, deny, expire | memberships, mesh peers |
| Lifecycle and local server (`daemon.go`) | started, closed, clients, wait groups | start, accept, handle, close | everything |
| Storage schema (`version.go`) | version, key formats | three migrations | event store |
| Registry (`internal/registry`) | accepted snapshot, workers, manual stops | start, reload, start, stop and reset a definition, deliver | durable siphons, ingestion |
| Client transports (`packages/sdk-*`, `internal/ipc`) | connection, pending requests, queued events | request, subscribe, reconnect, close | local server |
| Command line, consoles, lab, installer | processes and files | | local server |

What makes them hard:

* Goroutines of clients, of streams in both directions and of two background
  loops share the store. Only `ingestMu`, `durableMu` and two small maps order
  them, and much is decided in one transaction and acted on in another.
* The process may die between any two transactions; memory (clock, wake-ups,
  exclusions, outstanding work) is rebuilt from what was committed.
* Daemons accept events independently, so one ID may get two envelopes, and
  clocks disagree or go backwards.
* Deliveries and synchronizations fail, are repeated and overlap.

What makes each component correct:

* Event store: an append-only log of immutable envelopes, one per ID; a new
  stamp lies after everything stored; a retry gets the first answer.
* Durable siphon: at-least-once delivery without a gap, a cursor that never
  moves back, no lost wakeup.
* Synchronization and conflicts: replicas converge, no envelope is replaced,
  both sides of a conflict learn of it, every variant held when the resolution
  comes is recovered.
* Mesh peers: every local event reaches every remembered peer; leaving a network
  forgets its peers.
* Subscriptions: order of local events; a siphon misses none, or its client can
  tell, because it is disconnected.
* Client transport: every call settles, whatever becomes of its connection, and
  the retry of an ingest never stores a second event.
* Enrollment: `enrollment_join` gives membership only if a user approved that very
  request (the other ways to a network are to create it and `network_join` with its
  invitation); a request is decided at most once, and one that nobody decides ends
  with its offer.
* Lifecycle: Close ends, and no command runs on when the store is closed.
* Registry: the workers are those of the accepted definitions, and none is
  forgotten while it lives; a call that waits for a worker returns.
* Migrations (planned): no event is lost at any crash point.

The complete list of hazards, each at its line and with the properties that are
about it, is in `PROJECT.json`.

## Modules

| Module | What it is |
|---|---|
| `EventLog` | abstract: an append-only log in which an ID arrives once |
| `EventStore` | the event store; implements `EventLog` |
| `EventStoreProofs` | theorems about `EventStore` |
| `DurableSiphon` | a siphon and its consumers over an `EventLog` |
| `DurableSiphonProofs` | theorems about `DurableSiphon` |
| `MeshSync` | sessions between daemons, conflicts and their resolution |
| `MeshSyncProofs` | theorems about `MeshSync` |
| `MeshPeers` | when a daemon synchronizes with whom, and leaving a network |
| `MeshPeersProofs` | theorems about `MeshPeers` |
| `LocalServer` | the local protocol at the daemon: handlers, answers, live subscriptions, Close |
| `SdkClient` | the JavaScript SDK, composed with `LocalServer` |
| `SdkClientProofs` | theorems about `SdkClient`, and with it `LocalServer` |
| `Registry` | definitions, their workers and the calls of clients about them |
| `RegistryProofs` | theorems about `Registry` |
| `Enrollment` | offers, requests and decisions between daemons |
| `EnrollmentProofs` | theorems about `Enrollment` |
| `MC*` | the instances that TLC checks |

Each `X_Y` definition is a plausible mistake in `X`; no specification uses it. It
shows that the property named in `PROJECT.json` notices that mistake.

### EventLog and EventStore

A handler of a local request captures the request and reads the wall clock
(`BeginIngest`), then waits for `ingestMu`. With the mutex it answers a retry
(`AnswerRetry`), is refused (`RefuseLocal`) or commits (`CommitLocal`); the
transaction writes event, ID index, arrival index and clock or nothing
(`Commit`). Still under the mutex it advances the clock in memory, broadcasts and
answers (`CompleteLocal`). A replicated event is stored with a merged stamp
(`CommitReplicated`), the mutex is released (`UnlockReplicated`) and only then
it is broadcast (`AnnounceReplicated`). `Restart` may come anywhere, also between
a commit and what follows it in memory.

The wall clock is any member of `Walls` at every reading. Stamps are pairs of
physical time and logical counter; the width of the counter and of the arrival
sequence are constants, and exhausting either fails the transaction. The signals
to siphons and to the mesh are the subject of the modules on those.

`EventLog` is what siphons and sessions rely on. `ArrivalLog` is the refinement
mapping: the envelopes in the order of the arrival index. Every committed event
is one `Arrive`, everything else, crashes included, a stuttering step.

### DurableSiphon

The arrival log is an instance of `EventLog`. Each operation of the code is one
transaction under `durableMu` and one action here. A long poll takes the wake
channel (`TakeWake`), polls (`Replay`, `Prepare`, `FindNothing`, `PollRefused`)
and, if nothing was found, waits (`Sleep`) for the channel or its deadline.
Storing an event and signalling are separate, as no mutex covers both. A consumer
processes its batch and acknowledges it by delivery ID; it may fail before, and
after a restart of the daemon a client may still acknowledge a batch it was given
earlier, or one of a siphon deleted since. A resolution supersedes the event it
names, which the scan then passes over.

History variables: `begin` and `backlog` tell what was in the log when the siphon
was made, `handled` which batches were processed.

### MeshSync

Each daemon runs at most one session per initiator. A session reads a page of the
inventory at its source, compares it at the sink, and stores the missing events
there one at a time, first pushing then pulling; between any two of these steps
other sessions, clients, users, cuts and restarts may act. The cursor is the
position of an ID in the index, and recovered copies may appear on either side
of it. A resolution is a normal event; who stores one then materializes its own
variant (`RecoverNext`, `Recover`), and a daemon that starts does so for every
resolution it holds before it takes requests (`Reconcile`, `Started`), although
its stream handlers already serve.

What tells two variants apart is the device that made them: stamps, payloads and
digests are left out. Hence errors that depend on them (a clock too far, a
malformed event) do not occur; the only error of a transfer is a conflict that
was not there when the inventories were compared (`RefuseNext`).
Two resolutions of one ID recorded by the same device count as one: nothing the
properties say depends on how often a device decided.

### MeshPeers

One network of one daemon. `syncer` holds everybody who runs
`synchronizeKnownPeer`: the event loop, the retry loop and clients. A loop loads
the records and goes through them one at a time; what it loaded may be stale when
it comes to a record (`todo`, `shaky`). `MayStart` is the exclusion by
`meshSyncing` and `meshLeaving`. A leave has three steps: the guard, the
membership file, the records. A handshake has two: the check of the membership
and the record. Ingestion signals in two steps, the set of networks and then the
token. A session either carries every event stored before it began or fails, which
is what `MeshSync` shows of it.

`owed` is a history variable: a peer is owed a session `soon` while the event loop
is to bring it about, `later` when a failure, a lost connection or a restart leaves
it to the retry loop. `strays` are the peers that a late handshake, a crash or a
failed write may leave behind.

### LocalServer and SdkClient

`LocalServer` is the daemon's end of each connection. A handler takes one request
(`HandleIngest`, `HandleRegister`, `HandleUnregister`, `HandleFails`) and writes
its answer (`Answer`) before it takes the next. An event goes to the queue of every
subscription that has room (`Broadcast`); the subscriptions found full are cut
afterwards, outside the lock (`Disconnect`). A goroutine per subscription writes
its queue to the connection (`Deliver`) and shares the connection's encoder with the
handler: an answer that is not written within the deadline may leave half a line
behind and silences the encoder for good (`AnswerExpires`). `Shutdown` and `Closed`
are the two ends of `Daemon.Close`, `IdleOut` is the idle window.

`SdkClient` is a Node process. The event loop is part of the model, as the code relies
on it: continuations of promises (`jobs`) run before the next event of a socket, and a
chunk of data may hold several lines (`reading`) or end within one (`ReadPart`).
`socket`, `connecting`, `pending` and `buffer` are the fields of `DaemonClient`;
`waiting` holds, for each socket, the calls that await its promise. The fields belong to
the client and not to a connection, and so the close of a socket that was replaced takes
them from its successor (`SocketClosed`), and the half line of one socket is put before
the lines of another (`ReadGarbage`). A request that was rejected for lack of a
connection, and a timeout, look the same to the caller (`lost`).

The library socket is modelled from how the code uses it: `connect`, `error`,
`data` and `close` in that order, a write to a connection that the daemon has
closed destroys the socket together with what was not read.

What the model has and no property forbids: a registration whose answer is lost
leaves a subscription at the daemon that nobody reads (its queue goes to a handler
that is missing, 128 events are kept and the rest is dropped: `spilled`); after
`AnswerExpires` a connection stays open and answers nothing more; a subscription that is
unregistered between the overflow and the cut is not disconnected; pushes do not
renew the idle window, so that a quiet subscriber is disconnected after five minutes.

### Registry

`op` holds what each client call is doing; a step is what the code does under one
hold of `r.mu`, but for a reload, which keeps the lock (`lock`) while it waits for each
worker it replaces (`Replace`, `Replaced`). A stop takes its worker out of the
map under the lock and waits for its end without it (`TakeWorker`, `Cancel`,
`Stopped`), and what comes in between sees no worker. A restart is a stop and a
start; a reset deletes the siphon at the end. A worker is a record with the definition it was
started with; the siphon it consumes exists, with a selection, or not. What
the siphon delivers is in `DurableSiphon`. `Boot` takes the snapshot on disk, and the
files only if there is none. `CancelAll` and `CloseRegistry` are two steps: calls
that hold the lock in between start workers whose context is cancelled.

`forgotten` is a history variable: the names whose siphon a reset has deleted and
that nobody started since. A reset counts only if no earlier worker of the name is
still being stopped by somebody else, because that one may yet create the siphon again
(`CreateSiphon` does not look at the context, worker.go:167). What else the
model has and no property forbids: a start finds a worker that has failed or
completed and does nothing (runtime.go:150); a reset, a start and a stop before the reload
with another selection leave a worker that fails because the siphon is back with
the old one; a worker started after Close stays in the map, cancelled.

### Enrollment

`request` joins the two ends of an enrollment: the applicant's call (`client`), the
sponsor's handler of its stream (`handler`), the channel between the operator's call and
the handler (`decision`) and what is sent back (`answer`). `Choices` are the ready
cases of the handler's select, any of which Go may take: an approval in the channel may
lose against the timer. The select holds no lock (`Wake`); only then is
the request removed from the list under `enrollmentMu` and the answer written (`Finish`). In
between the request is listed and can still be decided, although its handler has
chosen. This is why `PendingIsHeard` says of a listed request that its handler waits *or*
has given up for a reason that is there to see, the end of the offer or of the daemon, and
why a user may be told that a request was approved whose applicant is refused;
`DecisionsAreKept` says that nothing else brings that about.

`Take` is the removal of a request
from the list and `Answer` the invitation and the send, with any leave or creation of a network
in between: the credential that is handed out is that of the network mounted then. An
approval that finds no network fails, after the request left the list, and the
applicant waits for the offer to expire. The reply to the operator (daemon.go:495) comes later
still, perhaps after the applicant has mounted the network or the sponsor has died; no
state depends on it and it is no action. What counts as the approval is the decision of the
user, recorded when a call takes the request (`approved`, a history variable).

Membership without enrollment is there too: `CreateNetwork`, and `JoinNetwork` with the
invitation of any network there is, by whatever way it reached the user; `invited` are the
daemons that mounted their network so. `NeedsApproval` is about all others.
`network_invite` changes no state and is no action: it repeats the invitation that
`network_create` returned, and `JoinNetwork` supposes that any user may have it.

The applicant's stream has no deadline
(enrollment.go:394), so its `Close` waits for the sponsor; `ClosesEnd` shows that two daemons
that close while each waits for the other do not wait for ever.

## Runs

| Run | Checks | Shows |
|---|---|---|
| `event_store` | `TypeOK`, `ClockCoversStore`, `AnswersAreStored`, `LocalAnnouncedInOrder`, `FreshStampsDominate`, `ImplementsEventLog` | with two handlers, crashes and clocks that go backwards, the store is the append-only log, the clock covers it and answers stand |
| `durable_siphon` | `TypeOK`, `NothingSkipped`, `NoLostWakeup`, `AcknowledgedStaysDone` | no gap, no step back and no lost wakeup for two consumers of a siphon that is also deleted and made again |
| `durable_siphon_live` | `EveryMatchDelivered` | at-least-once delivery past a failure |
| `mesh_sync` | `TypeOK`, `HeldVariantRecovered`, `EnvelopesAreImmutable` | two daemons that dial each other, two users who resolve, one fault: nothing is replaced and no variant held at the resolution stays unrecovered |
| `mesh_sync_live` | `ConflictNoticed`, `Convergence` | both sides learn of a conflict; at rest both show the same history |
| `mesh_peers` | `TypeOK`, `SyncsRespectLeave`, `NoLostWake`, `EventsReachPeers` | no wake-up is lost, no synchronization brings back a forgotten peer, every event reaches the peer |
| `sdk_client` | `TypeOK`, `IngestedOnce`, `NoSilentGap`, `SilentAfterStop`, `CallsSettle`, `SlowSubscriberCut`, `CloseEnds` | across refused, replaced, cut and crashed connections calls settle, nothing is stored twice, gaps are noticed, and the daemon can close |
| `registry` | `TypeOK`, `OnlyAcceptedRuns`, `NoOrphan`, `ResetForgets`, `NoCommandPastClose`, `CallsReturn` | workers and siphons under two clients, edits, a crash or a failed write, and Close |
| `enrollment` | `TypeOK`, `NeedsApproval`, `OneDecision`, `PendingIsHeard`, `DecisionsAreKept`, `RequestsEnd`, `ClosesEnd` | two daemons that enroll each other, one of which may be invited as well, two users of the other who decide, expiry, a lost stream or a crash, and Close |
| `late_variant` | `EveryVariantRecovered` | violated, see below |
| `racing_conflict` | `ConflictNeverBlocks` | violated, see below |
| `leave_race` | `LeaveForgetsPeers` | violated, see below |

The runs of the event store, siphons and mesh keep the deadlock check: something
can always happen there, if only a restart, a poll or a tick of the retry loop.
`sdk_client`, `registry` and `enrollment` turn it off, because there the system may
really stop: a program makes no more calls, a daemon is closed in good order and
not started again, users do nothing more. That nobody is left waiting when
it stops is what `CallsSettle`, `CallsReturn`, `RequestsEnd`, `CloseEnds` and
`ClosesEnd` say.

## Bounds

| Constant | Values | Why they are enough |
|---|---|---|
| `Walls`, `MaxLogical` | {1, 2}, 2 | ahead, level and behind each occur; the counter runs out |
| `Keys`, `MaxArrivals` of `EventStore` | 3, 2 | a retry, a conflict and a full sequence, the latter with an ID left to try |
| `Workers` | 2 | one handler may hold the mutex, wait for it or announce late while the other does anything |
| `Consumers`, `Limits` | 2, {1, 2} | a batch replayed to another consumer; a limit below and above the matches |
| `MaxArrivals`, `MaxCreates` of `DurableSiphon` | 3, 2 (live: 2, 1) | an event wanted, one of another network and a resolution in any order; a late acknowledgement for a siphon made again |
| `Nodes`, `Ids`, `PageSize` | 2, 2, 1 | a conflict and an unrelated event on pages of their own, so that everything falls between two pages; the late variant takes a third node |
| `Peers`, `Clients`, `Handshakes` | 1 each | two loops and a client compete for the peer; peers do not interact but through the todo lists of the loops |
| `MaxMounts`, `MaxEvents` | 2, 1 | a network left and mounted again; an event that comes before, during or after each step of the loops |
| `Ingests`, `Handles`, `Connections` | 1, 1, 4 | a retry, a stop and a reconnection of either; every request of the two calls may need a connection of its own |
| `QueueSize`, `WireSize`, `EarlyLimit`, `MaxMeshEvents` | 1, 2, 1, 1 | with the event of the ingest two broadcasts: a queue with room, full, and drained between; an answer behind an event |
| `Snapshots` | 3 of one name | a definition kept, edited and replaced by one of another kind, that may or may not retry; names meet only in the lock, which two calls contend for |
| `Callers`, `MaxCalls`, `MaxEdits`, `Slots` | 2, 3, 1, 4 | two calls at once and one more before or after; four workers alive at once are more than three calls can leave behind |
| `Daemons`, `Operators`, `Home` | 2, 2, both at the same daemon | requests in both directions at once, one of which is decided by two users of its sponsor that compete, while the other finds nobody and waits for the offer to end |
| `Invitees` | the daemon without operators | the applicant whose request is decided: it may have the network by an invitation, leave it and enroll, or the reverse, at any moment of the request |
| `MaxNetworks`, `MaxOffers`, `MaxRequests` | 1 each per daemon | a daemon sees its own network and that of the other, hence also an approval with another credential than the one offered, and an applicant that has mounted something else by the time of the answer |
| `MaxFaults`, `MaxFailures` | 1 | one fault at any point of any interleaving; faults that only a second one would expose are beyond these runs |

Consumers and workers are symmetric sets in the runs that check no liveness. Nodes
are not, as the order of IDs in the index tells them apart.

## Fairness

* `DurableSiphon`: goroutines in a poll go on, the deadline of a wait comes
  (`time.NewTimer`), a consumer processes and acknowledges (`runConsumer` loops
  until it is stopped), a handler that stored an event signals. Nothing is assumed
  of arrivals, creation and deletion, and failures are bounded.
* `MeshSync`: a daemon dials each remembered peer again and again
  (`meshRetryLoop` and its ticker), a session and a recovery that have begun go on.
  Nobody has to ingest or to resolve; faults are bounded.
* `MeshPeers`: loops, handlers and signals go on and the time of the next attempt
  comes. Nobody has to mount, leave, dial or ask for a synchronization, and an
  admitted handshake may take for ever.

* `SdkClient`: the event loop goes on, a socket reports what happened to it, a request
  times out, handlers and delivery goroutines run. Behaviours are finite in these
  bounds, so one condition on all progress (`WF_vars(Progress)`) gives each its turn.
  Nobody has to make another call, and a daemon that is down may stay so.
* `Registry`: calls go on, Close too, and a worker that is told to stop does (a command is
  killed after its grace of five seconds, `terminate`). A command that
  nobody stops may run for ever.
* `Enrollment`: handlers and calls that have begun go on (`Must`), through the removal
  from the list and the write (`Finish`) too. No user has to decide, and no offer has to
  expire; `RequestsEnd` is about offers that did.

All fairness is weak: no action needs to be enabled infinitely often only.

## Proofs

`EventStoreProofs` proves, for every set of keys, bodies, workers and wall clock
readings, every width of the counters and every set of requests and remote events:

| Theorem | Property |
|---|---|
| `TypeCorrect` | `TypeOK`: neither counter leaves its width |
| `ClockAlwaysCovers` | `ClockCoversStore` |
| `AnswersStand` | `AnswersAreStored` |
| `LocalOrder` | `LocalAnnouncedInOrder` |
| `FreshStamps` | `FreshStampsDominate` |
| `Refinement` | `ImplementsEventLog` |

Assumptions: wall readings are positive numbers (0 stands for a clock never used),
the widths are naturals, requests and remote events have their types, and the
absent values are none of the values they are absent from. They are ASSUMEs of
`EventStore`, which TLC evaluates in `event_store`.

The argument. None of the properties is inductive. A fresh stamp is computed
from the clock in memory, while the store is covered by the persisted clock; they
differ between a commit and what follows it. The inductive invariant `IInv`
therefore says who may be where (`MutexHeld`: a handler between commit and unlock
holds the mutex and is the only one there), that with the mutex free both clocks
agree (`HlcInSync`), and what a handler at work knows (`HandlersKnow`). On this
rest the lemmas about the two clock operations: `NextLocalAdvances` and
`MergeHLCAdvances` say that their result lies strictly after everything they were
given. `ArrivalsStored` (every ID in the arrival index is stored, so that a new one was
never there) gives the refinement, and `AnnouncedBehind` (what was announced is older than what a
handler with the mutex is about to announce) the order of local announcements.
`Invariance` is proved action by action; the properties are conjuncts of `IInv` or
follow from it in one step.

`DurableSiphonProofs` proves, for every log, every choice of streams, every set of
consumers and of batch limits and every bound on arrivals, creations and failures:

| Theorem | Property |
|---|---|
| `SiphonTypes` | `TypeOK`: no batch is empty or reaches past the log |
| `ReplayLeavesNoGap` | `NothingSkipped` |
| `WakeupsArrive` | `NoLostWakeup` |
| `CursorAdvances` | `AcknowledgedStaysDone` |

Assumptions: limits are positive and the bounds naturals.

The argument. What a scan finds is a matter of arithmetic on finite sets: `Scan` shows
that the first matches up to a limit are all the matches up to where the scan stops, by
way of their cardinalities (`Smallest` and `Largest` give the ends of such a set, from
the well-foundedness of the naturals). `Outstanding` keeps that result while the batch
waits for its acknowledgement: whatever lies between the cursor and the end of the batch is
in it, or is not wanted, or is superseded, and the log only grows. `Honest` says that
who acknowledges has processed what it holds, and that a delivery ID stands for one batch,
so that a late acknowledgement confirms nothing else. With both, moving the cursor to the
end of the batch passes nothing that nobody processed. `Alert` is about a poll from the
moment it came back empty: as long as no signal was given or is on its way, everything
after the cursor was there when the siphon was made. It holds when the poll comes back,
since nothing was found, and an arrival ends it only by owing a signal, which finds the channel
that the poll took before it looked.

`MeshSyncProofs` proves, for every set of daemons, IDs, clients, users and dials, every
order of the index, every page size and every number of faults:

| Theorem | Property |
|---|---|
| `SyncTypes` | `TypeOK`: a session belongs to a pair that dials |
| `HeldIsRecovered` | `HeldVariantRecovered` |
| `EnvelopesStay` | `EnvelopesAreImmutable` |

Assumptions: daemons and IDs are finitely many, the position of an event in the index is
positive and distinguishes IDs, nobody dials itself, and the absent values are no ID and
no session.

The argument. That envelopes stay follows from how a store grows: `ingestReplicated` and
the materialization of a resolution add only what no stored event has the ID of, which a
page, compared before, does not guarantee and each insertion tests again. For
`HeldVariantRecovered` each step is one of three kinds. It stores a resolution, and then
either the session is at its recovery (`Recovering` says of what) or a task of the
daemon is; it makes the recovered copies of an ID, after which nothing is missing
(`MaterializeKeeps`); or it ends a session or a daemon between the two, and the task that
a reconciliation at start takes up is there (`CutKeeps`). A variant that comes when the
resolution is known is late, by definition, and none of this
speaks about it. Types need that the cursor of a session stays a position: `Largest`
gives the last one of a page, from the well-foundedness of finite sets under inclusion.

`MeshPeersProofs` proves, for every set of peers, clients and handshakes and every
bound on memberships, events and failures:

| Theorem | Property |
|---|---|
| `PeersTypes` | `TypeOK` |
| `LeaveIsRespected` | `SyncsRespectLeave` |
| `WakesAreKept` | `NoLostWake` |

Assumptions: the bounds are naturals, the two loops differ from each other and from the
clients, and the absent values are no peer and no record.

The argument. `Excluded` is what `meshLeaving` and `meshSyncing` are for: a leave and a
session exclude each other, hence a session that knows a record when it begins still
finds it when it writes the outcome, and brings back none that a leave removed. `Proved`
says the same of handshakes, which do not take part in that exclusion: they have a
membership, not necessarily the one that is mounted, so what they write after a leave is a stray.
`Promised` strengthens `NoLostWake`: an event that is owed soon is owed to a peer that
is remembered, and the event loop is about to load the records (`Signalled`), or has the peer on its
list and will not skip it, or talks to it in a session that has not missed the
event (`InLoop`). An ingest during a session is what makes the third case and the signal
meet: the session misses the event, and the signal is still to come.

`RegistryProofs` proves, for every set of names, of snapshots and of clients and every
bound on workers, calls, edits and faults:

| Theorem | Property |
|---|---|
| `RegistryTypes` | `TypeOK`: the map holds workers of their names |
| `AcceptedRuns` | `OnlyAcceptedRuns` |
| `NobodyIsForgotten` | `NoOrphan` |
| `ResetsForget` | `ResetForgets` |
| `NothingRunsPastClose` | `NoCommandPastClose` |

Assumptions: definitions have the fields the program reads, the bounds are naturals, and
the absent values are no snapshot, worker, client or slot.

The argument. `Exclusive` is the heart: a worker that a call waits for is out of the map,
and no other call and not Close has it; so each can be cancelled and let go of without
anybody else losing one. The steps are then of few kinds (`Kind`: begin, take, tell,
let go, work, ...), and `NoOrphan` goes kind by kind. `Reloading` (a reload past its write
holds the lock, and from then on disk, memory and the list of stopped names agree) gives
`OnlyAcceptedRuns` at the moment the lock is free again. `Resetting` says
that while a reset is undisturbed the worker it waits for is the only one of its name; when it
has ended none is left to create the siphon again. `Cancelling` is what Close rests on:
past the end of the context every worker is cancelled, and what a late call puts into the
map after Close took it over can start no command. When the handlers are gone too,
`NoOrphan` leaves no other place where a command could run.

`EnrollmentProofs` proves, for every set of daemons and of operators and every bound on
networks, offers, requests and faults:

| Theorem | Property |
|---|---|
| `EnrollmentTypes` | `TypeOK`: what is accepted carries a credential |
| `MembershipIsApproved` | `NeedsApproval` |
| `DecidedOnce` | `OneDecision` |
| `ListIsHeard` | `PendingIsHeard` |
| `ApprovalsAreKept` | `DecisionsAreKept` |

Assumptions: the bounds are naturals, and the absent values `None` and `Lost` are none of
the networks, decisions and requests they are absent from.

The argument. A request is seen from three sides, by the handler that waits for a
decision, by the call that decides and by the applicant, and each of them moves
alone. `Core` ties them together: `InHand` (a call that has a request took it off
the list, so no second call can), `Listed` (what is on the list is undecided and has a
handler), `Answered` (an answer that accepts is the decision the
handler got, and who joined has read it from a handler that is gone) and `ByUsers` (what is
in the channel, or in a call that approves, is what a user approved). Then `RequestsChange`
says that a step changes the record of a request in one of four ways: its handler takes it
up, chooses or ends, or a call decides it. On this the other conjuncts rest. `GivenUp`: a
handler that ends undecided chose the timer or the context, hence the request is late
(`LateChoice`), and stays so (`LateStays`); with `Listed` it gives `PendingIsHeard`.
Between the two steps of a call the handler may answer on its
own; `Overtaken` says that it then did so because the request was late. That is what makes
`DecisionsAreKept` inductive: an approval that comes too late
was late already when the call had the request in hand. `Admitted`, with what `Answered`
says of who joined, gives `NeedsApproval`; it needs that a request that joined keeps its
answer.

`SdkClientProofs` proves, for every set of ingests, of siphons and of connections that
suffices for their requests, every size of the queues and of the connection's buffer and
every number of broadcasts and faults:

| Theorem | Property |
|---|---|
| `SdkClientTypes` | `TypeOK`: pending is exactly what was sent and not answered |
| `IngestOnce` | `IngestedOnce` |
| `NoGap` | `NoSilentGap` |
| `Silence` | `SilentAfterStop` |

Assumptions: calls are finitely many and an ingest is no siphon, there are two
connections for each call (each makes at most two requests, and a request opens at most
one), the bounds are naturals, and the absent value is no connection.

The argument. `SdkClientInvariance` proves `IInv`, which has four layers. The first is
about the two ends of a connection: `SocketsOK` says which states of the client's socket
and of the daemon's end go together, that nothing is on a connection that was not
accepted, and that only a connection that can be written to has room; `SocketsSuffice`
counts sockets against requests begun, so that `Dial` finds a new one. The second is
about calls: each has one continuation. It awaits the promise of one socket
(`WaitingOK`), or is among the pending requests exactly if it was sent (`PendingOK`), or
has one job due that fits its phase (`JobsOK`); every step moves it from one of these
places to another, and a step that settles many at once (`SocketClosed`, `Settled`)
keeps them apart because each place names a call once. The third is about answers:
wherever an answer `ok` to an ingest is, held back by its handler, on the wire, in a job
or with the caller, its event is in the store (`AnswersTrue`), which makes
`IngestedOnce` a matter of the ID being the same for both attempts. The fourth is about
events. A siphon is registered at most once and on one connection (`RegisteredOnce`, by
the position of its request in an inbox), and its events come there only
(`PushesAtHome`). `Chain` then follows the events from the broadcast to the callback:
what the callback was given, what is kept until the registration is answered, what is on
the wire and what waits in the queue are consecutive numbers, with nothing twice and
nothing left out, up to the last one broadcast. It is broken exactly where a note is
made: an event that finds the queue full (`missed`), one that finds the kept ones full
(`spilled`), a line of a replaced socket (`garbled`). An end of the connection drops a
suffix of that chain and never an inner part, hence `NoSilentGap`. `Silenced` (a second
request of a siphon is made only by a stop that has forgotten the callback) gives
`SilentAfterStop`. TLC checked `IInv` on the instance of the run `sdk_client` and on a
larger one before it was proved.

Only model-checked: all liveness (`EveryMatchDelivered`, `ConflictNoticed`,
`Convergence`, `EventsReachPeers`, `CallsSettle`, `SlowSubscriberCut`, `CallsReturn`,
`CloseEnds`, `RequestsEnd`, `ClosesEnd`), as the prover handles neither fairness nor
ENABLED. Every invariant and every action property of the passing runs is a theorem.

## Where code and documentation disagree

* `late_variant`. `docs/CONFLICTS.md:51-56` says that every distinct variant
  joins the recovered set. Only the arrival of a resolution makes a daemon copy its
  variant; a variant that arrives after the resolution is hidden at once from
  queries and inventories and is recovered only at the next start, or when a user
  resolves the ID again. `HeldVariantRecovered` is what does hold.
* `racing_conflict`. `docs/MESH_PROTOCOL.md:104-105` says that a conflict does
  not block unrelated transfers. It does not when the comparison of inventories sees
  it; an ID taken between comparison and transfer makes `ingestReplicated` fail,
  and the session ends. The next session reports the conflict, so `Convergence`
  and `ConflictNoticed` hold all the same.
* `leave_race`. `docs/PROTOCOL.md:423-424` says that leaving removes all
  remembered peers of the network. Synchronization is kept out, handshakes and
  `mesh_dial` are not: one admitted before the leave writes its record after it.
  `SyncsRespectLeave` is what does hold.

## What is not modelled

* Cryptography, frame formats, limits on sizes and the validation of malformed
  input: the models take well-formed events and honest members.
* Durations. A debounce, a backoff or a deadline is over whenever it is over.
* `DurableSiphon`, `Registry`: a siphon cannot be created for a network that is
  not mounted (durable_siphon.go:124); the models create it, and so have more
  behaviours. The check of the context before a command (worker.go:70, 182) and the start
  of the command are one step of `Registry`; a cancellation between them kills the command.
* `MeshSync`: a conflict of transactions while observations are recorded
  (`recordEventConflicts`, conflicts.go:73-93) ends the session; here only a cut does, and
  cuts are bounded. Sessions that one initiator runs beside each other are not modelled.
* `MeshPeers` has one network. A failing write of a peer record is not among its
  failures (those are the membership file and the removal), and a negative
  `meshSyncInterval`, which turns background synchronization off, is not modelled.
* `SdkClient`: queries, buffered siphons and builders, which wrap single requests;
  malformed lines other than those that come from torn ones; a protocol version that
  does not match. Networks and streams a siphon selects: it selects all.
* `Registry`: what a source reads and a processor writes, and the output of commands.
  One name at a time: two definitions share nothing but the lock.
* `Enrollment`: discovery and lists, peers that present an identity they do not have,
  daemons that are started again, several network names; a membership file that cannot be
  written (the operation fails and nothing changes); the synchronization that follows an
  enrollment, which is one of `MeshPeers`.
* Queries and the storage migrations are still to come (see the plan). The Python
  SDK and the IPC client of the command line follow `client.ts` in what they
  promise, with threads or with a connection for each request.
* Identity files, command line, consoles, lab and installer: files, processes and
  presentation. `internal/console/web/assets/app.js`, by far the longest file of
  the repository, is the generated bundle of the web console and its libraries.

## Plan

Done: `EventLog`, `EventStore`, `DurableSiphon`, `MeshSync`, `MeshPeers`, `LocalServer`
with `SdkClient`, `Registry` and `Enrollment`, with the proofs of their safety properties.

Next, in this order:

1. `Migrations`: crash points inside and between the three migrations.
2. `Chronology`: keys and queries as functions, against a reference definition.
3. A composition of `MeshSync` with memberships: what a stream that outlives a leave
   still serves.

Proofs to come: the safety properties of these modules, and that what `DurableSiphon` and
`MeshSync` assume of the log is what `EventStore` was proved to implement.
