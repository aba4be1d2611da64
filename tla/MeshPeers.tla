------------------------------ MODULE MeshPeers ------------------------------
(***************************************************************************)
(* Which peers of one network a daemon remembers, when it synchronizes     *)
(* with them and how it leaves the network: the retry loop and its         *)
(* backoff, the event loop with its coalescing wake-up, requests to        *)
(* synchronize, handshakes that remember the peer that made them, and      *)
(* network_leave, which excludes synchronization but not handshakes.       *)
(* (core/daemon/peer_health.go, membership.go, the handshake of mesh.go    *)
(* and the network and mesh routes of daemon.go.)                          *)
(*                                                                         *)
(* What a synchronization transfers is the subject of MeshSync; here it    *)
(* either carries every event stored before it began or fails. Time is     *)
(* left out: a retry becomes due, a debounce ends, whenever it does.       *)
(***************************************************************************)
EXTENDS Naturals, FiniteSets

CONSTANTS
  Peers,
  EventLoop, RetryLoop, \* the two background goroutines
  Clients,              \* handlers of mesh_sync requests
  Handshakes,           \* handlers of inbound streams and mesh_dial requests
  MaxMounts,            \* bound: memberships created or joined
  MaxEvents,            \* bound: events ingested
  MaxFailures,          \* bound: sessions, connections, writes and daemons that fail
  NoRecord, NoPeer

Syncers == {EventLoop, RetryLoop} \cup Clients

\* failing: lastError is set. due: nextAttemptAt is empty or past.
Records == [failing : BOOLEAN, due : BOOLEAN]

ASSUME BoundsAssumption == MaxMounts \in Nat /\ MaxEvents \in Nat /\ MaxFailures \in Nat

ASSUME NamesAssumption ==
  /\ EventLoop # RetryLoop /\ {EventLoop, RetryLoop} \cap Clients = {}
  /\ NoPeer \notin Peers /\ NoRecord \notin Records

VARIABLES
  mounted,   \* the credential of the mounted membership, 0 for none
  mounts,    \* the credentials handed out so far
  record,    \* mesh-peer-v1: the remembered peers
  connected, \* the peers libp2p is connected to
  leaving,   \* the network_leave handler that got past meshLeaving
  syncer,    \* whoever runs synchronizeKnownPeer
  shake,     \* the handshakes
  wakeNetwork, wakeToken,  \* meshWakeNetworks holds the network, meshWake its token
  ingesting, \* the ingestion handler, between its commit and the end of its signal
  events, failures,
  owed,      \* what each peer has not been sent of the local events (history)
  strays     \* peers remembered for a membership already left (history)

vars == <<mounted, mounts, record, connected, leaving, syncer, shake, wakeNetwork, wakeToken,
          ingesting, events, failures, owed, strays>>

network == <<mounted, mounts, leaving>>
wake    == <<wakeNetwork, wakeToken>>
history == <<owed, strays>>
input   == <<ingesting, events>>

\* todo are the records that a loop has loaded and not come to yet, shaky those
\* among them that were failing; missed: an event was stored during the session.
Resting == [at |-> "idle", todo |-> {}, shaky |-> {}, peer |-> NoPeer, known |-> FALSE, missed |-> FALSE]

NoShake == [at |-> "idle", peer |-> NoPeer, cred |-> 0]

Init ==
  /\ mounted = 0 /\ mounts = 0
  /\ record = [p \in Peers |-> NoRecord]
  /\ connected = [p \in Peers |-> FALSE]
  /\ leaving = "no"
  /\ syncer = [s \in Syncers |-> Resting]
  /\ shake = [h \in Handshakes |-> NoShake]
  /\ wakeNetwork = FALSE /\ wakeToken = FALSE
  /\ ingesting = "no"
  /\ events = 0 /\ failures = 0
  /\ owed = [p \in Peers |-> "no"]
  /\ strays = {}

Remembered == {p \in Peers : record[p] # NoRecord}

Fails == failures < MaxFailures /\ failures' = failures + 1

-----------------------------------------------------------------------------
(* Membership and leaving. *)

\* network_create and network_join. Neither looks at meshLeaving.
Mount ==
  /\ mounted = 0 /\ mounts < MaxMounts
  /\ mounts' = mounts + 1 /\ mounted' = mounts'
  /\ strays' = {}
  /\ UNCHANGED <<record, connected, leaving, syncer, shake, wake, input, failures, owed>>

Syncing == {syncer[s].peer : s \in Syncers} \ {NoPeer}

\* startMeshNetworkLeave
StartLeave ==
  /\ leaving = "no" /\ Syncing = {}
  /\ leaving' = "guarded"
  /\ UNCHANGED <<mounted, mounts, record, connected, syncer, shake, wake, input, failures, history>>

\* Nothing is mounted, or the membership file cannot be written and the
\* membership stays.
LeaveRefused ==
  /\ leaving = "guarded"
  /\ IF mounted = 0 THEN UNCHANGED failures ELSE Fails
  /\ leaving' = "no"
  /\ UNCHANGED <<mounted, mounts, record, connected, syncer, shake, wake, input, history>>

Unmount ==
  /\ leaving = "guarded" /\ mounted # 0
  /\ mounted' = 0
  /\ leaving' = "unmounted"
  /\ owed' = [p \in Peers |-> "no"]
  /\ UNCHANGED <<mounts, record, connected, syncer, shake, wake, input, failures, strays>>

\* removeMeshPeersForNetwork, then the deferred end of meshLeaving.
RemovePeers ==
  /\ leaving = "unmounted"
  /\ record' = [p \in Peers |-> NoRecord]
  /\ owed' = [p \in Peers |-> "no"]
  /\ strays' = {}
  /\ leaving' = "no"
  /\ UNCHANGED <<mounted, mounts, connected, syncer, shake, wake, input, failures>>

\* What is remembered if the records are not removed.
LeftBehind == IF leaving = "unmounted" /\ mounted = 0 THEN strays \cup Remembered ELSE strays

RemovalFails ==
  /\ leaving = "unmounted" /\ Fails
  /\ leaving' = "no"
  /\ strays' = LeftBehind
  /\ UNCHANGED <<mounted, mounts, record, connected, syncer, shake, wake, input, owed>>

-----------------------------------------------------------------------------
(* Handshakes: the responder of a mesh stream, or mesh_dial. *)

\* The membership is read once, when the proof is checked (or made).
Admit(h, p) ==
  /\ shake[h].at = "idle" /\ mounted # 0
  /\ shake' = [shake EXCEPT ![h] = [at |-> "proved", peer |-> p, cred |-> mounted]]
  /\ connected' = [connected EXCEPT ![p] = TRUE]
  /\ UNCHANGED <<network, record, syncer, wake, input, failures, history>>

\* persistMeshPeer sets the address of the record there is, or makes one. The
\* handler of a stream goes on to serve (MeshSync), which changes nothing here.
Remember(h) ==
  /\ shake[h].at = "proved"
  /\ LET p == shake[h].peer IN
       /\ record' = [record EXCEPT ![p] = IF @ = NoRecord THEN [failing |-> FALSE, due |-> TRUE] ELSE @]
       /\ strays' = IF mounted = shake[h].cred THEN strays ELSE strays \cup {p}
  /\ shake' = [shake EXCEPT ![h] = NoShake]
  /\ UNCHANGED <<network, connected, syncer, wake, input, failures, owed>>

-----------------------------------------------------------------------------
(* Ingestion of local events and its signal. *)

\* What is promised of a peer that is connected or was well at last.
Promise(p) == IF connected[p] \/ ~record[p].failing THEN "soon" ELSE "later"

\* The event is stored: every remembered peer is to have it, and a session
\* under way may have passed the place where it belongs.
Ingest ==
  /\ ingesting = "no" /\ events < MaxEvents
  /\ ingesting' = "committed"
  /\ events' = events + 1
  /\ owed' = [p \in Peers |-> IF mounted # 0 /\ p \in Remembered THEN Promise(p) ELSE owed[p]]
  /\ syncer' = [s \in Syncers |-> [syncer[s] EXCEPT !.missed = (syncer[s].at = "talking")]]
  /\ UNCHANGED <<network, record, connected, shake, wake, failures, strays>>

\* signalMeshSync: first the set of networks, then the token, unless one is there.
SignalNetwork ==
  /\ ingesting = "committed"
  /\ wakeNetwork' = TRUE
  /\ ingesting' = "marked"
  /\ UNCHANGED <<network, record, connected, syncer, shake, wakeToken, events, failures, history>>

SignalToken ==
  /\ ingesting = "marked"
  /\ wakeToken' = TRUE
  /\ ingesting' = "no"
  /\ UNCHANGED <<network, record, connected, syncer, shake, wakeNetwork, events, failures, history>>

-----------------------------------------------------------------------------
(* Who synchronizes with whom, and when. *)

Loads(s, peers) ==
  syncer' = [syncer EXCEPT ![s] = [Resting EXCEPT !.at = "listed", !.todo = peers,
                                                  !.shaky = {p \in peers \cap Remembered : record[p].failing}]]

\* The event loop takes the token, waits for the debounce and takes the networks.
WakeUp ==
  /\ syncer[EventLoop].at = "idle" /\ wakeToken
  /\ wakeToken' = FALSE
  /\ syncer' = [syncer EXCEPT ![EventLoop].at = "woken"]
  /\ UNCHANGED <<network, record, connected, shake, wakeNetwork, input, failures, history>>

TakeNetworks ==
  /\ syncer[EventLoop].at = "woken"
  /\ Loads(EventLoop, IF wakeNetwork THEN Remembered ELSE {})
  /\ wakeNetwork' = FALSE
  /\ UNCHANGED <<network, record, connected, shake, wakeToken, input, failures, history>>

\* Mutant: after an error a peer is left to the event loop.
DuePeers_Healthy == {p \in Remembered : record[p].due /\ ~record[p].failing}

DuePeers == {p \in Remembered : record[p].due}

Tick ==
  /\ syncer[RetryLoop].at = "idle"
  /\ Loads(RetryLoop, DuePeers)
  /\ UNCHANGED <<network, record, connected, shake, wake, input, failures, history>>

\* Mutant: the request need not name a peer.
Request_Unchecked(c, p) ==
  /\ syncer[c].at = "idle"
  /\ \E q \in {p, NoPeer} : Loads(c, {q})
  /\ UNCHANGED <<network, record, connected, shake, wake, input, failures, history>>

\* mesh_sync; enrollment ends with one too.
Request(c, p) ==
  /\ syncer[c].at = "idle"
  /\ Loads(c, {p})
  /\ UNCHANGED <<network, record, connected, shake, wake, input, failures, history>>

\* The event loop leaves a peer that failed and is not connected to the retry
\* loop, which looks only at mounted networks.
PassesOver(s, p) ==
  \/ s = EventLoop /\ ~connected[p] /\ p \in syncer[s].shaky
  \/ s = RetryLoop /\ mounted = 0

\* Mutant: a network being left is not looked at.
MayStart_WhileLeaving(p) == p \notin Syncing

\* startMeshPeerSync
MayStart(p) == leaving = "no" /\ p \notin Syncing

Skip(s, p) ==
  /\ syncer[s].at = "listed" /\ p \in syncer[s].todo
  /\ PassesOver(s, p)
  /\ syncer' = [syncer EXCEPT ![s].todo = @ \ {p}]
  /\ UNCHANGED <<network, record, connected, shake, wake, input, failures, history>>

\* Mutant: what is in progress already is taken to do.
Refuse_WithoutSignal(s, p) ==
  /\ syncer[s].at = "listed" /\ p \in syncer[s].todo
  /\ ~PassesOver(s, p) /\ ~MayStart(p)
  /\ syncer' = [syncer EXCEPT ![s].todo = @ \ {p}]
  /\ UNCHANGED <<network, record, connected, shake, wake, input, failures, history>>

\* errMeshSyncInProgress: the event loop signals again and tries later.
Refuse(s, p) ==
  /\ syncer[s].at = "listed" /\ p \in syncer[s].todo
  /\ ~PassesOver(s, p) /\ ~MayStart(p)
  /\ syncer' = [syncer EXCEPT ![s].todo = @ \ {p}]
  /\ wakeNetwork' = (wakeNetwork \/ s = EventLoop)
  /\ wakeToken'   = (wakeToken \/ s = EventLoop)
  /\ UNCHANGED <<network, record, connected, shake, input, failures, history>>

\* synchronizeKnownPeer begins: the attempt is noted in the record, if any.
Begin(s, p) ==
  /\ syncer[s].at = "listed" /\ p \in syncer[s].todo
  /\ ~PassesOver(s, p) /\ MayStart(p)
  /\ syncer' = [syncer EXCEPT ![s] = [syncer[s] EXCEPT !.at = "gated", !.todo = @ \ {p},
                                                       !.peer = p, !.known = p \in Remembered,
                                                       !.missed = FALSE]]
  /\ record' = IF p \in Remembered THEN [record EXCEPT ![p].due = TRUE] ELSE record
  /\ UNCHANGED <<network, connected, shake, wake, input, failures, history>>

\* The peer is reached and the membership proved.
Converse(s) ==
  /\ syncer[s].at = "gated" /\ mounted # 0
  /\ connected' = [connected EXCEPT ![syncer[s].peer] = TRUE]
  /\ syncer' = [syncer EXCEPT ![s].at = "talking"]
  /\ UNCHANGED <<network, record, shake, wake, input, failures, history>>

\* The session ends well: persistMeshPeer and recordMeshPeerSuccess.
Succeed(s) ==
  /\ syncer[s].at = "talking"
  /\ LET p == syncer[s].peer IN
       /\ connected[p]
       /\ record' = [record EXCEPT ![p] = [failing |-> FALSE, due |-> FALSE]]
       /\ owed' = [owed EXCEPT ![p] = IF syncer[s].missed THEN @ ELSE "no"]
  /\ syncer' = [syncer EXCEPT ![s].at = "recorded"]
  /\ UNCHANGED <<network, connected, shake, wake, input, failures, strays>>

\* What the wake-up cannot promise is left to the retry loop.
Later(o) == IF o = "soon" THEN "later" ELSE o

\* The membership or the connection is missing, or the session breaks:
\* recordMeshPeerFailure, for a peer that was known at the beginning. It may have
\* been reached before the membership was found missing.
Fail(s) ==
  /\ syncer[s].at \in {"gated", "talking"}
  /\ LET p == syncer[s].peer IN
       /\ \/ /\ IF syncer[s].at = "gated" THEN mounted = 0 ELSE ~connected[p]
             /\ UNCHANGED failures
          \/ Fails
       /\ record' = IF syncer[s].known THEN [record EXCEPT ![p] = [failing |-> TRUE, due |-> FALSE]]
                                       ELSE record
       /\ owed' = [owed EXCEPT ![p] = Later(@)]
       /\ connected' \in {connected, [connected EXCEPT ![p] = @ \/ syncer[s].at = "gated"]}
  /\ syncer' = [syncer EXCEPT ![s].at = "recorded"]
  /\ UNCHANGED <<network, shake, wake, input, strays>>

\* finishMeshPeerSync; on to the next record.
Finish(s) ==
  /\ syncer[s].at = "recorded"
  /\ syncer' = [syncer EXCEPT ![s] = [@ EXCEPT !.at = "listed", !.peer = NoPeer, !.known = FALSE, !.missed = FALSE]]
  /\ UNCHANGED <<network, record, connected, shake, wake, input, failures, history>>

Rest(s) ==
  /\ syncer[s].at = "listed" /\ syncer[s].todo = {}
  /\ syncer' = [syncer EXCEPT ![s] = Resting]
  /\ UNCHANGED <<network, record, connected, shake, wake, input, failures, history>>

-----------------------------------------------------------------------------
(* The world. *)

\* The time of the next attempt comes.
BecomeDue(p) ==
  /\ p \in Remembered /\ ~record[p].due
  /\ record' = [record EXCEPT ![p].due = TRUE]
  /\ UNCHANGED <<network, connected, syncer, shake, wake, input, failures, history>>

Disconnect(p) ==
  /\ connected[p] /\ Fails
  /\ connected' = [connected EXCEPT ![p] = FALSE]
  /\ owed' = [owed EXCEPT ![p] = Later(@)]
  /\ UNCHANGED <<network, record, syncer, shake, wake, input, strays>>

\* The daemon dies and starts again, with the two loops at their beginning.
Restart ==
  /\ Fails
  /\ leaving' = "no"
  /\ connected' = [p \in Peers |-> FALSE]
  /\ syncer' = [s \in Syncers |-> Resting]
  /\ shake' = [h \in Handshakes |-> NoShake]
  /\ wakeNetwork' = FALSE /\ wakeToken' = FALSE
  /\ ingesting' = "no"
  /\ owed' = [p \in Peers |-> Later(owed[p])]
  /\ strays' = LeftBehind
  /\ UNCHANGED <<mounted, mounts, record, events>>

Step(s) ==
  \/ \E p \in Peers : Skip(s, p) \/ Refuse(s, p) \/ Begin(s, p)
  \/ Converse(s) \/ Succeed(s) \/ Fail(s) \/ Finish(s) \/ Rest(s)

Next ==
  \/ Mount \/ StartLeave \/ LeaveRefused \/ Unmount \/ RemovePeers \/ RemovalFails
  \/ \E h \in Handshakes : Remember(h) \/ \E p \in Peers : Admit(h, p)
  \/ Ingest \/ SignalNetwork \/ SignalToken
  \/ WakeUp \/ TakeNetworks \/ Tick \/ \E c \in Clients, p \in Peers : Request(c, p)
  \/ \E s \in Syncers : Step(s)
  \/ \E p \in Peers : BecomeDue(p) \/ Disconnect(p)
  \/ Restart

\* Handlers and loops go on, time passes. Nobody has to mount, leave, dial,
\* ingest or ask for a synchronization.
Fairness ==
  /\ WF_vars(LeaveRefused \/ Unmount) /\ WF_vars(RemovePeers)
  /\ WF_vars(SignalNetwork) /\ WF_vars(SignalToken)
  /\ WF_vars(WakeUp) /\ WF_vars(TakeNetworks) /\ WF_vars(Tick)
  /\ \A s \in Syncers : WF_vars(Step(s))
  /\ \A p \in Peers : WF_vars(BecomeDue(p))

Spec == Init /\ [][Next]_vars /\ Fairness

-----------------------------------------------------------------------------
(* Properties. *)

TypeOK ==
  /\ mounts \in 0..MaxMounts /\ mounted \in 0..mounts
  /\ record \in [Peers -> Records \cup {NoRecord}]
  /\ connected \in [Peers -> BOOLEAN]
  /\ leaving \in {"no", "guarded", "unmounted"}
  /\ syncer \in [Syncers -> [at : {"idle", "woken", "listed", "gated", "talking", "recorded"},
                             todo : SUBSET Peers, shaky : SUBSET Peers, peer : Peers \cup {NoPeer},
                             known : BOOLEAN, missed : BOOLEAN]]
  /\ shake \in [Handshakes -> [at : {"idle", "proved"}, peer : Peers \cup {NoPeer}, cred : 0..MaxMounts]]
  /\ wakeNetwork \in BOOLEAN /\ wakeToken \in BOOLEAN
  /\ ingesting \in {"no", "committed", "marked"}
  /\ events \in 0..MaxEvents /\ failures \in 0..MaxFailures
  /\ owed \in [Peers -> {"no", "soon", "later"}]
  /\ strays \subseteq Peers

\* A peer remembered although its network is left is owed to a handshake that
\* began before, to a crash or to a failed write; no synchronization, whether
\* of a loop or of a client, brings a record back (meshLeaving, meshSyncing).
SyncsRespectLeave ==
  mounted = 0 /\ leaving # "unmounted" => Remembered \subseteq strays

\* After network_leave no peer of the network is remembered
\* (docs/PROTOCOL.md:423-424).
LeaveForgetsPeers == mounted = 0 /\ leaving = "no" => Remembered = {}

\* No wake-up is lost between the set of networks, the one-token channel and a
\* synchronization in progress: a peer that was not sent a new event, and has
\* neither failed nor gone since, is still on somebody's list.
NoLostWake ==
  \A p \in Peers :
    owed[p] = "soon" =>
      \/ ingesting # "no"
      \/ wakeToken /\ wakeNetwork
      \/ syncer[EventLoop].at = "woken" /\ wakeNetwork
      \/ p \in syncer[EventLoop].todo
      \/ syncer[EventLoop].peer = p

\* A local event reaches every remembered peer in the end, unless the network is
\* left: what the event loop gives up, the retry loop takes up.
EventsReachPeers == \A p \in Peers : (owed[p] # "no") ~> (owed[p] = "no")
=============================================================================
