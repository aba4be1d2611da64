----------------------------- MODULE LocalServer -----------------------------
(***************************************************************************)
(* The daemon's side of the local protocol: a handler per connection that  *)
(* reads one request, runs it and writes its answer before it reads the    *)
(* next; live subscriptions, each with a bounded queue and a goroutine     *)
(* that drains it into the connection; the shutdown that waits for all of  *)
(* them; the crash that waits for nobody. (core/daemon/daemon.go)          *)
(*                                                                         *)
(* The actions here leave the client's variables alone; SdkClient composes *)
(* them with a client and adds what the two ends of a connection share.    *)
(***************************************************************************)
EXTENDS Naturals, Sequences, FiniteSets

CONSTANTS
  Connections,  \* connections, in the order in which they are opened
  Handles,      \* live siphons; the random subscription ID is named by its siphon
  QueueSize,    \* events a subscription holds back (128 in the code)
  WireSize,     \* bound: lines a connection holds on their way to the client
  MaxMeshEvents,\* bound: events that other devices contribute
  MaxFaults,    \* bound: what goes wrong, or is ended or torn, in a behaviour
  None

ASSUME ServerAssumption ==
  /\ QueueSize \in Nat \ {0} /\ WireSize \in Nat \ {0}
  /\ MaxMeshEvents \in Nat /\ MaxFaults \in Nat
  /\ Connections \subseteq Nat \ {0} /\ None \notin Connections

VARIABLES
  daemon,     \* "up", "closing" or "down"
  conn,       \* the daemon's end: "none", "open", "shut" by the daemon, "done"
  peer,       \* the client's end: "none", "open", "half" closed or "gone"
  inbox,      \* requests written by the client and not yet handled
  reply,      \* the answer a handler is about to write
  mute,       \* the encoder of the connection keeps a write error
  wire,       \* lines written by the daemon and not yet read by the client
  store,      \* IDs of the stored events
  published,  \* how many events were broadcast; they are named by their order
  sub,        \* "none", "on" (in the map) or "off" (removed, its queue closed)
  home,       \* the connection of a subscription
  queue,      \* events of a subscription waiting for its goroutine
  noticed,    \* broadcasts that found the queue full and have yet to cut it
  since,      \* the event broadcast last before a subscription (history)
  missed,     \* an event did not fit into the queue (history)
  meshEvents, faults

connections   == <<conn, peer, inbox, reply, mute, wire>>
subscriptions == <<sub, home, queue, noticed, since, missed>>
served == <<daemon, connections, store, published, subscriptions, meshEvents, faults>>

\* Who broadcasts: the handler of a connection, or a stream of the mesh.
Mesh == 0
Broadcasters == Connections \cup {Mesh}

Fault == faults < MaxFaults /\ faults' = faults + 1

Whole(message) == [part |-> "whole", message |-> message]

\* The beginning of a line whose rest is never written.
Fragment == [part |-> "begin", message |-> None]

ServerInit ==
  /\ daemon = "up"
  /\ conn  = [s \in Connections |-> "none"]
  /\ peer  = [s \in Connections |-> "none"]
  /\ inbox = [s \in Connections |-> <<>>]
  /\ reply = [s \in Connections |-> None]
  /\ mute  = [s \in Connections |-> FALSE]
  /\ wire  = [s \in Connections |-> <<>>]
  /\ store = {} /\ published = 0
  /\ sub   = [h \in Handles |-> "none"]
  /\ home  = [h \in Handles |-> None]
  /\ queue = [h \in Handles |-> <<>>]
  /\ noticed = [h \in Handles |-> {}]
  /\ since  = [h \in Handles |-> 0]
  /\ missed  = [h \in Handles |-> FALSE]
  /\ meshEvents = 0 /\ faults = 0

-----------------------------------------------------------------------------
(* Live subscriptions. *)

Listening == {h \in Handles : sub[h] = "on"}
Full(h)   == Len(queue[h]) >= QueueSize

\* The next event goes to every queue with room; the others are noticed.
Broadcast(who) ==
  /\ published' = published + 1
  /\ queue' = [h \in Handles |-> IF h \in Listening /\ ~Full(h)
                                 THEN Append(queue[h], published') ELSE queue[h]]
  /\ noticed' = [h \in Handles |-> IF h \in Listening /\ Full(h)
                                   THEN noticed[h] \cup {who} ELSE noticed[h]]
  /\ missed' = [h \in Handles |-> missed[h] \/ (h \in Listening /\ Full(h))]

\* removeSubscription: out of the map, the queue closed but not emptied.
Removed(hs) == [h \in Handles |-> IF h \in hs /\ sub[h] = "on" THEN "off" ELSE sub[h]]

\* The daemon closes its end; what it has written stays readable.
Shut(s) == [conn EXCEPT ![s] = IF @ = "open" THEN "shut" ELSE @]

\* Mutant: a slow subscriber is removed but keeps its connection.
Disconnect_Silently(h, who) ==
  /\ who \in noticed[h]
  /\ noticed' = [noticed EXCEPT ![h] = @ \ {who}]
  /\ sub' = Removed({h})
  /\ UNCHANGED <<conn, daemon, peer, inbox, reply, mute, wire, store, published, home, queue,
                 since, missed, meshEvents, faults>>

\* After the lock on the map is released, a broadcast removes the subscriptions
\* it found full; whoever removes one also closes its connection.
Disconnect(h, who) ==
  /\ who \in noticed[h]
  /\ noticed' = [noticed EXCEPT ![h] = @ \ {who}]
  /\ sub' = Removed({h})
  /\ conn' = IF sub[h] = "on" THEN Shut(home[h]) ELSE conn
  /\ UNCHANGED <<daemon, peer, inbox, reply, mute, wire, store, published, home, queue,
                 since, missed, meshEvents, faults>>

\* A replicated event is broadcast outside ingestMu.
MeshEvent ==
  /\ daemon # "down" /\ meshEvents < MaxMeshEvents
  /\ meshEvents' = meshEvents + 1
  /\ Broadcast(Mesh)
  /\ UNCHANGED <<daemon, connections, store, sub, home, since, faults>>

Writable(s) == conn[s] = "open" /\ peer[s] # "gone" /\ ~mute[s]
Room(s)     == Len(wire[s]) < WireSize

\* The goroutine of a subscription writes the next event, also after removal.
Deliver(h) ==
  LET s == home[h] IN
  /\ queue[h] # <<>>
  /\ Writable(s) /\ Room(s)
  /\ wire' = [wire EXCEPT ![s] = Append(@, Whole([sub |-> h, event |-> Head(queue[h])]))]
  /\ queue' = [queue EXCEPT ![h] = Tail(@)]
  /\ UNCHANGED <<daemon, conn, peer, inbox, reply, mute, store, published, sub, home, noticed,
                 since, missed, meshEvents, faults>>

\* A failed write ends the goroutine, the subscription and the connection.
DeliverFails(h) ==
  LET s == home[h] IN
  /\ queue[h] # <<>>
  /\ ~Writable(s)
  /\ sub' = [sub EXCEPT ![h] = "off"]
  /\ queue' = [queue EXCEPT ![h] = <<>>]
  /\ conn' = Shut(s)
  /\ UNCHANGED <<daemon, peer, inbox, reply, mute, wire, store, published, home, noticed,
                 since, missed, meshEvents, faults>>

-----------------------------------------------------------------------------
(* Requests. *)

Takes(s) == /\ conn[s] \in {"open", "shut"} /\ reply[s] = None /\ inbox[s] # <<>>
            /\ inbox' = [inbox EXCEPT ![s] = Tail(@)]

Replies(s, id, result) == reply' = [reply EXCEPT ![s] = [id |-> id, result |-> result]]

\* event_ingest under ingestMu: a known ID is answered as stored and not
\* broadcast again, a new one is stored and broadcast.
HandleIngest(s) ==
  LET r == Head(inbox[s]) IN
  /\ Takes(s) /\ r.action = "event_ingest"
  /\ \A h \in Handles : noticed[h] \cap Connections = {}
  /\ Replies(s, r.id, "ok")
  /\ store' = store \cup {r.about}
  /\ IF r.about \in store THEN UNCHANGED <<published, subscriptions>>
                          ELSE Broadcast(s) /\ UNCHANGED <<sub, home, since>>
  /\ UNCHANGED <<daemon, conn, peer, mute, wire, meshEvents, faults>>

\* The daemon cannot serve a request, for good or for the moment.
HandleFails(s) ==
  LET r == Head(inbox[s]) IN
  /\ Takes(s) /\ Fault
  /\ r.action # "siphon_unregister"
  /\ \E result \in {"refused", "busy"} : Replies(s, r.id, result)
  /\ UNCHANGED <<daemon, conn, peer, mute, wire, store, published, subscriptions, meshEvents>>

\* The subscription is in the map, its goroutine runs, before the answer is written.
HandleRegister(s) ==
  LET r == Head(inbox[s]) IN
  /\ Takes(s) /\ r.action = "siphon_register"
  /\ Replies(s, r.id, "ok")
  /\ sub' = [sub EXCEPT ![r.about] = "on"]
  /\ home' = [home EXCEPT ![r.about] = s]
  /\ since' = [since EXCEPT ![r.about] = published]
  /\ UNCHANGED <<daemon, conn, peer, mute, wire, store, published, queue, noticed, missed,
                 meshEvents, faults>>

\* Any connection may unregister any subscription.
HandleUnregister(s) ==
  LET r == Head(inbox[s]) IN
  /\ Takes(s) /\ r.action = "siphon_unregister"
  /\ Replies(s, r.id, "ok")
  /\ sub' = Removed({r.about})
  /\ UNCHANGED <<daemon, conn, peer, mute, wire, store, published, home, queue, noticed,
                 since, missed, meshEvents, faults>>

Answers(s) == /\ reply[s] # None /\ \A h \in Handles : s \notin noticed[h]
              /\ reply' = [reply EXCEPT ![s] = None]

\* The error of a write is not looked at: on a connection that cannot be
\* written the answer disappears.
Answer(s) ==
  /\ Answers(s)
  /\ Writable(s) => Room(s)
  /\ wire' = IF Writable(s) THEN [wire EXCEPT ![s] = Append(@, Whole(reply[s]))] ELSE wire
  /\ UNCHANGED <<daemon, conn, peer, inbox, mute, store, published, subscriptions, meshEvents,
                 faults>>

\* The client reads nothing for the length of the write deadline: the answer is
\* lost, perhaps half-way, and the encoder refuses every later one.
AnswerExpires(s) ==
  /\ Answers(s) /\ Fault
  /\ Writable(s) /\ ~Room(s)
  /\ mute' = [mute EXCEPT ![s] = TRUE]
  /\ wire' \in {wire, [wire EXCEPT ![s] = Append(@, Fragment)]}
  /\ UNCHANGED <<daemon, conn, peer, inbox, store, published, subscriptions, meshEvents>>

HomeOf(s) == {h \in Handles : home[h] = s}

\* Mutant: a handler that ends leaves its subscriptions behind.
Leaves_KeepsSubscriptions(s) ==
  /\ conn' = [conn EXCEPT ![s] = "done"]
  /\ inbox' = [inbox EXCEPT ![s] = <<>>]
  /\ mute' = [mute EXCEPT ![s] = FALSE]
  /\ sub' = sub

\* removeClientSubscriptions and the end of the connection.
Leaves(s) ==
  /\ conn' = [conn EXCEPT ![s] = "done"]
  /\ inbox' = [inbox EXCEPT ![s] = <<>>]
  /\ mute' = [mute EXCEPT ![s] = FALSE]
  /\ sub' = Removed(HomeOf(s))

\* The handler reads the end of the requests, or its own end is shut: requests
\* it has not read by then are dropped.
HandlerEnds(s) ==
  /\ reply[s] = None
  /\ \/ conn[s] = "shut"
     \/ conn[s] = "open" /\ inbox[s] = <<>> /\ peer[s] \in {"half", "gone"}
  /\ Leaves(s)
  /\ UNCHANGED <<daemon, peer, reply, wire, store, published, home, queue, noticed, since,
                 missed, meshEvents, faults>>

\* No request for the length of the idle window, which pushes do not renew.
IdleOut(s) ==
  /\ conn[s] = "open" /\ reply[s] = None /\ inbox[s] = <<>> /\ Fault
  /\ Leaves(s)
  /\ UNCHANGED <<daemon, peer, reply, wire, store, published, home, queue, noticed, since,
                 missed, meshEvents>>

-----------------------------------------------------------------------------
(* Shutdown, crash and start. *)

\* Close refuses new clients and shuts the connections of the others.
Shutdown ==
  /\ daemon = "up" /\ Fault
  /\ daemon' = "closing"
  /\ conn' = [s \in Connections |-> IF conn[s] = "open" THEN "shut" ELSE conn[s]]
  /\ UNCHANGED <<peer, inbox, reply, mute, wire, store, published, subscriptions, meshEvents>>

\* A goroutine ends with its queue closed and empty.
Goroutine(h) == sub[h] = "on" \/ queue[h] # <<>>

\* The wait for handlers and goroutines is over; the store is closed.
Closed ==
  /\ daemon = "closing"
  /\ \A s \in Connections : conn[s] \in {"none", "done"}
  /\ \A h \in Handles : ~Goroutine(h) /\ noticed[h] = {}
  /\ daemon' = "down"
  /\ UNCHANGED <<connections, store, published, subscriptions, meshEvents, faults>>

\* The process dies; a line it was writing may be torn.
Crash ==
  /\ daemon # "down" /\ Fault
  /\ daemon' = "down"
  /\ conn' = [s \in Connections |-> IF conn[s] = "none" THEN "none" ELSE "done"]
  /\ inbox' = [s \in Connections |-> <<>>]
  /\ reply' = [s \in Connections |-> None]
  /\ mute'  = [s \in Connections |-> FALSE]
  /\ \E torn \in SUBSET {s \in Connections : Writable(s) /\ Room(s)
                                            /\ (reply[s] # None \/ \E h \in HomeOf(s) : queue[h] # <<>>)} :
       wire' = [s \in Connections |-> IF s \in torn THEN Append(wire[s], Fragment) ELSE wire[s]]
  /\ sub' = Removed(Handles)
  /\ queue' = [h \in Handles |-> <<>>]
  /\ noticed' = [h \in Handles |-> {}]
  /\ UNCHANGED <<peer, store, published, home, since, missed, meshEvents>>

Start ==
  /\ daemon = "down"
  /\ daemon' = "up"
  /\ UNCHANGED <<connections, store, published, subscriptions, meshEvents, faults>>

ServerStep(s) ==
  \/ HandleIngest(s) \/ HandleFails(s) \/ HandleRegister(s) \/ HandleUnregister(s)
  \/ Answer(s) \/ AnswerExpires(s) \/ HandlerEnds(s) \/ IdleOut(s)

SubscriptionStep(h) ==
  Deliver(h) \/ DeliverFails(h) \/ \E who \in Broadcasters : Disconnect(h, who)

ServerNext ==
  \/ MeshEvent \/ Shutdown \/ Closed \/ Crash \/ Start
  \/ \E s \in Connections : ServerStep(s)
  \/ \E h \in Handles : SubscriptionStep(h)

ServerTypeOK ==
  /\ daemon \in {"up", "closing", "down"}
  /\ conn \in [Connections -> {"none", "open", "shut", "done"}]
  /\ peer \in [Connections -> {"none", "open", "half", "gone"}]
  /\ mute \in [Connections -> BOOLEAN]
  /\ \A s \in Connections : Len(wire[s]) <= WireSize + 1
  /\ sub \in [Handles -> {"none", "on", "off"}]
  /\ home \in [Handles -> Connections \cup {None}]
  /\ \A h \in Handles : Len(queue[h]) <= QueueSize /\ (sub[h] # "none" => home[h] # None)
  /\ noticed \in [Handles -> SUBSET Broadcasters]
  /\ missed \in [Handles -> BOOLEAN]
=============================================================================
