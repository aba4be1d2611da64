------------------------------ MODULE SdkClient ------------------------------
(***************************************************************************)
(* A process that uses the JavaScript SDK, with the local server of its    *)
(* daemon: ingest calls with their one retry, continuous siphons with      *)
(* stop(), and the transport below them, which reconnects on demand,       *)
(* matches answers to requests and hands events to the siphons.            *)
(* (packages/sdk-js/src/client.ts and index.ts)                            *)
(*                                                                         *)
(* The process has one thread: a call of the program, a timer or an event  *)
(* of a socket runs to its end, then the continuations (jobs) of promises  *)
(* settled meanwhile, in their order, and only then the next one.          *)
(***************************************************************************)
EXTENDS LocalServer, SequencesExt

CONSTANTS
  Ingests,    \* the ingest calls of the program
  EarlyLimit  \* events kept for a siphon without handler (128 in the code)

Calls == Ingests \cup Handles

\* Every call makes at most two requests, every request opens at most one connection.
ASSUME ClientAssumption ==
  /\ IsFiniteSet(Calls) /\ Ingests \cap Handles = {}
  /\ Connections = 1 .. 2 * Cardinality(Calls)
  /\ EarlyLimit \in Nat

VARIABLES
  sock,       \* the sockets of the client
  socket,     \* this.socket
  connecting, \* this.connecting: the socket whose promise it is
  waiting,    \* the calls that await the promise of each socket, in order
  pending,    \* this.pending: calls with a request under way, in order
  buffer,     \* this.buffer: the socket whose line it holds the beginning of
  reading,    \* the socket whose chunk of data is being processed
  jobs,       \* continuations that are due
  phase, step,\* of each call: its state, and which of its two requests it is at
  handlers,   \* this.subscriptions
  early,      \* this.queuedSubscriptionEvents
  stopped,    \* siphons whose stop() was called
  handled,    \* events given to the siphon's callback (history)
  spilled,    \* an early event was dropped (history)
  garbled     \* lines of a socket that goes on were dropped (history)

sockets == <<sock, socket, connecting, waiting>>
input   == <<buffer, reading>>
siphons == <<handlers, early, stopped, handled, spilled, garbled>>
calls   == <<phase, step, pending, jobs>>
client  == <<sockets, input, siphons, calls>>
vars    == <<served, client>>

Init ==
  /\ ServerInit
  /\ sock = [s \in Connections |-> "free"]
  /\ socket = None /\ connecting = None
  /\ waiting = [s \in Connections |-> <<>>]
  /\ pending = <<>> /\ jobs = <<>>
  /\ buffer = None /\ reading = None
  /\ phase = [c \in Calls |-> "idle"]
  /\ step  = [c \in Calls |-> 1]
  /\ handlers = {}
  /\ early   = [h \in Handles |-> <<>>]
  /\ stopped = {}
  /\ handled = [h \in Handles |-> <<>>]
  /\ spilled = [h \in Handles |-> FALSE]
  /\ garbled = FALSE

Job(c, result) == [call |-> c, result |-> result]
Jobs(cs, result) == [i \in 1..Len(cs) |-> Job(cs[i], result)]

\* The next task of the event loop may run.
Quiet == jobs = <<>> /\ reading = None

IsOpen(s) == s # None /\ sock[s] = "open"
Enters(c, state) == phase' = [phase EXCEPT ![c] = state]

-----------------------------------------------------------------------------
(* DaemonClient.connect and the writing of a request. *)

Unused == {s \in Connections : sock[s] = "free"}
NextSocket == CHOOSE s \in Unused : \A t \in Unused : s <= t

Waits(c, s) == waiting' = [waiting EXCEPT ![s] = Append(@, c)]

\* A new socket, with a promise of its own.
Dial(c) ==
  /\ sock' = [sock EXCEPT ![NextSocket] = "opening"]
  /\ socket' = NextSocket /\ connecting' = NextSocket
  /\ Waits(c, NextSocket)

\* The request of c awaits connect(); queue is the jobs before its own. A promise
\* that is settled, even that of a socket about to report its close, is not renewed.
AwaitConnect(c, before) ==
  /\ Enters(c, "connecting")
  /\ IF IsOpen(socket)
     THEN jobs' = Append(before, Job(c, "opened")) /\ UNCHANGED sockets
     ELSE IF connecting = None
          THEN Dial(c) /\ jobs' = before
          ELSE CASE sock[connecting] = "opening" ->
                      Waits(c, connecting) /\ jobs' = before
                      /\ UNCHANGED <<sock, socket, connecting>>
                 [] sock[connecting] = "refused" ->
                      jobs' = Append(before, Job(c, "lost")) /\ UNCHANGED sockets
                 [] OTHER -> jobs' = Append(before, Job(c, "opened")) /\ UNCHANGED sockets

\* Mutant: every attempt to ingest takes an ID of its own.
EventID_PerAttempt(c) == <<c, step[c]>>

\* The ID is chosen before the first attempt.
EventID(c) == <<c, 1>>

RequestOf(c) ==
  [ id     |-> <<c, step[c]>>,
    action |-> IF c \in Ingests THEN "event_ingest"
               ELSE IF step[c] = 1 THEN "siphon_register" ELSE "siphon_unregister",
    about  |-> IF c \in Ingests THEN EventID(c) ELSE c ]

\* A program calls ingest() or run().
Call(c) ==
  /\ Quiet /\ phase[c] = "idle"
  /\ AwaitConnect(c, jobs)
  /\ UNCHANGED <<served, input, siphons, step, pending>>

Due(c, result) == jobs # <<>> /\ reading = None /\ Head(jobs) = Job(c, result)

\* An open socket is destroyed, or ends with its peer; its close is due.
Destroyed(s) ==
  /\ sock' = [sock EXCEPT ![s] = "dying"]
  /\ peer' = [peer EXCEPT ![s] = "gone"]
  /\ wire' = [wire EXCEPT ![s] = <<>>]

\* Connected: the request is pending and written, unless the socket was lost
\* between the promise and its continuation. A write to an end that is closed
\* destroys the socket with what was not read from it; its close follows.
Write(c) ==
  /\ Due(c, "opened")
  /\ IF IsOpen(socket)
     THEN /\ Enters(c, "sent")
          /\ pending' = Append(pending, c)
          /\ jobs' = Tail(jobs)
          /\ IF conn[socket] = "open"
             THEN /\ inbox' = [inbox EXCEPT ![socket] = Append(@, RequestOf(c))]
                  /\ UNCHANGED <<sock, peer, wire>>
             ELSE Destroyed(socket) /\ UNCHANGED inbox
     ELSE /\ Enters(c, "answered")
          /\ jobs' = Append(Tail(jobs), Job(c, "lost"))
          /\ UNCHANGED <<pending, inbox, sock, peer, wire>>
  /\ UNCHANGED <<daemon, conn, reply, mute, store, published, subscriptions, meshEvents, faults,
                 socket, connecting, waiting, input, siphons, step>>

-----------------------------------------------------------------------------
(* What becomes of a call: the continuation of its request. *)

Settles(c, state) ==
  /\ Enters(c, state) /\ jobs' = Tail(jobs)
  /\ UNCHANGED <<served, sockets, input, step, pending>>

Resolved(c) == Due(c, "ok") /\ c \in Ingests /\ Settles(c, "done") /\ UNCHANGED siphons

\* What the daemon refuses for good is not tried again.
Rejected(c) ==
  /\ \/ Due(c, "refused")
     \/ (Due(c, "busy") \/ Due(c, "lost")) /\ (c \in Handles \/ step[c] = 2)
  /\ Settles(c, "failed") /\ UNCHANGED siphons

Retry(c) ==
  /\ c \in Ingests /\ step[c] = 1
  /\ Due(c, "busy") \/ Due(c, "lost")
  /\ step' = [step EXCEPT ![c] = 2]
  /\ AwaitConnect(c, Tail(jobs))
  /\ UNCHANGED <<served, input, siphons, pending>>

\* Mutant: what came before the answer of the registration is dropped.
Subscribed_DropsEarly(h) ==
  /\ Due(h, "ok") /\ h \in Handles /\ step[h] = 1
  /\ handlers' = handlers \cup {h}
  /\ early' = [early EXCEPT ![h] = <<>>]
  /\ Enters(h, "done")
  /\ jobs' = Tail(jobs) \o (IF h \in stopped THEN <<Job(h, "stop")>> ELSE <<>>)
  /\ UNCHANGED <<served, sockets, input, step, pending, handled, stopped, spilled,
                 garbled>>

\* The handler is set and given the early events; a stop() that awaited ready goes on.
Subscribed(h) ==
  /\ Due(h, "ok") /\ h \in Handles /\ step[h] = 1
  /\ handlers' = handlers \cup {h}
  /\ handled' = [handled EXCEPT ![h] = @ \o early[h]]
  /\ early' = [early EXCEPT ![h] = <<>>]
  /\ Enters(h, "done")
  /\ jobs' = Tail(jobs) \o (IF h \in stopped THEN <<Job(h, "stop")>> ELSE <<>>)
  /\ UNCHANGED <<served, sockets, input, step, pending, stopped, spilled, garbled>>

\* Mutant: the handler is forgotten only when the daemon has answered.
Forget_Later(h) == UNCHANGED <<handlers, early>>

Forget(h) == handlers' = handlers \ {h} /\ early' = [early EXCEPT ![h] = <<>>]

\* unsubscribe: the handler and the early events go first, then the request.
Unsubscribe(h, before) ==
  /\ Forget(h)
  /\ step' = [step EXCEPT ![h] = 2]
  /\ AwaitConnect(h, before)
  /\ UNCHANGED <<served, input, pending, handled, spilled, garbled>>

\* stop() awaits the registration; of one that failed it reports the error.
Stop(h) ==
  /\ Quiet /\ phase[h] # "idle" /\ h \notin stopped
  /\ stopped' = stopped \cup {h}
  /\ IF phase[h] = "done" THEN Unsubscribe(h, jobs)
     ELSE UNCHANGED <<served, sockets, input, calls, handlers, early, handled, spilled, garbled>>

StopReady(h) == Due(h, "stop") /\ Unsubscribe(h, Tail(jobs)) /\ UNCHANGED stopped

Unsubscribed(h) ==
  /\ Due(h, "ok") /\ h \in Handles /\ step[h] = 2
  /\ Settles(h, "done") /\ UNCHANGED siphons

RunJob(c) ==
  \/ Write(c) \/ Resolved(c) \/ Rejected(c) \/ Retry(c)
  \/ Subscribed(c) \/ StopReady(c) \/ Unsubscribed(c)

-----------------------------------------------------------------------------
(* The events of a socket. *)

\* The promise of s is settled and the calls that await it go on.
Settled(s, result) ==
  /\ waiting' = [waiting EXCEPT ![s] = <<>>]
  /\ jobs' = jobs \o Jobs(waiting[s], result)

\* A connection is accepted; one accepted while the daemon closes is closed at
\* once. A socket ended while it was opening sends its end now.
Opened(s) ==
  /\ Quiet /\ sock[s] \in {"opening", "cancelled"}
  /\ daemon # "down"
  /\ sock' = [sock EXCEPT ![s] = IF @ = "opening" THEN "open" ELSE "ending"]
  /\ peer' = [peer EXCEPT ![s] = IF sock[s] = "opening" THEN "open" ELSE "half"]
  /\ conn' = [conn EXCEPT ![s] = IF daemon = "up" THEN "open" ELSE "done"]
  /\ Settled(s, "opened")
  /\ UNCHANGED <<daemon, inbox, reply, mute, wire, store, published, subscriptions, meshEvents,
                 faults, socket, connecting, input, siphons, phase, step, pending>>

\* Nobody listens: the error rejects the promise, the close comes later.
Refused(s) ==
  /\ Quiet /\ sock[s] \in {"opening", "cancelled"}
  /\ daemon # "up"
  /\ sock' = [sock EXCEPT ![s] = "refused"]
  /\ Settled(s, "lost")
  /\ UNCHANGED <<served, socket, connecting, input, siphons, phase, step, pending>>

\* The daemon's end is closed and everything it wrote is read.
Hangup(s) ==
  /\ Quiet /\ sock[s] \in {"open", "ending"}
  /\ conn[s] \in {"shut", "done"} /\ wire[s] = <<>>
  /\ Destroyed(s)
  /\ UNCHANGED <<daemon, conn, inbox, reply, mute, store, published, subscriptions, meshEvents,
                 faults, socket, connecting, waiting, input, siphons, calls>>

\* Pending requests are rejected, in their order, and before other jobs.
RejectPending(others) ==
  /\ jobs' = jobs \o Jobs(pending, "lost") \o others
  /\ phase' = [c \in Calls |-> IF phase[c] = "sent" THEN "answered" ELSE phase[c]]
  /\ pending' = <<>>

\* Mutant: the settled promise of the connection is kept.
SocketClosed_KeepsConnecting(s) ==
  /\ Quiet /\ sock[s] \in {"dying", "refused"}
  /\ sock' = [sock EXCEPT ![s] = "closed"]
  /\ socket' = None
  /\ RejectPending(<<>>)
  /\ UNCHANGED <<served, connecting, waiting, input, siphons, step>>

\* Mutant: the requests are forgotten together with their timers.
SocketClosed_Forgets(s) ==
  /\ Quiet /\ sock[s] \in {"dying", "refused"}
  /\ sock' = [sock EXCEPT ![s] = "closed"]
  /\ socket' = None /\ connecting' = None
  /\ pending' = <<>>
  /\ UNCHANGED <<served, waiting, input, siphons, phase, step, jobs>>

\* The close of any socket, also of one replaced since, clears the client's.
SocketClosed(s) ==
  /\ Quiet /\ sock[s] \in {"dying", "refused"}
  /\ sock' = [sock EXCEPT ![s] = "closed"]
  /\ socket' = None /\ connecting' = None
  /\ RejectPending(<<>>)
  /\ UNCHANGED <<served, waiting, input, siphons, step>>

IsAnswer(m, id) == "id" \in DOMAIN m /\ m.id = id

\* The answer of c's request can still come.
OnItsWay(c) ==
  LET id == <<c, step[c]>> IN
  \E s \in Connections :
    \/ \E i \in 1..Len(inbox[s]) : inbox[s][i].id = id
    \/ reply[s] # None /\ reply[s].id = id
    \/ \E i \in 1..Len(wire[s]) : wire[s][i].part # "begin" /\ IsAnswer(wire[s][i].message, id)

\* The request of c is pending no more, and its continuation is due.
Answered(c, result) ==
  /\ \E i \in 1..Len(pending) : pending[i] = c /\ pending' = RemoveAt(pending, i)
  /\ Enters(c, "answered")
  /\ jobs' = Append(jobs, Job(c, result))

\* A pending request waits no longer; its answer, if it comes, finds nobody.
Timeout(c) ==
  /\ Quiet /\ phase[c] = "sent"
  /\ IF OnItsWay(c) THEN Fault ELSE UNCHANGED faults
  /\ Answered(c, "lost")
  /\ UNCHANGED <<daemon, connections, store, published, subscriptions, meshEvents, sockets, input,
                 siphons, step>>

\* close() ends the socket, which goes on reading until the daemon ends too.
Close ==
  /\ Quiet /\ socket # None /\ Fault
  /\ sock' = [sock EXCEPT ![socket] = CASE @ = "open" -> "ending" [] @ = "opening" -> "cancelled"
                                        [] OTHER -> @]
  /\ peer' = [peer EXCEPT ![socket] = IF @ = "open" THEN "half" ELSE @]
  /\ socket' = None /\ connecting' = None
  /\ UNCHANGED <<daemon, conn, inbox, reply, mute, wire, store, published, subscriptions,
                 meshEvents, waiting, input, siphons, calls>>

-----------------------------------------------------------------------------
(* DaemonClient.processBuffer, one line after the other. *)

Readable(s) ==
  /\ sock[s] \in {"open", "ending"} /\ wire[s] # <<>>
  /\ reading = s \/ Quiet

\* After this line the chunk is over, or it holds more.
ChunkGoesOn(s) == reading' \in (IF Len(wire[s]) > 1 THEN {s, None} ELSE {None})

Takeaway(s) ==
  /\ wire' = [wire EXCEPT ![s] = Tail(@)]
  /\ UNCHANGED <<daemon, conn, peer, inbox, reply, mute, store, published, subscriptions,
                 meshEvents, faults>>

\* The buffer and the line make a message only together with their other half.
Complete(s) == LET line == Head(wire[s]) IN
  \/ line.part = "whole" /\ buffer = None
  \/ line.part = "rest" /\ buffer = s

\* The chunk ends within a line. That is left out where the rest is sure to be
\* the next that is read: one socket at a time, and its other end still open.
ReadPart(s) ==
  /\ Readable(s) /\ Head(wire[s]).part = "whole" /\ buffer = None
  /\ conn[s] # "open" \/ \E t \in Connections : sock[t] = "ending"
  /\ wire' = [wire EXCEPT ![s][1].part = "rest"]
  /\ buffer' = s /\ reading' = None
  /\ UNCHANGED <<daemon, conn, peer, inbox, reply, mute, store, published, subscriptions,
                 meshEvents, faults, sockets, siphons, calls>>

\* What is left of a line whose rest was never written stays in the buffer.
ReadFragment(s) ==
  /\ Readable(s) /\ Head(wire[s]).part = "begin"
  /\ Takeaway(s)
  /\ buffer' = s /\ reading' = None
  /\ UNCHANGED <<sockets, siphons, calls>>

\* The answer of the request that is pending under its ID.
ReadAnswer(s) ==
  LET m == Head(wire[s]).message IN
  /\ Readable(s) /\ Complete(s) /\ "id" \in DOMAIN m
  /\ IF \E i \in 1..Len(pending) : <<pending[i], step[pending[i]]>> = m.id
     THEN Answered(m.id[1], m.result)
     ELSE UNCHANGED <<pending, phase, jobs>>
  /\ Takeaway(s) /\ buffer' = None /\ ChunkGoesOn(s)
  /\ UNCHANGED <<sockets, siphons, step>>

\* An event goes to its handler; without one it is kept as long as there is room.
ReadEvent(s) ==
  LET m == Head(wire[s]).message IN
  /\ Readable(s) /\ Complete(s) /\ "sub" \in DOMAIN m
  /\ IF m.sub \in handlers
     THEN /\ handled' = [handled EXCEPT ![m.sub] = Append(@, m.event)]
          /\ UNCHANGED <<early, spilled>>
     ELSE IF Len(early[m.sub]) < EarlyLimit
          THEN /\ early' = [early EXCEPT ![m.sub] = Append(@, m.event)]
               /\ UNCHANGED <<handled, spilled>>
          ELSE spilled' = [spilled EXCEPT ![m.sub] = TRUE] /\ UNCHANGED <<handled, early>>
  /\ Takeaway(s) /\ buffer' = None /\ ChunkGoesOn(s)
  /\ UNCHANGED <<sockets, handlers, stopped, garbled, calls>>

\* failConnection: every pending request is rejected and this.socket, which may
\* be another one than s, is destroyed; the chunk is not read further.
ReadGarbage(s) ==
  LET opening == socket # None /\ sock[socket] = "opening"
      open    == IsOpen(socket)
  IN
  /\ Readable(s) /\ Head(wire[s]).part # "begin" /\ ~Complete(s)
  /\ \E n \in 1..Len(wire[s]) :
       wire' = [wire EXCEPT ![s] = IF s = socket THEN <<>> ELSE SubSeq(@, n + 1, Len(@))]
  /\ garbled' = (garbled \/ s # socket)
  /\ buffer' = None /\ reading' = None
  /\ sock' = IF opening THEN [sock EXCEPT ![socket] = "refused"]
             ELSE IF open THEN [sock EXCEPT ![socket] = "dying"] ELSE sock
  /\ peer' = IF open THEN [peer EXCEPT ![socket] = "gone"] ELSE peer
  /\ waiting' = IF opening THEN [waiting EXCEPT ![socket] = <<>>] ELSE waiting
  /\ RejectPending(IF opening THEN Jobs(waiting[socket], "lost") ELSE <<>>)
  /\ UNCHANGED <<daemon, conn, inbox, reply, mute, store, published, subscriptions, meshEvents,
                 faults, socket, connecting, handlers, early, stopped, handled, spilled, step>>

SocketStep(s) == Opened(s) \/ Refused(s) \/ Hangup(s) \/ SocketClosed(s)
ReadStep(s)   == ReadPart(s) \/ ReadFragment(s) \/ ReadAnswer(s) \/ ReadEvent(s) \/ ReadGarbage(s)

\* What the daemon does during a turn of the event loop it can as well do right
\* after the turn: the turn reads of it no more than whether it is connected.
Serves(A) == Quiet /\ A /\ UNCHANGED client

Next ==
  \/ Serves(ServerNext)
  \/ Close
  \/ \E c \in Calls : Call(c) \/ RunJob(c) \/ Timeout(c)
  \/ \E h \in Handles : Stop(h)
  \/ \E s \in Connections : SocketStep(s) \/ ReadStep(s)

\* What goes on by itself: goroutines, the event loop, timers, the kernel. It is
\* not the program's next call, a fault, or who starts a daemon that is down.
Progress ==
  \/ Serves(Closed)
  \/ \E s \in Connections :
       \/ Serves(HandleIngest(s) \/ HandleRegister(s) \/ HandleUnregister(s))
       \/ Serves(Answer(s) \/ HandlerEnds(s))
       \/ SocketStep(s) \/ ReadStep(s)
  \/ \E h \in Handles : Serves(SubscriptionStep(h))
  \/ \E c \in Calls : RunJob(c) \/ Timeout(c)

\* As long as one of them can go on, one does. No behaviour goes round in
\* circles, hence each has its turn in the end.
Fairness == WF_vars(Progress)

Spec == Init /\ [][Next]_vars /\ Fairness

-----------------------------------------------------------------------------
(* Properties. *)

TypeOK ==
  /\ ServerTypeOK
  /\ sock \in [Connections -> {"free", "opening", "cancelled", "open", "ending", "dying",
                               "refused", "closed"}]
  /\ {socket, connecting, buffer, reading} \subseteq Connections \cup {None}
  /\ connecting # None => sock[connecting] \in {"opening", "open", "dying", "refused"}
  /\ \A s \in Connections : \A c \in Range(waiting[s]) :
       phase[c] = "connecting" /\ sock[s] \in {"opening", "cancelled"}
  /\ Range(pending) = {c \in Calls : phase[c] = "sent"} /\ IsInjective(pending)
  /\ phase \in [Calls -> {"idle", "connecting", "sent", "answered", "done", "failed"}]
  /\ step \in [Calls -> {1, 2}]
  /\ \A c \in Calls : phase[c] = "answered" => \E i \in 1..Len(jobs) : jobs[i].call = c
  /\ handlers \subseteq Handles /\ stopped \subseteq Handles
  /\ \A h \in Handles : Len(early[h]) <= EarlyLimit

\* An ingest call that succeeded has its event in the store, and no call ever
\* stores two: whatever was lost, refused or timed out on the way, the retry
\* meets the event it may already have stored (Thalweg.ingest, index.ts).
IngestedOnce ==
  \A c \in Ingests : /\ phase[c] = "done" => EventID(c) \in store
                     /\ Cardinality({id \in store : id[1] = c}) <= 1

\* The callback of a siphon is given the events broadcast to its subscription in
\* their order and without a gap, except behind an overflow, of the daemon's queue
\* or of the events kept before the registration is answered, and behind lines
\* of a socket under close() that were mixed up with those of its successor
\* (broadcast, deliverSubscription, processBuffer, subscribe).
NoSilentGap ==
  \A h \in Handles : \A i \in 1..Len(handled[h]) :
    \/ handled[h][i] = since[h] + i
    \/ missed[h] \/ spilled[h] \/ garbled

\* Once stop() is past the registration the callback is not called any more,
\* although events go on arriving until the daemon has unregistered it.
SilentAfterStop == [][\A h \in Handles : step[h] = 2 => handled'[h] = handled[h]]_vars

\* Every call that was made comes to an end: across refused, lost, replaced,
\* mute and crashed connections no promise is left pending (DaemonClient).
CallsSettle ==
  \A c \in Calls : phase[c] \in {"connecting", "sent", "answered"} ~> phase[c] \in {"done", "failed"}

\* A subscriber that missed an event because it was slow loses its connection,
\* so that it can tell, unless it unsubscribes meanwhile (broadcast, Handle).
SlowSubscriberCut ==
  \A h \in Handles : missed[h] ~> step[h] = 2 \/ (home[h] # None /\ conn[home[h]] = "done")

\* Close ends: handlers and delivery goroutines all stop, whatever clients do.
CloseEnds == daemon = "closing" ~> daemon # "closing"
=============================================================================
