----------------------------- MODULE EventStore -----------------------------
(***************************************************************************)
(* The event store of one daemon: local ingestion, replicated ingestion,   *)
(* the hybrid logical clock that stamps local events, the event-ID index,  *)
(* the daemon-local arrival index and the live broadcast, with goroutines  *)
(* that interleave and a process that may die at any moment.               *)
(* (core/daemon/daemon.go, hlc.go, and the arrival index of                *)
(* durable_siphon.go.)                                                     *)
(*                                                                         *)
(* A wall clock reading is any member of Walls: clocks differ between      *)
(* hosts, stand still and are set back, and the code trusts none of them.  *)
(***************************************************************************)
EXTENDS Naturals, Sequences

CONSTANTS
  Keys,          \* network/event ID pairs (the key of the event-ID index)
  Bodies,        \* stream and canonical payload of an event
  Walls,         \* wall clock readings, also the possible occurredAt values
  Self,          \* this daemon's device ID
  Peers,         \* the other devices
  Requests,      \* the event_ingest requests clients may send
  RemoteEvents,  \* the replicated events peers may send
  Workers,       \* goroutines that serve ingestion
  MaxLogical,    \* math.MaxUint64 of incrementLogical, scaled down
  MaxArrivals,   \* ^uint64(0) of appendArrivalIndex, scaled down
  NoEvent, NoWorker, NoCall, NoEntry, NotGiven

\* Physical time 0 stands for the empty string of a clock never used.
Stamps == [phys : Walls \cup {0}, log : 0..MaxLogical]

Envelopes == [body : Bodies, occurred : Walls, origin : Peers \cup {Self}, at : Stamps]

\* given is the request's occurredAt, which a client may leave out.
ValidRequests == [key : Keys, body : Bodies, given : Walls \cup {NotGiven}]

\* A request and the wall clock as ingestInternal read it.
Calls == [req : ValidRequests, wall : Walls]

\* The event variable of an ingestion handler once its transaction committed.
Results == [seq : 1..MaxArrivals, key : Keys, envelope : Envelopes]

ASSUME WallsAssumption == Walls \subseteq Nat \ {0}

ASSUME LimitsAssumption == MaxLogical \in Nat /\ MaxArrivals \in Nat

ASSUME InputAssumption ==
  /\ Requests \subseteq ValidRequests
  /\ RemoteEvents \subseteq [key : Keys, envelope : Envelopes]

ASSUME AbsenceAssumption ==
  /\ NoEvent \notin Envelopes
  /\ NoWorker \notin Workers
  /\ NotGiven \notin Walls

VARIABLES
  events,     \* primary event and event-ID index: key -> envelope or NoEvent
  arrivals,   \* arrival index: sequence number -> key
  clock,      \* meta:hlc-state, written in the transaction of each event
  hlc,        \* Daemon.hlc.state, the copy in memory
  ingestMu,   \* who holds Daemon.ingestMu
  pc, call, result,   \* the ingestion handlers
  announced,  \* what broadcast handed to live subscribers, in order
  answers     \* every success a local client was ever told (history)

durable  == <<events, arrivals, clock>>
handlers == <<pc, call, result>>
vars == <<events, arrivals, clock, hlc, ingestMu, pc, call, result, announced, answers>>

-----------------------------------------------------------------------------
(* The hybrid logical clock. *)

Before(s, t) == s.phys < t.phys \/ (s.phys = t.phys /\ s.log < t.log)

\* Mutant: the counter runs past its width.
Representable_Unchecked(s) == s.log <= MaxLogical + 1

\* incrementLogical fails at the largest counter.
Representable(s) == s.log <= MaxLogical

\* Mutant: the wall clock is taken as it is, also when it stands still.
NextLocal_WallNotBehind(wall) ==
  IF wall >= hlc.phys THEN [phys |-> wall, log |-> 0]
                      ELSE [phys |-> hlc.phys, log |-> hlc.log + 1]

NextLocal(wall) ==
  IF wall > hlc.phys THEN [phys |-> wall, log |-> 0]
                     ELSE [phys |-> hlc.phys, log |-> hlc.log + 1]

Larger(a, b) == IF a > b THEN a ELSE b

\* Mutant: the remote logical counter is forgotten.
MergeHLC_IgnoresRemoteCounter(local, remote, wall) ==
  LET top == Larger(wall, Larger(local.phys, remote.phys))
  IN  [phys |-> top, log |-> IF top = local.phys THEN local.log + 1 ELSE 0]

MergeHLC(local, remote, wall) ==
  LET top == Larger(wall, Larger(local.phys, remote.phys))
  IN  [phys |-> top,
       log  |-> CASE top = local.phys /\ top = remote.phys -> Larger(local.log, remote.log) + 1
                  [] top = local.phys /\ top # remote.phys -> local.log + 1
                  [] top # local.phys /\ top = remote.phys -> remote.log + 1
                  [] OTHER -> 0]

-----------------------------------------------------------------------------
Init ==
  /\ events    = [k \in Keys |-> NoEvent]
  /\ arrivals  = <<>>
  /\ clock     = [phys |-> 0, log |-> 0]
  /\ hlc       = clock
  /\ ingestMu  = NoWorker
  /\ pc        = [w \in Workers |-> "idle"]
  /\ call      = [w \in Workers |-> NoCall]
  /\ result    = [w \in Workers |-> NoEntry]
  /\ announced = <<>>
  /\ answers   = {}

\* Mutant: the ID index is not consulted, a second envelope replaces the first.
Stored_NeverLooks(k) == FALSE /\ events[k] # NoEvent

Stored(k) == events[k] # NoEvent

\* One transaction writes the event, its ID index entry, the next arrival
\* number and the clock state: all of it or, on any error, none of it.
Commit(k, envelope, stamp) ==
  /\ Representable(stamp)
  /\ Len(arrivals) < MaxArrivals
  /\ events'   = [events EXCEPT ![k] = envelope]
  /\ arrivals' = Append(arrivals, k)
  /\ clock'    = stamp

-----------------------------------------------------------------------------
(* Local ingestion. *)

\* ingestInternal validates the request and reads the wall clock before it
\* waits for the mutex: the reading may be old when it is used.
BeginIngest(w) ==
  /\ pc[w] = "idle"
  /\ \E r \in Requests, wall \in Walls :
       call' = [call EXCEPT ![w] = [req |-> r, wall |-> wall]]
  /\ pc' = [pc EXCEPT ![w] = "captured"]
  /\ UNCHANGED <<durable, hlc, ingestMu, result, announced, answers>>

\* validateIdempotentRetry: occurredAt counts only when the client gave it.
SameRequest(envelope, r) ==
  /\ envelope.body = r.body
  /\ r.given \in {NotGiven, envelope.occurred}

LocalEnvelope(c) ==
  [body     |-> c.req.body,
   occurred |-> IF c.req.given = NotGiven THEN c.wall ELSE c.req.given,
   origin   |-> Self,
   at       |-> NextLocal(c.wall)]

Idle(w) ==
  /\ pc'     = [pc EXCEPT ![w] = "idle"]
  /\ call'   = [call EXCEPT ![w] = NoCall]
  /\ result' = [result EXCEPT ![w] = NoEntry]

\* Mutant: a retry is answered with an envelope built from the request.
AnswerRetry_Rebuilds(w) ==
  /\ pc[w] = "captured" /\ ingestMu = NoWorker
  /\ LET c == call[w] IN
       /\ Stored(c.req.key) /\ SameRequest(events[c.req.key], c.req)
       /\ answers' = answers \cup {[key |-> c.req.key, envelope |-> LocalEnvelope(c)]}
  /\ Idle(w)
  /\ UNCHANGED <<durable, hlc, ingestMu, announced>>

\* The ID is stored with the same content: the stored event is the answer.
AnswerRetry(w) ==
  /\ pc[w] = "captured" /\ ingestMu = NoWorker
  /\ LET c == call[w] IN
       /\ Stored(c.req.key) /\ SameRequest(events[c.req.key], c.req)
       /\ answers' = answers \cup {[key |-> c.req.key, envelope |-> events[c.req.key]]}
  /\ Idle(w)
  /\ UNCHANGED <<durable, hlc, ingestMu, announced>>

\* The ID is stored with other content, the clock is exhausted or the arrival
\* sequence is: the request fails and the transaction leaves nothing behind.
RefuseLocal(w) ==
  /\ pc[w] = "captured" /\ ingestMu = NoWorker
  /\ LET c == call[w] IN
       IF Stored(c.req.key) THEN ~SameRequest(events[c.req.key], c.req)
       ELSE ~Representable(NextLocal(c.wall)) \/ Len(arrivals) >= MaxArrivals
  /\ Idle(w)
  /\ UNCHANGED <<durable, hlc, ingestMu, announced, answers>>

CommitLocal(w) ==
  /\ pc[w] = "captured" /\ ingestMu = NoWorker
  /\ LET c == call[w] IN
       /\ ~Stored(c.req.key)
       /\ Commit(c.req.key, LocalEnvelope(c), NextLocal(c.wall))
       /\ result' = [result EXCEPT ![w] = [seq |-> Len(arrivals) + 1, key |-> c.req.key,
                                           envelope |-> LocalEnvelope(c)]]
  /\ ingestMu' = w
  /\ pc'   = [pc EXCEPT ![w] = "committed"]
  /\ call' = [call EXCEPT ![w] = NoCall]
  /\ UNCHANGED <<hlc, announced, answers>>

Announce(w, isLocal) ==
  announced' = Append(announced, [seq |-> result[w].seq, local |-> isLocal])

\* Mutant: the mutex is released first, the broadcast follows as it does for a
\* replicated event.
CompleteLocal_UnlocksFirst(w) ==
  /\ pc[w] = "committed"
  /\ IF ingestMu = w
     THEN /\ hlc' = clock
          /\ ingestMu' = NoWorker
          /\ answers' = answers \cup {[key |-> result[w].key, envelope |-> result[w].envelope]}
          /\ UNCHANGED <<handlers, announced>>
     ELSE /\ Announce(w, TRUE)
          /\ Idle(w)
          /\ UNCHANGED <<hlc, ingestMu, answers>>
  /\ UNCHANGED durable

\* Still under ingestMu: advance the clock in memory and broadcast; then
\* unlock and answer the client.
CompleteLocal(w) ==
  /\ pc[w] = "committed"
  /\ hlc' = clock
  /\ ingestMu' = NoWorker
  /\ Announce(w, TRUE)
  /\ answers' = answers \cup {[key |-> result[w].key, envelope |-> result[w].envelope]}
  /\ Idle(w)
  /\ UNCHANGED durable

-----------------------------------------------------------------------------
(* Replicated ingestion. An event already stored, with the same envelope or  *)
(* another, changes nothing and is a stuttering step.                        *)

CommitReplicated(w) ==
  /\ pc[w] = "idle" /\ ingestMu = NoWorker
  /\ \E r \in RemoteEvents, wall \in Walls :
       /\ ~Stored(r.key)
       /\ Commit(r.key, r.envelope, MergeHLC(hlc, r.envelope.at, wall))
       /\ result' = [result EXCEPT ![w] = [seq |-> Len(arrivals) + 1, key |-> r.key,
                                           envelope |-> r.envelope]]
  /\ ingestMu' = w
  /\ pc' = [pc EXCEPT ![w] = "merged"]
  /\ UNCHANGED <<hlc, call, announced, answers>>

\* ingestReplicated releases the mutex before it broadcasts.
UnlockReplicated(w) ==
  /\ pc[w] = "merged"
  /\ hlc' = clock
  /\ ingestMu' = NoWorker
  /\ pc' = [pc EXCEPT ![w] = "announcing"]
  /\ UNCHANGED <<durable, call, result, announced, answers>>

AnnounceReplicated(w) ==
  /\ pc[w] = "announcing"
  /\ Announce(w, FALSE)
  /\ Idle(w)
  /\ UNCHANGED <<durable, hlc, ingestMu, answers>>

-----------------------------------------------------------------------------
\* The process dies at any point and starts again: handlers, mutex and live
\* subscribers are gone, loadHLC reads the clock back.
Restart ==
  /\ hlc'       = clock
  /\ ingestMu'  = NoWorker
  /\ pc'        = [w \in Workers |-> "idle"]
  /\ call'      = [w \in Workers |-> NoCall]
  /\ result'    = [w \in Workers |-> NoEntry]
  /\ announced' = <<>>
  /\ UNCHANGED <<durable, answers>>

Next ==
  \/ \E w \in Workers :
       \/ BeginIngest(w) \/ AnswerRetry(w) \/ RefuseLocal(w)
       \/ CommitLocal(w) \/ CompleteLocal(w)
       \/ CommitReplicated(w) \/ UnlockReplicated(w) \/ AnnounceReplicated(w)
  \/ Restart

Spec == Init /\ [][Next]_vars

-----------------------------------------------------------------------------
(* Properties. *)

TypeOK ==
  /\ events    \in [Keys -> Envelopes \cup {NoEvent}]
  /\ arrivals  \in Seq(Keys)
  /\ clock     \in Stamps
  /\ hlc       \in Stamps
  /\ ingestMu  \in Workers \cup {NoWorker}
  /\ pc        \in [Workers -> {"idle", "captured", "committed", "merged", "announcing"}]
  /\ call      \in [Workers -> Calls \cup {NoCall}]
  /\ result    \in [Workers -> Results \cup {NoEntry}]
  /\ announced \in Seq([seq : 1..MaxArrivals, local : BOOLEAN])
  /\ answers   \subseteq [key : Keys, envelope : Envelopes]

\* The persisted clock is never behind an event in the store, whoever stamped
\* it: after a crash at any point loadHLC starts from a clock that covers
\* everything the node has ever seen (setHLCState in both transactions).
ClockCoversStore == \A k \in Keys : Stored(k) => ~Before(clock, events[k].at)

\* An event created here is stamped strictly after every event the store held,
\* local or replicated, although the wall clock may have been read long before
\* the mutex was taken, may be behind other devices and may have been set
\* back, and although the daemon may have restarted in between.
FreshStampsDominate ==
  [][\A w \in Workers : CommitLocal(w) =>
        \A j, k \in Keys : (Stored(j) /\ ~Stored(k) /\ Stored(k)')
                            => Before(events[j].at, (events[k].at)')]_vars

\* What a client was told is what the store holds for good: the answer to a
\* retry, after whatever crash, is the envelope of the first success.
AnswersAreStored == \A a \in answers : events[a.key] = a.envelope

\* Live subscribers see local events in arrival order, each once: ingestMu is
\* held over the broadcast. (Nothing of the kind holds for replicated ones.)
LocalAnnouncedInOrder ==
  \A i, j \in 1..Len(announced) :
    (i < j /\ announced[i].local /\ announced[j].local)
      => announced[i].seq < announced[j].seq

\* The store implements the append-only log: no envelope is ever replaced, no
\* ID arrives twice and no arrival number is skipped or taken back, under any
\* interleaving of handlers and crashes.
ArrivalLog == [s \in 1..Len(arrivals) |->
                 [key |-> arrivals[s], envelope |-> events[arrivals[s]]]]

Log == INSTANCE EventLog WITH log <- ArrivalLog

ImplementsEventLog == Log!Spec
=============================================================================
