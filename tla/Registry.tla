------------------------------ MODULE Registry ------------------------------
(***************************************************************************)
(* The registry runtime of a daemon: definitions (YAML files) that users   *)
(* edit, the snapshot of them that was accepted last, in memory and on     *)
(* disk, and a worker for each enabled definition, which runs a command    *)
(* for every batch of a durable siphon (consumers) or once or at intervals *)
(* (sources). Clients start, stop, restart and reset definitions and       *)
(* reload the files, at the same time; the daemon closes, or crashes and   *)
(* boots again. (internal/registry/runtime.go and worker.go)               *)
(*                                                                         *)
(* r.mu is held for the length of a step, except by a reload, which waits  *)
(* for the workers it replaces while it holds it. What a siphon delivers   *)
(* is the matter of DurableSiphon; here it exists or not.                  *)
(***************************************************************************)
EXTENDS Naturals, FiniteSets

CONSTANTS
  Names,       \* of definitions
  Snapshots,   \* sets of valid files: functions from Names to definitions or None
  Callers,     \* client handlers
  Slots,       \* bound: workers that are alive, in the map or waited for
  MaxCalls,    \* bound: calls of clients
  MaxEdits,    \* bound: edits of the files
  MaxFaults,   \* bound: crashes, failed writes
  None, Invalid

Definitions == {snapshot[n] : n \in Names, snapshot \in Snapshots} \ {None}

Workers ==
  [name : Names, def : Definitions, cancelled : BOOLEAN,
   state : {"new", "polling", "running", "waiting", "ended"}]

ASSUME DefinitionsAssumption ==
  /\ \A d \in Definitions : /\ d.kind \in {"source", "consumer"}
                            /\ {d.enabled, d.once, d.retries} \subseteq BOOLEAN
  /\ None \notin Snapshots \cup Workers \cup Callers \cup Slots
  /\ Invalid \notin Snapshots /\ {"no", "done"} \cap Callers = {}
  /\ Slots \subseteq Nat /\ MaxCalls \in Nat /\ MaxEdits \in Nat /\ MaxFaults \in Nat

VARIABLES
  files,      \* what is in registry.d: a snapshot, or Invalid
  disk,       \* the accepted snapshot on disk, or None
  accepted,   \* r.snapshot
  running,    \* "off", "started", "cancelled" (its context), "closing", "closed" (the
              \* registry), "stopped" (the daemon)
  lock,       \* the caller that holds r.mu from one step to the next
  workers,    \* r.workers: the worker of a name
  worker,     \* the workers themselves
  manualStop, resetAllowed,
  op,         \* what each caller is doing
  closing,    \* the workers that Close waits for
  siphon,     \* the selection of a consumer's siphon, if it exists
  forgotten,  \* the caller that resets a name, or "done", with no start since (history)
  calls, edits, faults

registry == <<accepted, running, lock, workers, worker, manualStop, resetAllowed, closing>>
bounds   == <<calls, edits, faults>>
vars     == <<files, disk, registry, op, siphon, forgotten, bounds>>

Idle     == [do |-> "idle"]
Nothing  == [n \in Names |-> None]
Fault    == faults < MaxFaults /\ faults' = faults + 1

Init ==
  /\ files \in Snapshots /\ disk = None
  /\ accepted = Nothing /\ running = "off" /\ lock = None
  /\ workers = Nothing /\ worker = [i \in Slots |-> None]
  /\ manualStop = {} /\ resetAllowed = {} /\ closing = {}
  /\ op = [c \in Callers |-> Idle]
  /\ siphon = Nothing
  /\ forgotten = [n \in Names |-> "no"]
  /\ calls = 0 /\ edits = 0 /\ faults = 0

\* A user edits the files, for the better or not.
Edit ==
  /\ edits < MaxEdits /\ edits' = edits + 1
  /\ files' \in (Snapshots \cup {Invalid}) \ {files}
  /\ UNCHANGED <<disk, registry, op, siphon, forgotten, calls, faults>>

-----------------------------------------------------------------------------
(* Workers. *)

Alive(i)   == worker[i] # None /\ worker[i].state # "ended"
Enabled(d) == d # None /\ d.enabled

\* A worker whose context is that of the runtime, cancelled or not. A source
\* begins as it goes on after each interval.
New(n, d, cancelled) ==
  [name |-> n, def |-> d, state |-> IF d.kind = "source" THEN "waiting" ELSE "new",
   cancelled |-> cancelled]

\* startWorkerLocked for a set of names, given the map and the workers so far.
StartWorkers(names, map, ws, snapshot, cancelled) ==
  LET free   == {f \in [names -> {i \in Slots : ws[i] = None}] :
                   \A m, n \in names : m # n => f[m] # f[n]}
      slotOf == CHOOSE f \in free : TRUE
  IN  /\ free # {}
      /\ workers' = [n \in Names |-> IF n \in names THEN slotOf[n] ELSE map[n]]
      /\ worker' = [i \in Slots |->
                      IF \E n \in names : slotOf[n] = i
                      THEN LET n == CHOOSE m \in names : slotOf[m] = i
                           IN  New(n, snapshot[n], cancelled)
                      ELSE ws[i]]
      /\ forgotten' = [n \in Names |-> IF n \in names THEN "no" ELSE forgotten[n]]

Goes(i, state) == worker' = [worker EXCEPT ![i].state = state]

WorkerFrame == UNCHANGED <<files, disk, accepted, running, lock, workers, manualStop, resetAllowed,
                           op, closing, forgotten, calls, edits>>

\* A consumer first creates its siphon, cancelled or not, and fails for good if
\* it exists with another selection.
CreateSiphon(i) ==
  LET w == worker[i] IN
  /\ w # None /\ w.state = "new"
  /\ IF siphon[w.name] \in {None, w.def.selection}
     THEN siphon' = [siphon EXCEPT ![w.name] = w.def.selection] /\ Goes(i, "polling")
     ELSE Goes(i, "ended") /\ UNCHANGED siphon
  /\ WorkerFrame /\ UNCHANGED faults

\* A batch, or an interval, and its command is started.
RunCommand(i) ==
  LET w == worker[i] IN
  /\ w # None /\ ~w.cancelled
  /\ \/ w.state = "polling" /\ siphon[w.name] # None
     \/ w.state = "waiting"
  /\ Goes(i, "running")
  /\ WorkerFrame /\ UNCHANGED <<siphon, faults>>

\* Without its siphon every poll fails; a consumer that retries does so for ever.
PollFails(i) ==
  LET w == worker[i] IN
  /\ w # None /\ w.state = "polling"
  /\ siphon[w.name] = None /\ ~w.def.retries
  /\ Goes(i, "ended")
  /\ WorkerFrame /\ UNCHANGED <<siphon, faults>>

\* Whether it could then be acknowledged or not, the consumer goes on polling.
CommandSucceeds(i) ==
  LET w == worker[i] IN
  /\ w # None /\ w.state = "running"
  /\ Goes(i, IF w.def.kind = "consumer" THEN "polling"
             ELSE IF w.def.once THEN "ended" ELSE "waiting")
  /\ WorkerFrame /\ UNCHANGED <<siphon, faults>>

CommandFails(i) ==
  LET w == worker[i] IN
  /\ w # None /\ w.state = "running" /\ ~w.cancelled
  /\ Goes(i, IF ~w.def.retries THEN "ended"
             ELSE IF w.def.kind = "consumer" THEN "polling" ELSE "waiting")
  /\ WorkerFrame /\ UNCHANGED <<siphon, faults>>

\* A cancelled worker ends; its command is terminated, or killed after the grace.
Stops(i) ==
  LET w == worker[i] IN
  /\ w # None /\ w.cancelled
  /\ w.state \in {"polling", "running", "waiting"}
  /\ Goes(i, "ended")
  /\ WorkerFrame /\ UNCHANGED <<siphon, faults>>

WorkerStep(i) ==
  \/ CreateSiphon(i) \/ RunCommand(i) \/ PollFails(i) \/ CommandSucceeds(i)
  \/ CommandFails(i) \/ Stops(i)

-----------------------------------------------------------------------------
(* Calls of clients. *)

\* The handler of a client takes up a request; the daemon still runs.
Calling(c) ==
  /\ running # "off" /\ running # "stopped"
  /\ op[c] = Idle /\ calls < MaxCalls /\ calls' = calls + 1

Becomes(c, state) == op' = [op EXCEPT ![c] = state]
Returns(c) == Becomes(c, Idle)

\* r.started
Started == running \in {"started", "cancelled"}

\* What may start only when nobody holds r.mu.
Unlocked == lock = None

\* Mutant: a worker is started although there is one.
StartDefinition_Always(n) ==
  /\ Unlocked
  /\ IF ~Enabled(accepted[n])
     THEN UNCHANGED <<manualStop, workers, worker, forgotten>>
     ELSE /\ manualStop' = manualStop \ {n}
          /\ StartWorkers({n}, workers, worker, accepted, running # "started")

\* StartDefinition: nothing is done for a name that has a worker, dead or alive.
StartDefinition(n) ==
  /\ Unlocked
  /\ IF ~Enabled(accepted[n])
     THEN UNCHANGED <<manualStop, workers, worker, forgotten>>
     ELSE /\ manualStop' = manualStop \ {n}
          /\ IF workers[n] # None THEN UNCHANGED <<workers, worker, forgotten>>
             ELSE StartWorkers({n}, workers, worker, accepted, running # "started")

CallStart(c) ==
  /\ Calling(c)
  /\ \E n \in Names : StartDefinition(n)
  /\ UNCHANGED <<files, disk, accepted, running, lock, resetAllowed, closing, op, siphon, edits, faults>>

\* The worker is taken out of the map under the lock, and stopped without it.
TakeWorker(c, n, what) ==
  /\ Unlocked /\ accepted[n] # None
  /\ manualStop' = manualStop \cup {n}
  /\ workers' = [workers EXCEPT ![n] = None]
  /\ Becomes(c, [do |-> what, name |-> n, at |-> "stop", taken |-> workers[n],
                 kind |-> accepted[n].kind])

\* StopDefinition, alone or as the first half of a restart.
CallStop(c) ==
  /\ Calling(c)
  /\ \E n \in Names, what \in {"stop", "restart"} : TakeWorker(c, n, what)
  /\ UNCHANGED <<files, disk, accepted, running, lock, worker, resetAllowed, closing, siphon, forgotten,
                 edits, faults>>

\* A worker of the name lives that is no longer in the map.
Lingers(n) == \E i \in Slots : Alive(i) /\ worker[i].name = n /\ i # workers[n]

\* A reset counts as begun unless an earlier worker of the name is still alive.
CallReset(c) ==
  /\ Calling(c)
  /\ \E n \in Names :
       /\ TakeWorker(c, n, "reset")
       /\ resetAllowed' = resetAllowed \cup {n}
       /\ forgotten' = [forgotten EXCEPT ![n] = IF Lingers(n) THEN "no" ELSE c]
  /\ UNCHANGED <<files, disk, accepted, running, lock, worker, closing, siphon, edits, faults>>

\* Mutant: the worker is waited for, and never told.
Cancelled_NotTold(i) == worker

Cancelled(i) == [worker EXCEPT ![i].cancelled = TRUE]

Cancel(c) ==
  /\ op[c] # Idle /\ op[c].at = "stop" /\ op[c].taken # None
  /\ worker' = Cancelled(op[c].taken)
  /\ Becomes(c, [op[c] EXCEPT !.at = "wait"])
  /\ UNCHANGED <<files, disk, accepted, running, lock, workers, manualStop, resetAllowed, closing,
                 siphon, forgotten, bounds>>

\* Mutant: the caller does not wait for the end.
Stopped_AtOnce(c) == op[c] # Idle /\ (op[c].at = "wait" \/ (op[c].at = "stop" /\ op[c].taken = None))

\* stop() has returned, or there was nothing to stop.
Stopped(c) ==
  /\ op[c] # Idle
  /\ \/ op[c].at = "wait" /\ ~Alive(op[c].taken)
     \/ op[c].at = "stop" /\ op[c].taken = None

\* Nobody refers to a worker that was waited for; Close may still be waiting.
Released(c) == IF op[c].taken = None \/ op[c].taken \in closing \/ Alive(op[c].taken) THEN worker
               ELSE [worker EXCEPT ![op[c].taken] = None]

StopReturns(c) ==
  /\ Stopped(c) /\ op[c].do = "stop"
  /\ worker' = Released(c)
  /\ Returns(c)
  /\ UNCHANGED <<files, disk, accepted, running, lock, workers, manualStop, resetAllowed, closing,
                 siphon, forgotten, bounds>>

\* The second half of a restart is a call of its own: the lock was free between.
RestartContinues(c) ==
  /\ Stopped(c) /\ op[c].do = "restart"
  /\ worker' = Released(c)
  /\ Becomes(c, [op[c] EXCEPT !.at = "start", !.taken = None])
  /\ UNCHANGED <<files, disk, accepted, running, lock, workers, manualStop, resetAllowed, closing,
                 siphon, forgotten, bounds>>

RestartReturns(c) ==
  /\ op[c] # Idle /\ op[c].at = "start"
  /\ StartDefinition(op[c].name)
  /\ Returns(c)
  /\ UNCHANGED <<files, disk, accepted, running, lock, resetAllowed, closing, siphon, bounds>>

\* The siphon of a consumer is deleted when its worker has ended.
ResetReturns(c) ==
  LET n == op[c].name IN
  /\ Stopped(c) /\ op[c].do = "reset"
  /\ worker' = Released(c)
  /\ IF op[c].kind = "consumer"
     THEN /\ siphon' = [siphon EXCEPT ![n] = None]
          /\ forgotten' = [forgotten EXCEPT ![n] = IF @ = c THEN "done" ELSE @]
     ELSE UNCHANGED <<siphon, forgotten>>
  /\ Returns(c)
  /\ UNCHANGED <<files, disk, accepted, running, lock, workers, manualStop, resetAllowed, closing, bounds>>

-----------------------------------------------------------------------------
(* Reload. *)

\* The files are read before the lock is taken.
LoadCandidate(c) ==
  /\ Calling(c)
  /\ IF files = Invalid THEN UNCHANGED op
     ELSE Becomes(c, [do |-> "reload", at |-> "loaded", candidate |-> files, taken |-> None])
  /\ UNCHANGED <<files, disk, registry, siphon, forgotten, edits, faults>>

\* A consumer that changes what it consumes has to be reset first.
Selects(d) == IF d.kind = "consumer" THEN d.selection ELSE None
NeedsReset(candidate) ==
  \E n \in Names \ resetAllowed :
    /\ candidate[n] # None /\ accepted[n] # None /\ accepted[n].kind = "consumer"
    /\ Selects(candidate[n]) # accepted[n].selection

ReloadRefused(c) ==
  /\ op[c] # Idle /\ op[c].at = "loaded" /\ Unlocked
  /\ ~Started \/ NeedsReset(op[c].candidate)
  /\ Returns(c)
  /\ UNCHANGED <<files, disk, registry, siphon, forgotten, bounds>>

\* The candidate is renamed into place first and taken over in memory then.
WriteSnapshot(c) ==
  /\ op[c] # Idle /\ op[c].at = "loaded" /\ Unlocked
  /\ Started /\ ~NeedsReset(op[c].candidate)
  /\ \/ disk' = op[c].candidate /\ lock' = c /\ UNCHANGED faults
        /\ Becomes(c, [op[c] EXCEPT !.at = "written"])
     \/ Fault /\ Returns(c) /\ UNCHANGED <<disk, lock>>
  /\ UNCHANGED <<files, accepted, running, workers, worker, manualStop, resetAllowed, closing, siphon,
                 forgotten, calls, edits>>

Accept(c) ==
  /\ op[c] # Idle /\ op[c].at = "written"
  /\ accepted' = op[c].candidate
  /\ manualStop' = {} /\ resetAllowed' = {}
  /\ Becomes(c, [op[c] EXCEPT !.at = "reconcile"])
  /\ UNCHANGED <<files, disk, running, lock, workers, worker, closing, siphon, forgotten, bounds>>

\* Mutant: a definition that was edited keeps its worker.
Obsolete_IfGone(n) == workers[n] # None /\ ~Enabled(accepted[n])

\* The worker is not that of the accepted definition.
Obsolete(n) ==
  /\ workers[n] # None
  /\ ~Enabled(accepted[n]) \/ accepted[n] # worker[workers[n]].def

\* One obsolete worker after the other is taken, cancelled and waited for.
Replace(c) ==
  /\ op[c] # Idle /\ op[c].at = "reconcile"
  /\ \E n \in Names :
       /\ Obsolete(n)
       /\ workers' = [workers EXCEPT ![n] = None]
       /\ worker' = Cancelled(workers[n])
       /\ Becomes(c, [op[c] EXCEPT !.at = "replace", !.taken = workers[n]])
  /\ UNCHANGED <<files, disk, accepted, running, lock, manualStop, resetAllowed, closing, siphon,
                 forgotten, bounds>>

Replaced(c) ==
  /\ op[c] # Idle /\ op[c].at = "replace" /\ ~Alive(op[c].taken)
  /\ worker' = [worker EXCEPT ![op[c].taken] = None]
  /\ Becomes(c, [op[c] EXCEPT !.at = "reconcile", !.taken = None])
  /\ UNCHANGED <<files, disk, accepted, running, lock, workers, manualStop, resetAllowed, closing,
                 siphon, forgotten, bounds>>

Missing(snapshot, map, stop) == {n \in Names : Enabled(snapshot[n]) /\ n \notin stop /\ map[n] = None}

\* Mutant: the lock is kept.
ReloadReturns_KeepsLock(c) ==
  /\ op[c] # Idle /\ op[c].at = "reconcile"
  /\ \A n \in Names : ~Obsolete(n)
  /\ StartWorkers(Missing(accepted, workers, manualStop), workers, worker, accepted,
                  running # "started")
  /\ Returns(c)
  /\ UNCHANGED <<files, disk, accepted, running, lock, manualStop, resetAllowed, closing, siphon, bounds>>

ReloadReturns(c) ==
  /\ op[c] # Idle /\ op[c].at = "reconcile"
  /\ \A n \in Names : ~Obsolete(n)
  /\ StartWorkers(Missing(accepted, workers, manualStop), workers, worker, accepted,
                  running # "started")
  /\ lock' = None
  /\ Returns(c)
  /\ UNCHANGED <<files, disk, accepted, running, manualStop, resetAllowed, closing, siphon, bounds>>

-----------------------------------------------------------------------------
(* The daemon. *)

BootWith(snapshot) ==
  /\ accepted' = snapshot
  /\ StartWorkers(Missing(snapshot, workers, {}), workers, worker, snapshot, FALSE)

\* Start: the snapshot on disk, or on the very first start the files, if they are
\* valid and can be written. The daemon runs on without definitions otherwise.
Boot ==
  /\ running = "off"
  /\ running' = "started"
  /\ \/ disk # None /\ disk' = disk /\ UNCHANGED faults
     \/ disk = None /\ files # Invalid /\ disk' = files /\ UNCHANGED faults
     \/ disk = None /\ disk' = None /\ (IF files = Invalid THEN UNCHANGED faults ELSE Fault)
  /\ BootWith(IF disk' = None THEN Nothing ELSE disk')
  /\ UNCHANGED <<files, lock, manualStop, resetAllowed, op, closing, siphon, calls, edits>>

\* The daemon is told to stop: the context of all workers is cancelled.
CancelAll ==
  /\ running = "started"
  /\ running' = "cancelled"
  /\ worker' = [i \in Slots |-> IF worker[i] = None THEN None ELSE [worker[i] EXCEPT !.cancelled = TRUE]]
  /\ UNCHANGED <<files, disk, accepted, lock, workers, manualStop, resetAllowed, op, closing, siphon,
                 forgotten, bounds>>

\* Mutant: Close forgets the workers without waiting for them.
CloseRegistry_NoWait ==
  /\ running = "cancelled" /\ Unlocked
  /\ running' = "closing"
  /\ closing' = {} /\ workers' = Nothing
  /\ UNCHANGED <<files, disk, accepted, lock, worker, manualStop, resetAllowed, op, siphon, forgotten, bounds>>

\* Close waits for the workers of the map.
CloseRegistry ==
  /\ running = "cancelled" /\ Unlocked
  /\ running' = "closing"
  /\ closing' = {workers[n] : n \in Names} \ {None}
  /\ workers' = Nothing
  /\ UNCHANGED <<files, disk, accepted, lock, worker, manualStop, resetAllowed, op, siphon, forgotten, bounds>>

CloseReturns ==
  /\ running = "closing" /\ \A i \in closing : ~Alive(i)
  /\ running' = "closed"
  /\ worker' = [i \in Slots |-> IF i \in closing THEN None ELSE worker[i]]
  /\ closing' = {}
  /\ UNCHANGED <<files, disk, accepted, lock, workers, manualStop, resetAllowed, op, siphon, forgotten, bounds>>

\* The daemon waits for its client handlers and closes the store.
CloseStore ==
  /\ running = "closed" /\ \A c \in Callers : op[c] = Idle
  /\ running' = "stopped"
  /\ UNCHANGED <<files, disk, accepted, lock, workers, worker, manualStop, resetAllowed, op, closing,
                 siphon, forgotten, bounds>>

\* The process dies. It boots again with what is on disk, as it does after an
\* orderly end, which is therefore the last step here.
Crash ==
  /\ running \notin {"off", "stopped"} /\ Fault
  /\ running' = "off" /\ lock' = None /\ accepted' = Nothing
  /\ workers' = Nothing /\ worker' = [i \in Slots |-> None] /\ closing' = {}
  /\ manualStop' = {} /\ resetAllowed' = {}
  /\ op' = [c \in Callers |-> Idle]
  /\ forgotten' = [n \in Names |-> IF forgotten[n] = "done" THEN "done" ELSE "no"]
  /\ UNCHANGED <<files, disk, siphon, calls, edits>>

CallStep(c) ==
  \/ Cancel(c) \/ StopReturns(c) \/ RestartContinues(c) \/ RestartReturns(c) \/ ResetReturns(c)
  \/ ReloadRefused(c) \/ WriteSnapshot(c) \/ Accept(c) \/ Replace(c) \/ Replaced(c) \/ ReloadReturns(c)

Next ==
  \/ Edit \/ Boot \/ CancelAll \/ CloseRegistry \/ CloseReturns \/ CloseStore \/ Crash
  \/ \E i \in Slots : WorkerStep(i)
  \/ \E c \in Callers :
       CallStart(c) \/ CallStop(c) \/ CallReset(c) \/ LoadCandidate(c) \/ CallStep(c)

\* What the scheduler and the grace of five seconds guarantee: handlers go on, Close
\* too, and a worker that is told to stop does. Nothing is assumed of commands, of
\* workers that are not told to stop, of edits and of calls.
Must ==
  \/ \E c \in Callers : CallStep(c)
  \/ \E i \in Slots : CreateSiphon(i) \/ Stops(i)
  \/ CloseRegistry \/ CloseReturns

Spec == Init /\ [][Next]_vars /\ WF_vars(Must)

-----------------------------------------------------------------------------
(* Properties. *)

\* What a caller is doing: stopping a worker or reloading, or nothing.
Stoppings ==
  [do : {"stop", "restart", "reset"}, name : Names, at : {"stop", "wait", "start"},
   taken : Slots \cup {None}, kind : {"source", "consumer"}]
Reloads ==
  [do : {"reload"}, at : {"loaded", "written", "reconcile", "replace"}, candidate : Snapshots,
   taken : Slots \cup {None}]
Operations == {Idle} \cup Stoppings \cup Reloads

TypeOK ==
  /\ files \in Snapshots \cup {Invalid}
  /\ disk \in Snapshots \cup {None}
  /\ accepted \in Snapshots \cup {Nothing}
  /\ running \in {"off", "started", "cancelled", "closing", "closed", "stopped"}
  /\ lock \in Callers \cup {None}
  /\ workers \in [Names -> Slots \cup {None}]
  /\ \A n \in Names : workers[n] # None => worker[workers[n]] # None /\ worker[workers[n]].name = n
  /\ worker \in [Slots -> Workers \cup {None}]
  /\ op \in [Callers -> Operations]
  /\ siphon \in [Names -> {d.selection : d \in Definitions} \cup {None}]
  /\ manualStop \subseteq Names /\ resetAllowed \subseteq Names
  /\ closing \subseteq Slots
  /\ \A c \in Callers : lock = c => op[c].do = "reload" /\ op[c].at \in {"written", "reconcile", "replace"}
  /\ forgotten \in [Names -> Callers \cup {"no", "done"}]

\* While nobody holds the lock, the accepted snapshot is the one on disk, hence
\* the one a crash would come back to, and the workers are exactly those of its
\* enabled definitions that no client has stopped (Reload, reconcileLocked,
\* StartDefinition, StopDefinition, Start).
OnlyAcceptedRuns ==
  Started /\ Unlocked =>
    /\ accepted \in {disk, Nothing}
    /\ \A n \in Names :
         IF workers[n] = None THEN ~Enabled(accepted[n]) \/ n \in manualStop
         ELSE Enabled(accepted[n]) /\ worker[workers[n]].def = accepted[n] /\ n \notin manualStop

InHand(i) == i \in closing \/ \E c \in Callers : op[c] # Idle /\ op[c].taken = i

\* No worker is forgotten while it lives: it is in the map, where the next
\* operation finds it, or a call or Close has it in hand and waits for its end.
\* Two workers of one name overlap only while one of them is in hand.
NoOrphan ==
  \A i \in Slots : Alive(i) => InHand(i) \/ \E n \in Names : workers[n] = i

\* A reset that nothing disturbed (no start since it began, and no earlier worker
\* of the name that somebody else was still stopping) leaves no siphon: the worker
\* it stopped cannot create it again (ResetDefinition, runConsumer).
ResetForgets == \A n \in Names : forgotten[n] = "done" => siphon[n] = None

\* No command of a worker is running when the daemon closes its store, although
\* Close waits only for the workers of the map: those in the hands of clients
\* are waited for with their handlers, and those started after Close run nothing.
NoCommandPastClose ==
  running = "stopped" => \A i \in Slots : worker[i] # None => worker[i].state # "running"

\* Every call returns, and Close does: again and again there is a moment when nobody
\* waits, although a reload holds the lock while it waits for the workers that it
\* replaces (Reload, reconcileLocked, Close, worker.stop).
CallsReturn ==
  []<>((\A c \in Callers : op[c] = Idle) /\ running \notin {"cancelled", "closing"})
=============================================================================
