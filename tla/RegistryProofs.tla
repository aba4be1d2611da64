---------------------------- MODULE RegistryProofs ----------------------------
(***************************************************************************)
(* Theorems about Registry, for any definitions, snapshots, clients and    *)
(* bounds: the workers are those of the accepted snapshot, none is         *)
(* forgotten, a reset leaves nothing behind, and nothing runs past Close.  *)
(***************************************************************************)
EXTENDS Registry, TLAPS

\* The worker that a caller has in hand, and whether it resets a name.
Hand(c)      == IF op[c] = Idle THEN None ELSE op[c].taken
Resets(c, n) == op[c] # Idle /\ op[c].do = "reset" /\ op[c].name = n

\* Whoever waits for a worker waits alone: it is out of the map, and neither another
\* caller nor Close has it.
Exclusive ==
  /\ \A c \in Callers : Hand(c) # None =>
       /\ worker[Hand(c)] # None /\ Hand(c) \notin closing
       /\ \A n \in Names : workers[n] # Hand(c)
       /\ \A d \in Callers : d # c => Hand(d) # Hand(c)
  /\ \A i \in closing : worker[i] # None /\ \A n \in Names : workers[n] # i

\* A caller that waits has a worker, and one that is to start or reload has none.
Positions ==
  \A c \in Callers : op[c] # Idle =>
    /\ op[c].at \in {"wait", "replace"} => op[c].taken # None
    /\ op[c].at \in {"start", "loaded", "written", "reconcile"} => op[c].taken = None

\* A reload that has written its candidate holds the lock until its workers run, and
\* nothing is closed meanwhile.
Reloading ==
  \A c \in Callers : op[c] # Idle /\ op[c].at \in {"written", "reconcile", "replace"} =>
    /\ lock = c /\ Started /\ disk = op[c].candidate
    /\ op[c].at # "written" => accepted = disk /\ manualStop = {}

\* Nothing is left of the process before.
Off ==
  running = "off" =>
    /\ lock = None /\ manualStop = {}
    /\ \A n \in Names : workers[n] = None
    /\ \A i \in Slots : worker[i] = None
    /\ closing = {} /\ \A c \in Callers : op[c] = Idle

\* Once the context of the runtime is cancelled every worker is, and what is in the map
\* after Close took it over was started too late to run anything.
Cancelling ==
  /\ running \notin {"off", "started"} =>
       \A i \in Slots : worker[i] # None => worker[i].cancelled
  /\ running \in {"closing", "closed"} =>
       \A n \in Names : workers[n] # None => worker[workers[n]].state # "running"
  /\ closing # {} => running = "closing"

\* As long as nothing disturbs a reset, the worker that it stops is the only one.
Resetting ==
  \A n \in Names, i \in Slots : Alive(i) /\ worker[i].name = n =>
    /\ forgotten[n] # "done"
    /\ \A c \in Callers : forgotten[n] = c /\ Resets(c, n) => Hand(c) = i

\* The inductive invariant.
IInv ==
  /\ TypeOK /\ Exclusive /\ Positions /\ Reloading /\ Off /\ Cancelling /\ Resetting
  /\ OnlyAcceptedRuns /\ NoOrphan /\ ResetForgets /\ NoCommandPastClose

-----------------------------------------------------------------------------
\* What is known of one operation: its kind by where it is.
LEMMA OpTyped ==
  ASSUME TypeOK, NEW c \in Callers, op[c] # Idle
  PROVE  /\ op[c].taken \in Slots \cup {None}
         /\ op[c].at \in {"stop", "wait", "start"} => op[c] \in Stoppings
         /\ op[c].at \in {"loaded", "written", "reconcile", "replace"} => op[c] \in Reloads
         /\ op[c].do # "reload" => op[c] \in Stoppings
         /\ op[c].do = "reload" => op[c] \in Reloads
  BY DEF TypeOK, Operations, Stoppings, Reloads

\* Idle is no operation on a worker.
LEMMA IdleDiffers == Idle \notin Stoppings \cup Reloads
  BY DEF Idle, Stoppings, Reloads

\* Snapshots hold definitions.
LEMMA SnapshotTyped ==
  ASSUME NEW s \in Snapshots \cup {Nothing}, NEW n \in Names
  PROVE  s[n] \in Definitions \cup {None}
  BY DEF Definitions, Nothing

\* A caller goes on to e.
Moves(c, e) == e \in Operations /\ op' = [op EXCEPT ![c] = e]

\* The others go on with what they do.
LEMMA MovesTyped ==
  ASSUME TypeOK, NEW c \in Callers, NEW e, Moves(c, e)
  PROVE  /\ op' \in [Callers -> Operations] /\ op'[c] = e
         /\ \A d \in Callers \ {c} : op'[d] = op[d]
  BY DEF Moves, TypeOK

\* An idle caller stays out of everybody's way.
LEMMA ReturnsMoves ==
  ASSUME NEW c \in Callers, Returns(c)
  PROVE  Moves(c, Idle)
  BY DEF Returns, Becomes, Moves, Operations

\* StopDefinition and its like take the worker of n out of the map.
LEMMA TakeWorkerMoves ==
  ASSUME TypeOK, NEW c \in Callers, NEW n \in Names, NEW what \in {"stop", "restart", "reset"},
         TakeWorker(c, n, what)
  PROVE  /\ \E e \in Stoppings : /\ Moves(c, e) /\ e.do = what /\ e.name = n /\ e.at = "stop"
                                /\ e.taken = workers[n]
         /\ workers' \in [Names -> Slots \cup {None}] /\ workers'[n] = None
         /\ \A m \in Names \ {n} : workers'[m] = workers[m]
  <1> DEFINE e == [do |-> what, name |-> n, at |-> "stop", taken |-> workers[n],
                   kind |-> accepted[n].kind]
  <1>1. accepted[n] \in Definitions
    BY SnapshotTyped DEF TakeWorker, TypeOK
  <1>2. accepted[n].kind \in {"source", "consumer"}
    BY <1>1, DefinitionsAssumption
  <1>3. e \in Stoppings
    BY <1>2 DEF Stoppings, TypeOK
  <1>4. Moves(c, e)
    BY <1>3 DEF TakeWorker, Becomes, Moves, Operations
  <1>5. QED
    BY <1>3, <1>4 DEF TakeWorker, TypeOK

\* Cancel, and the wait that follows.
LEMMA CancelMoves ==
  ASSUME TypeOK, NEW c \in Callers, Cancel(c)
  PROVE  /\ op[c] \in Stoppings /\ op[c].taken \in Slots /\ worker' = Cancelled(op[c].taken)
         /\ \E e \in Stoppings : /\ Moves(c, e) /\ e.do = op[c].do /\ e.name = op[c].name
                                /\ e.at = "wait" /\ e.taken = op[c].taken
  <1> DEFINE e == [op[c] EXCEPT !.at = "wait"]
  <1>1. op[c] \in Stoppings /\ op[c].taken \in Slots
    BY OpTyped DEF Cancel
  <1>2. e \in Stoppings /\ e.do = op[c].do /\ e.name = op[c].name /\ e.at = "wait" /\ e.taken = op[c].taken
    BY <1>1 DEF Stoppings
  <1>3. Moves(c, e)
    BY <1>2 DEF Cancel, Becomes, Moves, Operations
  <1>4. QED
    BY <1>1, <1>2, <1>3 DEF Cancel

\* What stops is one's own, and over.
LEMMA StoppedTyped ==
  ASSUME TypeOK, NEW c \in Callers, Stopped(c)
  PROVE  /\ op[c] # Idle /\ op[c] \in Stoppings /\ op[c].taken \in Slots \cup {None}
         /\ op[c].taken = None \/ ~Alive(op[c].taken)
  BY OpTyped DEF Stopped

\* Between the halves of a restart the caller has nothing in hand.
LEMMA RestartContinuesMoves ==
  ASSUME TypeOK, NEW c \in Callers, RestartContinues(c)
  PROVE  \E e \in Stoppings : /\ Moves(c, e) /\ e.do = "restart" /\ e.name = op[c].name
                             /\ e.at = "start" /\ e.taken = None
  <1> DEFINE e == [op[c] EXCEPT !.at = "start", !.taken = None]
  <1>1. op[c] \in Stoppings /\ op[c].do = "restart"
    BY StoppedTyped DEF RestartContinues
  <1>2. e \in Stoppings /\ e.do = "restart" /\ e.name = op[c].name /\ e.at = "start" /\ e.taken = None
    BY <1>1 DEF Stoppings
  <1>3. Moves(c, e)
    BY <1>2 DEF RestartContinues, Becomes, Moves, Operations
  <1>4. QED
    BY <1>2, <1>3

\* A reload takes what the files hold.
LEMMA LoadCandidateMoves ==
  ASSUME TypeOK, NEW c \in Callers, LoadCandidate(c)
  PROVE  /\ op[c] = Idle
         /\ op' = op \/ \E e \in Reloads : Moves(c, e) /\ e.at = "loaded" /\ e.taken = None
  <1> DEFINE e == [do |-> "reload", at |-> "loaded", candidate |-> files, taken |-> None]
  <1>1. CASE files = Invalid
    BY <1>1 DEF LoadCandidate, Calling
  <1>2. CASE files # Invalid
    <2>1. e \in Reloads /\ e.at = "loaded" /\ e.taken = None
      BY <1>2 DEF Reloads, TypeOK
    <2>2. Moves(c, e)
      BY <1>2, <2>1 DEF LoadCandidate, Becomes, Moves, Operations
    <2>3. QED
      BY <2>1, <2>2 DEF LoadCandidate, Calling
  <1>3. QED
    BY <1>1, <1>2

\* Each place of a reload.
LEMMA ReloadSteps ==
  ASSUME TypeOK, Positions, NEW c \in Callers
  PROVE  /\ WriteSnapshot(c) => op[c] # Idle /\ op[c] \in Reloads /\ op[c].at = "loaded" /\ op[c].taken = None
         /\ Accept(c) => op[c] # Idle /\ op[c] \in Reloads /\ op[c].at = "written" /\ op[c].taken = None
         /\ Replace(c) => op[c] # Idle /\ op[c] \in Reloads /\ op[c].at = "reconcile" /\ op[c].taken = None
         /\ Replaced(c) => op[c] # Idle /\ op[c] \in Reloads /\ op[c].at = "replace" /\ op[c].taken \in Slots
         /\ ReloadReturns(c) => op[c] # Idle /\ op[c] \in Reloads /\ op[c].at = "reconcile" /\ op[c].taken = None
  BY OpTyped DEF WriteSnapshot, Accept, Replace, Replaced, ReloadReturns, Positions

\* The candidate is written, or cannot be.
LEMMA WriteSnapshotMoves ==
  ASSUME TypeOK, Positions, NEW c \in Callers, WriteSnapshot(c)
  PROVE  \/ disk' = op[c].candidate /\ lock' = c
            /\ \E e \in Reloads : Moves(c, e) /\ e.at = "written" /\ e.taken = None
                                 /\ e.candidate = op[c].candidate
         \/ UNCHANGED <<disk, lock>> /\ Moves(c, Idle)
  <1> DEFINE e == [op[c] EXCEPT !.at = "written"]
  <1>1. op[c] \in Reloads /\ op[c].taken = None
    BY ReloadSteps
  <1>2. e \in Reloads /\ e.at = "written" /\ e.taken = None /\ e.candidate = op[c].candidate
    BY <1>1 DEF Reloads
  <1>3. CASE disk' = op[c].candidate /\ lock' = c /\ Becomes(c, e)
    BY <1>2, <1>3 DEF Becomes, Moves, Operations
  <1>4. CASE Returns(c) /\ UNCHANGED <<disk, lock>>
    BY <1>4, ReturnsMoves
  <1>5. QED
    BY <1>3, <1>4 DEF WriteSnapshot

\* The candidate is taken over.
LEMMA AcceptMoves ==
  ASSUME TypeOK, Positions, NEW c \in Callers, Accept(c)
  PROVE  \E e \in Reloads : Moves(c, e) /\ e.at = "reconcile" /\ e.taken = None
                           /\ e.candidate = op[c].candidate
  <1> DEFINE e == [op[c] EXCEPT !.at = "reconcile"]
  <1>1. op[c] \in Reloads /\ op[c].taken = None
    BY ReloadSteps
  <1>2. e \in Reloads /\ e.at = "reconcile" /\ e.taken = None /\ e.candidate = op[c].candidate
    BY <1>1 DEF Reloads
  <1>3. QED
    BY <1>2 DEF Accept, Becomes, Moves, Operations

\* An obsolete worker is taken.
LEMMA ReplaceMoves ==
  ASSUME TypeOK, Positions, NEW c \in Callers, Replace(c)
  PROVE  \E n \in Names :
           /\ workers[n] \in Slots /\ workers' = [workers EXCEPT ![n] = None]
           /\ worker' = Cancelled(workers[n])
           /\ \E e \in Reloads : Moves(c, e) /\ e.at = "replace" /\ e.taken = workers[n]
                                 /\ e.candidate = op[c].candidate
  <1>1. op[c] \in Reloads
    BY ReloadSteps
  <1>2. PICK n \in Names : /\ Obsolete(n) /\ workers' = [workers EXCEPT ![n] = None]
                           /\ worker' = Cancelled(workers[n])
                           /\ Becomes(c, [op[c] EXCEPT !.at = "replace", !.taken = workers[n]])
    BY DEF Replace
  <1> DEFINE e == [op[c] EXCEPT !.at = "replace", !.taken = workers[n]]
  <1>3. workers[n] \in Slots
    BY <1>2 DEF Obsolete, TypeOK
  <1>4. e \in Reloads /\ e.at = "replace" /\ e.taken = workers[n] /\ e.candidate = op[c].candidate
    BY <1>1, <1>3 DEF Reloads
  <1>5. Moves(c, e)
    BY <1>2, <1>4 DEF Becomes, Moves, Operations
  <1>6. QED
    BY <1>2, <1>3, <1>4, <1>5

\* It is over, and the next one may come.
LEMMA ReplacedMoves ==
  ASSUME TypeOK, Positions, NEW c \in Callers, Replaced(c)
  PROVE  \E e \in Reloads : Moves(c, e) /\ e.at = "reconcile" /\ e.taken = None
                           /\ e.candidate = op[c].candidate
  <1> DEFINE e == [op[c] EXCEPT !.at = "reconcile", !.taken = None]
  <1>1. op[c] \in Reloads
    BY ReloadSteps
  <1>2. e \in Reloads /\ e.at = "reconcile" /\ e.taken = None /\ e.candidate = op[c].candidate
    BY <1>1 DEF Reloads
  <1>3. QED
    BY <1>2 DEF Replaced, Becomes, Moves, Operations

-----------------------------------------------------------------------------
\* A worker that gets new fields stays a worker; the others stay what they are.
LEMMA CancelledTyped ==
  ASSUME TypeOK, NEW i \in Slots, worker[i] # None, worker' = Cancelled(i)
  PROVE  /\ worker' \in [Slots -> Workers \cup {None}] /\ worker'[i] # None
         /\ worker'[i].name = worker[i].name /\ worker'[i].def = worker[i].def
         /\ worker'[i].state = worker[i].state /\ worker'[i].cancelled
         /\ \A j \in Slots \ {i} : worker'[j] = worker[j]
  <1>1. worker[i] \in Workers /\ worker' = [worker EXCEPT ![i] = [worker[i] EXCEPT !.cancelled = TRUE]]
    BY DEF TypeOK, Cancelled
  <1> DEFINE w == [worker[i] EXCEPT !.cancelled = TRUE]
  <1>2. /\ w \in Workers /\ w.name = worker[i].name /\ w.def = worker[i].def
        /\ w.state = worker[i].state /\ w.cancelled
    BY <1>1 DEF Workers
  <1>3. w # None
    BY <1>2, DefinitionsAssumption
  <1>4. worker'[i] = w /\ \A j \in Slots \ {i} : worker'[j] = worker[j]
    BY <1>1 DEF TypeOK
  <1> HIDE DEF w
  <1>5. QED
    BY <1>1, <1>2, <1>3, <1>4 DEF TypeOK, w

\* What a step of a worker does: it was alive and goes on to another state, in which it
\* runs a command only if it is not cancelled.
WorkerMoves(i) ==
  /\ worker' \in [Slots -> Workers \cup {None}]
  /\ Alive(i) /\ worker'[i] # None
  /\ worker'[i].name = worker[i].name /\ worker'[i].def = worker[i].def
  /\ worker'[i].cancelled = worker[i].cancelled
  /\ worker'[i].state # "new"
  /\ worker'[i].state = "running" => ~worker[i].cancelled
  /\ \A j \in Slots \ {i} : worker'[j] = worker[j]

\* Any other state is a state.
LEMMA GoesMoves ==
  ASSUME TypeOK, NEW i \in Slots, worker[i] # None, worker[i].state # "ended",
         NEW state \in {"polling", "running", "waiting", "ended"},
         state = "running" => ~worker[i].cancelled, Goes(i, state)
  PROVE  WorkerMoves(i)
  <1> DEFINE w == [worker[i] EXCEPT !.state = state]
  <1>1. worker[i] \in Workers /\ worker' = [worker EXCEPT ![i] = w]
    BY DEF TypeOK, Goes
  <1>2. /\ w \in Workers /\ w.name = worker[i].name /\ w.def = worker[i].def
        /\ w.state = state /\ w.cancelled = worker[i].cancelled
    BY <1>1 DEF Workers
  <1>3. w # None
    BY <1>2, DefinitionsAssumption
  <1>4. worker'[i] = w /\ \A j \in Slots \ {i} : worker'[j] = worker[j]
    BY <1>1 DEF TypeOK
  <1>5. worker' \in [Slots -> Workers \cup {None}]
    BY <1>1, <1>2 DEF TypeOK
  <1> HIDE DEF w
  <1>6. QED
    BY <1>2, <1>3, <1>4, <1>5 DEF WorkerMoves, Alive

\* The siphon is the worker's own, made while it was new.
LEMMA WorkerStepMoves ==
  ASSUME TypeOK, NEW i \in Slots, WorkerStep(i)
  PROVE  /\ WorkerMoves(i) /\ WorkerFrame /\ UNCHANGED faults
         /\ siphon' \in [Names -> {d.selection : d \in Definitions} \cup {None}]
         /\ siphon' = siphon \/ \A n \in Names \ {worker[i].name} : siphon'[n] = siphon[n]
  <1>1. CASE CreateSiphon(i)
    <2>1. worker[i] \in Workers /\ worker[i].state = "new"
      BY <1>1 DEF CreateSiphon, TypeOK
    <2>2. \/ siphon' = [siphon EXCEPT ![worker[i].name] = worker[i].def.selection] /\ Goes(i, "polling")
          \/ Goes(i, "ended") /\ UNCHANGED siphon
      BY <1>1 DEF CreateSiphon
    <2>3. WorkerMoves(i)
      BY <1>1, <2>1, <2>2, GoesMoves DEF CreateSiphon
    <2>4. worker[i].name \in Names /\ worker[i].def \in Definitions
      BY <2>1 DEF Workers
    <2>5. QED
      BY <1>1, <2>2, <2>3, <2>4 DEF CreateSiphon, TypeOK
  <1>2. CASE RunCommand(i)
    BY <1>2, GoesMoves DEF RunCommand, TypeOK
  <1>3. CASE PollFails(i)
    BY <1>3, GoesMoves DEF PollFails, TypeOK
  <1>4. CASE CommandSucceeds(i)
    <2> DEFINE state == IF worker[i].def.kind = "consumer" THEN "polling"
                        ELSE IF worker[i].def.once THEN "ended" ELSE "waiting"
    <2>1. state \in {"polling", "running", "waiting", "ended"} /\ state # "running" /\ Goes(i, state)
      BY <1>4 DEF CommandSucceeds
    <2> HIDE DEF state
    <2>2. QED
      BY <1>4, <2>1, GoesMoves DEF CommandSucceeds, TypeOK
  <1>5. CASE CommandFails(i)
    <2> DEFINE state == IF ~worker[i].def.retries THEN "ended"
                        ELSE IF worker[i].def.kind = "consumer" THEN "polling" ELSE "waiting"
    <2>1. state \in {"polling", "running", "waiting", "ended"} /\ state # "running" /\ Goes(i, state)
      BY <1>5 DEF CommandFails
    <2> HIDE DEF state
    <2>2. QED
      BY <1>5, <2>1, GoesMoves DEF CommandFails, TypeOK
  <1>6. CASE Stops(i)
    BY <1>6, GoesMoves DEF Stops, TypeOK
  <1>7. QED
    BY <1>1, <1>2, <1>3, <1>4, <1>5, <1>6 DEF WorkerStep

\* Names get workers of their own, in slots that were free; nothing else changes, and
\* nobody takes the siphon of such a name for forgotten.
Starts(names, snapshot, cancelled) ==
  /\ workers' \in [Names -> Slots \cup {None}] /\ worker' \in [Slots -> Workers \cup {None}]
  /\ forgotten' \in [Names -> Callers \cup {"no", "done"}]
  /\ \A n \in names : /\ workers'[n] \in Slots /\ worker[workers'[n]] = None
                       /\ worker'[workers'[n]] = New(n, snapshot[n], cancelled)
                       /\ forgotten'[n] = "no"
  /\ \A n \in Names \ names : workers'[n] = workers[n] /\ forgotten'[n] = forgotten[n]
  /\ \A i \in Slots : \/ worker'[i] = worker[i]
                      \/ worker[i] = None /\ \E n \in names : workers'[n] = i

\* A new worker is one.
LEMMA NewTyped ==
  ASSUME NEW n \in Names, NEW d \in Definitions, NEW cancelled \in BOOLEAN
  PROVE  /\ New(n, d, cancelled) \in Workers /\ New(n, d, cancelled) # None
         /\ New(n, d, cancelled).name = n /\ New(n, d, cancelled).def = d
         /\ New(n, d, cancelled).cancelled = cancelled
         /\ New(n, d, cancelled).state \in {"new", "waiting"}
  BY DefinitionsAssumption DEF New, Workers

\* startWorkerLocked, for a set of names that have no worker.
LEMMA StartWorkersStarts ==
  ASSUME TypeOK, NEW names \in SUBSET Names, NEW snapshot, NEW cancelled \in BOOLEAN,
         \A n \in names : snapshot[n] \in Definitions,
         StartWorkers(names, workers, worker, snapshot, cancelled)
  PROVE  Starts(names, snapshot, cancelled)
  <1> DEFINE free == {f \in [names -> {i \in Slots : worker[i] = None}] :
                        \A m, n \in names : m # n => f[m] # f[n]}
             slotOf == CHOOSE f \in free : TRUE
  <1>1. free # {} /\ workers' = [n \in Names |-> IF n \in names THEN slotOf[n] ELSE workers[n]]
    BY DEF StartWorkers
  <1>2. worker' = [i \in Slots |->
                     IF \E n \in names : slotOf[n] = i
                     THEN LET n == CHOOSE m \in names : slotOf[m] = i
                          IN  New(n, snapshot[n], cancelled)
                     ELSE worker[i]]
    BY DEF StartWorkers
  <1>3. forgotten' = [n \in Names |-> IF n \in names THEN "no" ELSE forgotten[n]]
    BY DEF StartWorkers
  <1>4. slotOf \in free
    BY <1>1
  <1>5. /\ \A n \in names : slotOf[n] \in Slots /\ worker[slotOf[n]] = None
        /\ \A m, n \in names : m # n => slotOf[m] # slotOf[n]
    BY <1>4
  <1> HIDE DEF slotOf, free
  <1>6. ASSUME NEW n \in names PROVE worker'[slotOf[n]] = New(n, snapshot[n], cancelled)
    <2>1. (CHOOSE m \in names : slotOf[m] = slotOf[n]) = n
      BY <1>5
    <2>2. QED
      BY <1>2, <1>5, <2>1
  <1>7. ASSUME NEW i \in Slots, ~\E n \in names : slotOf[n] = i PROVE worker'[i] = worker[i]
    BY <1>2, <1>7
  <1>8. \A n \in names : New(n, snapshot[n], cancelled) \in Workers
    BY NewTyped
  <1>9. workers' \in [Names -> Slots \cup {None}]
    BY <1>1, <1>5 DEF TypeOK
  <1>10. worker' \in [Slots -> Workers \cup {None}]
    <2>1. \A i \in Slots : worker'[i] \in Workers \cup {None}
      BY <1>6, <1>7, <1>8 DEF TypeOK
    <2>2. QED
      BY <1>2, <2>1
  <1>11. forgotten' \in [Names -> Callers \cup {"no", "done"}]
    BY <1>3 DEF TypeOK
  <1>12. \A n \in names : workers'[n] = slotOf[n]
    BY <1>1
  <1>13. QED
    BY <1>1, <1>3, <1>5, <1>6, <1>7, <1>9, <1>10, <1>11, <1>12 DEF Starts

\* StartDefinition starts the worker of an enabled name that has none.
LEMMA StartDefinitionStarts ==
  ASSUME TypeOK, NEW n \in Names, StartDefinition(n)
  PROVE  \E names \in SUBSET {n} :
           /\ Starts(names, accepted, running # "started") /\ Unlocked
           /\ \A m \in names : workers[m] = None /\ Enabled(accepted[m]) /\ accepted[m] \in Definitions
           /\ manualStop' = manualStop \/ manualStop' = manualStop \ {n}
           /\ n \in manualStop \ manualStop' => workers'[n] # None
           /\ names # {} => manualStop' = manualStop \ {n}
  <1>1. CASE /\ UNCHANGED <<workers, worker, forgotten>>
             /\ \/ manualStop' = manualStop
                \/ manualStop' = manualStop \ {n} /\ workers[n] # None
    <2>1. Starts({}, accepted, running # "started")
      BY <1>1 DEF Starts, TypeOK
    <2>2. n \in manualStop \ manualStop' => workers'[n] # None
      BY <1>1
    <2>3. Unlocked
      BY DEF StartDefinition
    <2>4. QED
      BY <1>1, <2>1, <2>2, <2>3
  <1>2. CASE /\ workers[n] = None /\ Enabled(accepted[n]) /\ manualStop' = manualStop \ {n}
             /\ StartWorkers({n}, workers, worker, accepted, running # "started")
    <2>1. accepted[n] \in Definitions
      BY <1>2, SnapshotTyped DEF Enabled, TypeOK
    <2>2. Starts({n}, accepted, running # "started")
      BY <1>2, <2>1, StartWorkersStarts
    <2>3. workers'[n] # None
      BY <2>2, DefinitionsAssumption DEF Starts
    <2>4. QED
      BY <1>2, <2>1, <2>2, <2>3 DEF StartDefinition
  <1>3. QED
    BY <1>1, <1>2 DEF StartDefinition

\* The end of a reload.
LEMMA ReloadReturnsStarts ==
  ASSUME TypeOK, NEW c \in Callers, ReloadReturns(c)
  PROVE  /\ Starts(Missing(accepted, workers, manualStop), accepted, running # "started")
         /\ \A n \in Missing(accepted, workers, manualStop) : accepted[n] \in Definitions
  <1>1. \A n \in Missing(accepted, workers, manualStop) : accepted[n] \in Definitions
    BY SnapshotTyped DEF Missing, Enabled, TypeOK
  <1>2. QED
    BY <1>1, StartWorkersStarts DEF ReloadReturns, Missing

\* A boot starts all enabled definitions.
LEMMA BootStarts ==
  ASSUME TypeOK, Boot
  PROVE  /\ accepted' \in Snapshots \cup {Nothing} /\ disk' \in Snapshots \cup {None}
         /\ accepted' \in {disk', Nothing}
         /\ Starts(Missing(accepted', workers, {}), accepted', FALSE)
         /\ \A n \in Missing(accepted', workers, {}) : accepted'[n] \in Definitions
  <1> DEFINE s == IF disk' = None THEN Nothing ELSE disk'
  <1>1. disk' \in Snapshots \cup {None}
    BY DEF Boot, TypeOK
  <1>2. s \in Snapshots \cup {Nothing}
    BY <1>1
  <1>3. accepted' = s /\ StartWorkers(Missing(s, workers, {}), workers, worker, s, FALSE)
    BY DEF Boot, BootWith
  <1> HIDE DEF s
  <1>4. \A n \in Missing(s, workers, {}) : s[n] \in Definitions
    BY <1>2, SnapshotTyped DEF Missing, Enabled
  <1>5. Starts(Missing(s, workers, {}), s, FALSE)
    BY <1>3, <1>4, StartWorkersStarts DEF Missing
  <1>6. s \in {disk', Nothing}
    BY DEF s
  <1>7. QED
    BY <1>1, <1>2, <1>3, <1>4, <1>5, <1>6

\* What a call lets go of is over.
LEMMA ReleasedTyped ==
  ASSUME TypeOK, NEW c \in Callers, op[c] # Idle, op[c].taken \in Slots \cup {None}, worker' = Released(c)
  PROVE  /\ worker' \in [Slots -> Workers \cup {None}]
         /\ \A i \in Slots : \/ worker'[i] = worker[i]
                             \/ i = op[c].taken /\ ~Alive(i) /\ worker'[i] = None
  BY DEF Released, TypeOK

-----------------------------------------------------------------------------
\* Nothing runs at first.
LEMMA InitInvariant == Init => IInv
  <1> SUFFICES ASSUME Init PROVE IInv
    OBVIOUS
  <1>1. \A c \in Callers : op[c] = Idle
    BY DEF Init
  <1>2. TypeOK
    BY DefinitionsAssumption DEF Init, TypeOK, Nothing, Operations
  <1>3. \A i \in Slots : ~Alive(i)
    BY DEF Init, Alive
  <1>4. Exclusive /\ Positions /\ Reloading /\ Off /\ Cancelling /\ Resetting
    BY <1>1, <1>3 DEF Init, Exclusive, Hand, Positions, Reloading, Off, Cancelling, Resetting, Nothing
  <1>5. OnlyAcceptedRuns /\ NoOrphan /\ ResetForgets /\ NoCommandPastClose
    BY <1>3 DEF Init, OnlyAcceptedRuns, Started, NoOrphan, ResetForgets, NoCommandPastClose
  <1>6. QED
    BY <1>2, <1>4, <1>5 DEF IInv

\* The counters of the bounds aside, every step is one of these.
LEMMA Steps ==
  ASSUME [Next]_vars
  PROVE  \/ UNCHANGED vars \/ Edit \/ Boot \/ CancelAll \/ CloseRegistry \/ CloseReturns \/ CloseStore \/ Crash
         \/ \E i \in Slots : WorkerStep(i)
         \/ \E c \in Callers :
              \/ CallStart(c) \/ CallStop(c) \/ CallReset(c) \/ LoadCandidate(c)
              \/ Cancel(c) \/ StopReturns(c) \/ RestartContinues(c) \/ RestartReturns(c) \/ ResetReturns(c)
              \/ ReloadRefused(c) \/ WriteSnapshot(c) \/ Accept(c) \/ Replace(c) \/ Replaced(c)
              \/ ReloadReturns(c)
  BY DEF Next, CallStep

-----------------------------------------------------------------------------
\* Where e is goes with what it has in hand.
Placed(e) ==
  /\ e.at \in {"wait", "replace"} => e.taken # None
  /\ e.at \in {"start", "loaded", "written", "reconcile"} => e.taken = None

\* A caller goes on to e, and everybody else keeps what they have.
LEMMA MoveKeeps ==
  ASSUME TypeOK, Positions, NEW c \in Callers, NEW e, Moves(c, e), e = Idle \/ Placed(e)
  PROVE  /\ op' \in [Callers -> Operations] /\ Positions'
         /\ Hand(c)' = (IF e = Idle THEN None ELSE e.taken)
         /\ \A n \in Names : Resets(c, n)' <=> e # Idle /\ e.do = "reset" /\ e.name = n
         /\ \A d \in Callers \ {c} : /\ Hand(d)' = Hand(d)
                                     /\ \A n \in Names : Resets(d, n)' <=> Resets(d, n)
  <1>1. op' \in [Callers -> Operations] /\ op'[c] = e /\ \A d \in Callers \ {c} : op'[d] = op[d]
    BY MovesTyped
  <1>2. Positions'
    BY <1>1 DEF Positions, Placed
  <1>3. QED
    BY <1>1, <1>2 DEF Hand, Resets

\* Nothing is said of a caller that has nothing and gets nothing.
SameHands ==
  \A c \in Callers : Hand(c)' = Hand(c) /\ \A n \in Names : Resets(c, n)' => Resets(c, n)
SameOthers(c) ==
  \A d \in Callers \ {c} : Hand(d)' = Hand(d) /\ \A n \in Names : Resets(d, n)' => Resets(d, n)

\* The kinds of steps that touch the map, the workers or what callers have in hand.
Quietly == SameHands /\ UNCHANGED <<running, workers, worker, closing, siphon, forgotten>>

Beginning(names) ==
  /\ SameHands /\ UNCHANGED <<closing, siphon>>
  /\ running' = running \/ (running = "off" /\ running' = "started")
  /\ workers' \in [Names -> Slots \cup {None}] /\ worker' \in [Slots -> Workers \cup {None}]
  /\ forgotten' \in [Names -> Callers \cup {"no", "done"}]
  /\ \A n \in names :
       /\ workers[n] = None /\ workers'[n] \in Slots /\ worker[workers'[n]] = None
       /\ worker'[workers'[n]] # None
       /\ worker'[workers'[n]].name = n /\ worker'[workers'[n]].def = accepted'[n]
       /\ worker'[workers'[n]].cancelled = (running' # "started")
       /\ worker'[workers'[n]].state # "running"
       /\ forgotten'[n] = "no"
  /\ \A n \in Names \ names : workers'[n] = workers[n] /\ forgotten'[n] = forgotten[n]
  /\ \A i \in Slots : \/ worker'[i] = worker[i]
                      \/ worker[i] = None /\ \E n \in names : workers'[n] = i

Taking(c, n) ==
  /\ SameOthers(c) /\ Hand(c) = None /\ Hand(c)' = workers[n]
  /\ workers' = [workers EXCEPT ![n] = None]
  /\ worker' = worker \/ (workers[n] # None /\ worker' = Cancelled(workers[n]))
  /\ \/ forgotten' = forgotten /\ \A m \in Names : ~Resets(c, m)'
     \/ /\ forgotten' = [forgotten EXCEPT ![n] = IF Lingers(n) THEN "no" ELSE c]
        /\ worker' = worker /\ \A m \in Names : Resets(c, m)' => m = n
  /\ UNCHANGED <<running, closing, siphon>>

Telling(c) ==
  /\ SameHands /\ Hand(c) # None /\ worker' = Cancelled(Hand(c))
  /\ UNCHANGED <<running, workers, closing, siphon, forgotten>>

LettingGo(c) ==
  /\ SameOthers(c) /\ Hand(c)' = None /\ \A m \in Names : ~Resets(c, m)'
  /\ Hand(c) # None => ~Alive(Hand(c))
  /\ worker' \in [Slots -> Workers \cup {None}]
  /\ \A i \in Slots : \/ worker'[i] = worker[i]
                      \/ i = Hand(c) /\ worker'[i] = None
  /\ \/ UNCHANGED <<siphon, forgotten>>
     \/ \E n \in Names : /\ Resets(c, n) /\ siphon' = [siphon EXCEPT ![n] = None]
                         /\ forgotten' = [forgotten EXCEPT ![n] = IF @ = c THEN "done" ELSE @]
  /\ UNCHANGED <<running, workers, closing>>

Working(i) ==
  /\ SameHands /\ WorkerMoves(i)
  /\ siphon' = siphon \/ \A n \in Names \ {worker[i].name} : siphon'[n] = siphon[n]
  /\ UNCHANGED <<running, workers, closing, forgotten>>

\* What starts is what startWorkerLocked makes of the accepted snapshot.
LEMMA StartsBegins ==
  ASSUME NEW names \in SUBSET Names, \A n \in names : workers[n] = None /\ accepted'[n] \in Definitions,
         Starts(names, accepted', running' # "started"), SameHands, UNCHANGED <<closing, siphon>>,
         running' = running \/ (running = "off" /\ running' = "started")
  PROVE  Beginning(names)
  <1>1. ASSUME NEW n \in names
        PROVE  /\ workers[n] = None /\ workers'[n] \in Slots /\ worker[workers'[n]] = None
               /\ worker'[workers'[n]] # None
               /\ worker'[workers'[n]].name = n /\ worker'[workers'[n]].def = accepted'[n]
               /\ worker'[workers'[n]].cancelled = (running' # "started")
               /\ worker'[workers'[n]].state # "running"
               /\ forgotten'[n] = "no"
    <2> DEFINE late == running' # "started"
    <2>1. late \in BOOLEAN /\ accepted'[n] \in Definitions
      OBVIOUS
    <2>2. /\ workers'[n] \in Slots /\ worker[workers'[n]] = None /\ forgotten'[n] = "no"
          /\ worker'[workers'[n]] = New(n, accepted'[n], late)
      BY DEF Starts
    <2> HIDE DEF late
    <2>3. /\ New(n, accepted'[n], late) # None /\ New(n, accepted'[n], late).name = n
          /\ New(n, accepted'[n], late).def = accepted'[n]
          /\ New(n, accepted'[n], late).cancelled = late
          /\ New(n, accepted'[n], late).state # "running"
      BY <2>1, NewTyped
    <2>4. QED
      BY <2>2, <2>3 DEF late
  <1>2. QED
    BY <1>1 DEF Starts, Beginning

\* Calls that may start a worker.
LEMMA StartKinds ==
  ASSUME TypeOK, Positions, NEW c \in Callers, CallStart(c) \/ RestartReturns(c) \/ ReloadReturns(c)
  PROVE  /\ op' \in [Callers -> Operations] /\ Positions'
         /\ \E names \in SUBSET Names : Beginning(names)
  <1>1. op' \in [Callers -> Operations] /\ Positions' /\ SameHands
    <2>1. CASE op' = op
      BY <2>1 DEF TypeOK, Positions, SameHands, Hand, Resets
    <2>2. CASE Returns(c) /\ Hand(c) = None
      BY <2>2, ReturnsMoves, MoveKeeps DEF SameHands
    <2>3. RestartReturns(c) \/ ReloadReturns(c) => Returns(c) /\ Hand(c) = None
      BY DEF RestartReturns, ReloadReturns, Hand, Positions
    <2>4. CallStart(c) => op' = op
      BY DEF CallStart
    <2>5. QED
      BY <2>1, <2>2, <2>3, <2>4
  <1>2. ASSUME NEW n \in Names, StartDefinition(n), UNCHANGED <<accepted, running, closing, siphon>>
        PROVE  \E names \in SUBSET Names : Beginning(names)
    <2>1. PICK names \in SUBSET {n} :
            /\ Starts(names, accepted, running # "started")
            /\ \A m \in names : workers[m] = None /\ accepted[m] \in Definitions
      BY <1>2, StartDefinitionStarts
    <2>2. Beginning(names)
      BY <1>1, <1>2, <2>1, StartsBegins
    <2>3. QED
      BY <2>2
  <1>3. CASE CallStart(c)
    BY <1>1, <1>2, <1>3 DEF CallStart
  <1>4. CASE RestartReturns(c)
    <2>1. op[c].name \in Names
      BY <1>4, OpTyped DEF RestartReturns, Stoppings
    <2>2. QED
      BY <1>1, <1>2, <1>4, <2>1 DEF RestartReturns
  <1>5. CASE ReloadReturns(c)
    <2> DEFINE names == Missing(accepted, workers, manualStop)
    <2>1. /\ names \in SUBSET Names /\ Starts(names, accepted, running # "started")
          /\ \A n \in names : workers[n] = None /\ accepted[n] \in Definitions
      BY <1>5, ReloadReturnsStarts DEF Missing
    <2>2. UNCHANGED <<accepted, running, closing, siphon>>
      BY <1>5 DEF ReloadReturns
    <2> HIDE DEF names
    <2>3. Beginning(names)
      BY <1>1, <2>1, <2>2, StartsBegins
    <2>4. QED
      BY <1>1, <2>1, <2>3
  <1>6. QED
    BY <1>3, <1>4, <1>5

\* Calls that take a worker out of the map.
LEMMA TakeKinds ==
  ASSUME TypeOK, Positions, NEW c \in Callers, CallStop(c) \/ CallReset(c) \/ Replace(c)
  PROVE  /\ op' \in [Callers -> Operations] /\ Positions'
         /\ \E n \in Names : Taking(c, n)
  <1>1. ASSUME NEW n \in Names, NEW what \in {"stop", "restart", "reset"}, Calling(c), TakeWorker(c, n, what)
        PROVE  /\ op' \in [Callers -> Operations] /\ Positions'
               /\ SameOthers(c) /\ Hand(c) = None /\ Hand(c)' = workers[n]
               /\ workers' = [workers EXCEPT ![n] = None]
               /\ \A m \in Names : Resets(c, m)' => m = n /\ what = "reset"
    <2>1. PICK e \in Stoppings : /\ Moves(c, e) /\ e.do = what /\ e.name = n /\ e.at = "stop"
                                 /\ e.taken = workers[n]
      BY <1>1, TakeWorkerMoves
    <2>2. e # Idle /\ Placed(e)
      BY <2>1, IdleDiffers DEF Placed
    <2>3. QED
      BY <1>1, <2>1, <2>2, MoveKeeps DEF TakeWorker, Calling, Hand, SameOthers
  <1>2. CASE CallStop(c)
    <2>1. PICK n \in Names, what \in {"stop", "restart"} : TakeWorker(c, n, what)
      BY <1>2 DEF CallStop
    <2>2. Calling(c) /\ UNCHANGED <<running, worker, closing, siphon, forgotten>>
      BY <1>2 DEF CallStop
    <2>3. QED
      BY <1>1, <2>1, <2>2 DEF Taking
  <1>3. CASE CallReset(c)
    <2>1. PICK n \in Names : TakeWorker(c, n, "reset")
                            /\ forgotten' = [forgotten EXCEPT ![n] = IF Lingers(n) THEN "no" ELSE c]
      BY <1>3 DEF CallReset
    <2>2. Calling(c) /\ UNCHANGED <<running, worker, closing, siphon>>
      BY <1>3 DEF CallReset
    <2>3. QED
      BY <1>1, <2>1, <2>2 DEF Taking
  <1>4. CASE Replace(c)
    <2>1. PICK n \in Names :
            /\ workers[n] \in Slots /\ workers' = [workers EXCEPT ![n] = None]
            /\ worker' = Cancelled(workers[n])
            /\ \E e \in Reloads : Moves(c, e) /\ e.at = "replace" /\ e.taken = workers[n]
      BY <1>4, ReplaceMoves
    <2>2. PICK e \in Reloads : Moves(c, e) /\ e.at = "replace" /\ e.taken = workers[n]
      BY <2>1
    <2>3. e # Idle /\ Placed(e) /\ e.do = "reload" /\ workers[n] # None
      BY <2>1, <2>2, IdleDiffers, DefinitionsAssumption DEF Placed, Reloads
    <2>4. Hand(c) = None /\ UNCHANGED <<running, closing, siphon, forgotten>>
      BY <1>4, ReloadSteps DEF Replace, Hand
    <2>5. QED
      BY <2>1, <2>2, <2>3, <2>4, MoveKeeps DEF Taking, SameOthers
  <1>5. QED
    BY <1>2, <1>3, <1>4

\* Calls whose worker is over.
LEMMA LetGoKinds ==
  ASSUME TypeOK, Positions, Exclusive, NEW c \in Callers,
         StopReturns(c) \/ RestartContinues(c) \/ ResetReturns(c) \/ Replaced(c)
  PROVE  /\ op' \in [Callers -> Operations] /\ Positions' /\ LettingGo(c)
  <1>1. ASSUME Stopped(c), worker' = Released(c)
        PROVE  /\ Hand(c) = op[c].taken /\ (Hand(c) # None => ~Alive(Hand(c)))
               /\ worker' \in [Slots -> Workers \cup {None}]
               /\ \A i \in Slots : worker'[i] = worker[i] \/ (i = Hand(c) /\ worker'[i] = None)
    BY <1>1, StoppedTyped, ReleasedTyped DEF Hand
  <1>2. ASSUME Returns(c)
        PROVE  /\ op' \in [Callers -> Operations] /\ Positions' /\ SameOthers(c) /\ Hand(c)' = None
               /\ \A m \in Names : ~Resets(c, m)'
    BY <1>2, ReturnsMoves, MoveKeeps DEF SameOthers
  <1>3. CASE StopReturns(c)
    BY <1>1, <1>2, <1>3 DEF StopReturns, LettingGo
  <1>4. CASE RestartContinues(c)
    <2>1. PICK e \in Stoppings : Moves(c, e) /\ e.do = "restart" /\ e.at = "start" /\ e.taken = None
      BY <1>4, RestartContinuesMoves
    <2>2. e # Idle /\ Placed(e)
      BY <2>1, IdleDiffers DEF Placed
    <2>3. /\ op' \in [Callers -> Operations] /\ Positions' /\ SameOthers(c) /\ Hand(c)' = None
          /\ \A m \in Names : ~Resets(c, m)'
      BY <2>1, <2>2, MoveKeeps DEF SameOthers
    <2>4. QED
      BY <1>1, <1>4, <2>3 DEF RestartContinues, LettingGo
  <1>5. CASE ResetReturns(c)
    <2>1. op[c].name \in Names /\ Resets(c, op[c].name)
      BY <1>5, StoppedTyped DEF ResetReturns, Resets, Stoppings
    <2>2. \/ UNCHANGED <<siphon, forgotten>>
          \/ /\ siphon' = [siphon EXCEPT ![op[c].name] = None]
             /\ forgotten' = [forgotten EXCEPT ![op[c].name] = IF @ = c THEN "done" ELSE @]
      BY <1>5 DEF ResetReturns
    <2>3. Stopped(c) /\ worker' = Released(c) /\ Returns(c) /\ UNCHANGED <<running, workers, closing>>
      BY <1>5 DEF ResetReturns
    <2>4. QED
      BY <1>1, <1>2, <2>1, <2>2, <2>3 DEF LettingGo
  <1>6. CASE Replaced(c)
    <2>1. PICK e \in Reloads : Moves(c, e) /\ e.at = "reconcile" /\ e.taken = None
      BY <1>6, ReplacedMoves
    <2>2. e # Idle /\ Placed(e) /\ e.do = "reload"
      BY <2>1, IdleDiffers DEF Placed, Reloads
    <2>3. /\ op' \in [Callers -> Operations] /\ Positions' /\ SameOthers(c) /\ Hand(c)' = None
          /\ \A m \in Names : ~Resets(c, m)'
      BY <2>1, <2>2, MoveKeeps DEF SameOthers
    <2>4. /\ Hand(c) = op[c].taken /\ ~Alive(Hand(c)) /\ worker' = [worker EXCEPT ![Hand(c)] = None]
          /\ UNCHANGED <<running, workers, closing, siphon, forgotten>>
      BY <1>6 DEF Replaced, Hand
    <2>5. worker' \in [Slots -> Workers \cup {None}]
          /\ \A i \in Slots : worker'[i] = worker[i] \/ (i = Hand(c) /\ worker'[i] = None)
      BY <2>4 DEF TypeOK
    <2>6. QED
      BY <2>3, <2>4, <2>5 DEF LettingGo
  <1>7. QED
    BY <1>3, <1>4, <1>5, <1>6

\* Calls that do not touch a worker, but may tell one to stop.
LEMMA QuietKinds ==
  ASSUME TypeOK, Positions, NEW c \in Callers,
         LoadCandidate(c) \/ Cancel(c) \/ ReloadRefused(c) \/ WriteSnapshot(c) \/ Accept(c)
  PROVE  /\ op' \in [Callers -> Operations] /\ Positions'
         /\ Quietly \/ Telling(c)
  <1>1. ASSUME Hand(c) = None, NEW e \in Reloads, Moves(c, e), e.at # "replace", e.taken = None
        PROVE  op' \in [Callers -> Operations] /\ Positions' /\ SameHands
    <2>1. e # Idle /\ Placed(e) /\ e.do = "reload"
      BY <1>1, IdleDiffers DEF Placed, Reloads
    <2>2. QED
      BY <1>1, <2>1, MoveKeeps DEF SameHands
  <1>2. ASSUME Hand(c) = None, Moves(c, Idle)
        PROVE  op' \in [Callers -> Operations] /\ Positions' /\ SameHands
    BY <1>2, MoveKeeps DEF SameHands
  <1>3. CASE LoadCandidate(c)
    <2>1. UNCHANGED <<running, workers, worker, closing, siphon, forgotten>> /\ Hand(c) = None
      BY <1>3, LoadCandidateMoves DEF LoadCandidate, registry, Hand
    <2>2. CASE op' = op
      BY <2>1, <2>2 DEF TypeOK, Positions, SameHands, Hand, Resets, Quietly
    <2>3. CASE \E e \in Reloads : Moves(c, e) /\ e.at = "loaded" /\ e.taken = None
      BY <1>1, <2>1, <2>3 DEF Quietly
    <2>4. QED
      BY <1>3, <2>2, <2>3, LoadCandidateMoves
  <1>4. CASE Cancel(c)
    <2>1. PICK e \in Stoppings : /\ Moves(c, e) /\ e.do = op[c].do /\ e.name = op[c].name
                                 /\ e.at = "wait" /\ e.taken = op[c].taken
      BY <1>4, CancelMoves
    <2>2. /\ op[c].taken \in Slots /\ op[c].taken # None /\ op[c] # Idle
          /\ worker' = Cancelled(op[c].taken)
          /\ UNCHANGED <<running, workers, closing, siphon, forgotten>>
      BY <1>4, CancelMoves DEF Cancel
    <2>3. e # Idle /\ Placed(e)
      BY <2>1, <2>2, IdleDiffers DEF Placed
    <2>4. /\ op' \in [Callers -> Operations] /\ Positions' /\ SameHands
      BY <2>1, <2>2, <2>3, MoveKeeps DEF SameHands, Hand, Resets
    <2>5. QED
      BY <2>2, <2>4 DEF Telling, Hand
  <1>5. CASE ReloadRefused(c)
    BY <1>2, <1>5, ReturnsMoves DEF ReloadRefused, Positions, Hand, registry, Quietly
  <1>6. CASE WriteSnapshot(c)
    <2>1. UNCHANGED <<running, workers, worker, closing, siphon, forgotten>> /\ Hand(c) = None
      BY <1>6, ReloadSteps DEF WriteSnapshot, Hand
    <2>2. Moves(c, Idle) \/ \E e \in Reloads : Moves(c, e) /\ e.at = "written" /\ e.taken = None
      BY <1>6, WriteSnapshotMoves
    <2>3. QED
      BY <1>1, <1>2, <2>1, <2>2 DEF Quietly
  <1>7. CASE Accept(c)
    <2>1. UNCHANGED <<running, workers, worker, closing, siphon, forgotten>> /\ Hand(c) = None
      BY <1>7, ReloadSteps DEF Accept, Hand
    <2>2. \E e \in Reloads : Moves(c, e) /\ e.at = "reconcile" /\ e.taken = None
      BY <1>7, AcceptMoves
    <2>3. QED
      BY <1>1, <2>1, <2>2 DEF Quietly
  <1>8. QED
    BY <1>3, <1>4, <1>5, <1>6, <1>7

-----------------------------------------------------------------------------
\* Every step is of one of these kinds.
Kind ==
  \/ Quietly \/ CancelAll \/ CloseRegistry \/ CloseReturns \/ CloseStore \/ Crash
  \/ \E names \in SUBSET Names : Beginning(names)
  \/ \E i \in Slots : Working(i)
  \/ \E c \in Callers : \/ Telling(c) \/ LettingGo(c)
                        \/ \E n \in Names : Taking(c, n)

\* Where nobody moves.
LEMMA StillKinds ==
  ASSUME TypeOK, Positions, op' = op
  PROVE  op' \in [Callers -> Operations] /\ Positions' /\ SameHands
  BY DEF TypeOK, Positions, SameHands, Hand, Resets

\* A step is of one of them, and keeps callers typed and placed.
LEMMA Kinds ==
  ASSUME TypeOK, Positions, Exclusive, Off, [Next]_vars
  PROVE  op' \in [Callers -> Operations] /\ Positions' /\ Kind
  <1>1. CASE Edit \/ UNCHANGED vars
    <2>1. op' = op /\ UNCHANGED <<running, workers, worker, closing, siphon, forgotten>>
      BY <1>1 DEF Edit, vars, registry
    <2>2. QED
      BY <2>1, StillKinds DEF Quietly, Kind
  <1>2. CASE Boot
    <2>1. op' = op /\ UNCHANGED <<closing, siphon>> /\ running = "off" /\ running' = "started"
      BY <1>2 DEF Boot
    <2> DEFINE names == Missing(accepted', workers, {})
    <2>2. /\ names \in SUBSET Names /\ Starts(names, accepted', FALSE)
          /\ \A n \in names : workers[n] = None /\ accepted'[n] \in Definitions
      BY <1>2, BootStarts DEF Missing
    <2>3. (running' # "started") = FALSE
      BY <2>1
    <2> HIDE DEF names
    <2>4. Beginning(names)
      BY <2>1, <2>2, <2>3, StillKinds, StartsBegins
    <2>5. QED
      BY <2>1, <2>2, <2>4, StillKinds DEF Kind
  <1>3. CASE CancelAll \/ CloseRegistry \/ CloseReturns \/ CloseStore
    <2>1. op' = op
      BY <1>3 DEF CancelAll, CloseRegistry, CloseReturns, CloseStore
    <2>2. QED
      BY <1>3, <2>1, StillKinds DEF Kind
  <1>4. CASE Crash
    <2>1. op' = [c \in Callers |-> Idle]
      BY <1>4 DEF Crash
    <2>2. QED
      BY <1>4, <2>1 DEF Positions, Operations, Kind
  <1>5. ASSUME NEW i \in Slots, WorkerStep(i) PROVE op' \in [Callers -> Operations] /\ Positions' /\ Kind
    <2>1. /\ WorkerMoves(i) /\ op' = op /\ UNCHANGED <<running, workers, closing, forgotten>>
          /\ siphon' = siphon \/ \A n \in Names \ {worker[i].name} : siphon'[n] = siphon[n]
      BY <1>5, WorkerStepMoves DEF WorkerFrame
    <2>2. Working(i)
      BY <2>1, StillKinds DEF Working
    <2>3. QED
      BY <2>1, <2>2, StillKinds DEF Kind
  <1>6. ASSUME NEW c \in Callers, CallStart(c) \/ RestartReturns(c) \/ ReloadReturns(c)
        PROVE  op' \in [Callers -> Operations] /\ Positions' /\ Kind
    BY <1>6, StartKinds DEF Kind
  <1>7. ASSUME NEW c \in Callers, CallStop(c) \/ CallReset(c) \/ Replace(c)
        PROVE  op' \in [Callers -> Operations] /\ Positions' /\ Kind
    BY <1>7, TakeKinds DEF Kind
  <1>8. ASSUME NEW c \in Callers, StopReturns(c) \/ RestartContinues(c) \/ ResetReturns(c) \/ Replaced(c)
        PROVE  op' \in [Callers -> Operations] /\ Positions' /\ Kind
    BY <1>8, LetGoKinds DEF Kind
  <1>9. ASSUME NEW c \in Callers,
               LoadCandidate(c) \/ Cancel(c) \/ ReloadRefused(c) \/ WriteSnapshot(c) \/ Accept(c)
        PROVE  op' \in [Callers -> Operations] /\ Positions' /\ Kind
    BY <1>9, QuietKinds DEF Kind
  <1>10. QED
    BY <1>1, <1>2, <1>3, <1>4, <1>5, <1>6, <1>7, <1>8, <1>9, Steps

\* The end of the runtime's context reaches every worker, and changes nothing else of it.
LEMMA CancelAllMoves ==
  ASSUME TypeOK, CancelAll
  PROVE  /\ worker' \in [Slots -> Workers \cup {None}]
         /\ \A i \in Slots : /\ worker[i] = None <=> worker'[i] = None
                             /\ worker[i] # None =>
                                  /\ worker'[i].name = worker[i].name /\ worker'[i].def = worker[i].def
                                  /\ worker'[i].state = worker[i].state /\ worker'[i].cancelled
  <1>1. worker' = [i \in Slots |-> IF worker[i] = None THEN None ELSE [worker[i] EXCEPT !.cancelled = TRUE]]
    BY DEF CancelAll
  <1>2. ASSUME NEW i \in Slots, worker[i] # None
        PROVE  /\ worker'[i] \in Workers /\ worker'[i] # None
               /\ worker'[i].name = worker[i].name /\ worker'[i].def = worker[i].def
               /\ worker'[i].state = worker[i].state /\ worker'[i].cancelled
    <2> DEFINE w == [worker[i] EXCEPT !.cancelled = TRUE]
    <2>1. worker[i] \in Workers
      BY <1>2 DEF TypeOK
    <2>2. /\ w \in Workers /\ w.name = worker[i].name /\ w.def = worker[i].def
          /\ w.state = worker[i].state /\ w.cancelled
      BY <2>1 DEF Workers
    <2>3. w # None
      BY <2>2, DefinitionsAssumption
    <2>4. worker'[i] = w
      BY <1>1, <1>2
    <2> HIDE DEF w
    <2>5. QED
      BY <2>2, <2>3, <2>4
  <1>3. \A i \in Slots : worker[i] = None => worker'[i] = None
    BY <1>1
  <1>4. \A i \in Slots : worker'[i] \in Workers \cup {None}
    BY <1>2, <1>3
  <1>5. worker' \in [Slots -> Workers \cup {None}]
    BY <1>1, <1>4
  <1>6. QED
    BY <1>2, <1>3, <1>5

\* A caller has a slot in hand.
LEMMA HandTyped ==
  ASSUME TypeOK, NEW c \in Callers
  PROVE  Hand(c) \in Slots \cup {None}
  BY OpTyped DEF Hand

\* The map stays a map of workers of their names.
WorkersTyped ==
  /\ workers \in [Names -> Slots \cup {None}] /\ worker \in [Slots -> Workers \cup {None}]
  /\ \A n \in Names : workers[n] # None => worker[workers[n]] # None /\ worker[workers[n]].name = n
  /\ closing \subseteq Slots

\* A step keeps the map and the workers in it.
LEMMA WorkersStep ==
  ASSUME TypeOK, Exclusive, Kind
  PROVE  WorkersTyped'
  <1>1. CASE Quietly \/ CloseStore
    BY <1>1 DEF Quietly, CloseStore, TypeOK, WorkersTyped
  <1>2. CASE CancelAll
    <2>1. UNCHANGED <<workers, closing>>
      BY <1>2 DEF CancelAll
    <2>2. QED
      BY <1>2, <2>1, CancelAllMoves DEF TypeOK, WorkersTyped
  <1>3. CASE CloseRegistry
    BY <1>3 DEF CloseRegistry, Nothing, TypeOK, WorkersTyped
  <1>4. CASE CloseReturns
    BY <1>4 DEF CloseReturns, TypeOK, WorkersTyped, Exclusive
  <1>5. CASE Crash
    BY <1>5 DEF Crash, Nothing, TypeOK, WorkersTyped
  <1>6. ASSUME NEW names \in SUBSET Names, Beginning(names) PROVE WorkersTyped'
    <2>1. ASSUME NEW n \in Names \ names, workers[n] # None
          PROVE  worker'[workers[n]] = worker[workers[n]]
      BY <1>6, <2>1 DEF Beginning, TypeOK
    <2>2. QED
      BY <1>6, <2>1 DEF Beginning, WorkersTyped, TypeOK
  <1>7. ASSUME NEW i \in Slots, Working(i) PROVE WorkersTyped'
    BY <1>7 DEF Working, WorkerMoves, WorkersTyped, TypeOK
  <1>8. ASSUME NEW i \in Slots, worker[i] # None, worker' = Cancelled(i), closing' = closing,
               \/ workers' = workers
               \/ \E n \in Names : workers' = [workers EXCEPT ![n] = None]
        PROVE  WorkersTyped'
    BY <1>8, CancelledTyped DEF WorkersTyped, TypeOK
  <1>9. ASSUME NEW c \in Callers, Telling(c) PROVE WorkersTyped'
    BY <1>8, <1>9, HandTyped DEF Telling, Exclusive
  <1>10. ASSUME NEW c \in Callers, LettingGo(c) PROVE WorkersTyped'
    <2>1. /\ UNCHANGED <<workers, closing>> /\ worker' \in [Slots -> Workers \cup {None}]
          /\ \A i \in Slots : i # Hand(c) => worker'[i] = worker[i]
      BY <1>10 DEF LettingGo
    <2>2. \A n \in Names : workers[n] # None => workers[n] \in Slots /\ workers[n] # Hand(c)
      BY DEF TypeOK, Exclusive
    <2>3. QED
      BY <2>1, <2>2 DEF WorkersTyped, TypeOK
  <1>11. ASSUME NEW c \in Callers, NEW n \in Names, Taking(c, n) PROVE WorkersTyped'
    <2>1. CASE worker' = worker
      BY <1>11, <2>1 DEF Taking, WorkersTyped, TypeOK
    <2>2. CASE workers[n] # None /\ worker' = Cancelled(workers[n])
      BY <1>8, <1>11, <2>2, ZenonT(60) DEF Taking, TypeOK
    <2>3. QED
      BY <1>11, <2>1, <2>2 DEF Taking
  <1>12. QED
    BY <1>1, <1>2, <1>3, <1>4, <1>5, <1>6, <1>7, <1>9, <1>10, <1>11 DEF Kind

\* Nobody gets a worker that somebody has.
LEMMA ExclusiveStep ==
  ASSUME TypeOK, Exclusive, Kind, TypeOK'
  PROVE  Exclusive'
  <1>1. CASE Quietly
    BY <1>1 DEF Quietly, SameHands, Exclusive
  <1>2. CASE CancelAll
    <2>1. UNCHANGED <<workers, closing>> /\ \A c \in Callers : Hand(c)' = Hand(c)
      BY <1>2 DEF CancelAll, Hand
    <2>2. QED
      BY <1>2, <2>1, CancelAllMoves, HandTyped DEF Exclusive, TypeOK
  <1>3. CASE CloseRegistry
    <2>1. /\ UNCHANGED worker /\ \A c \in Callers : Hand(c)' = Hand(c)
          /\ closing' = {workers[n] : n \in Names} \ {None} /\ \A n \in Names : workers'[n] = None
      BY <1>3 DEF CloseRegistry, Hand, Nothing
    <2>2. QED
      BY <2>1 DEF Exclusive, TypeOK
  <1>4. CASE CloseReturns
    <2>1. /\ UNCHANGED workers /\ \A c \in Callers : Hand(c)' = Hand(c)
          /\ closing' = {} /\ \A i \in Slots \ closing : worker'[i] = worker[i]
      BY <1>4 DEF CloseReturns, Hand
    <2>2. QED
      BY <2>1, HandTyped DEF Exclusive
  <1>5. CASE CloseStore
    BY <1>5 DEF CloseStore, Hand, Exclusive
  <1>6. CASE Crash
    BY <1>6 DEF Crash, Hand, Exclusive
  <1>7. ASSUME NEW names \in SUBSET Names, Beginning(names) PROVE Exclusive'
    <2>1. ASSUME NEW i \in Slots, worker[i] # None, \A n \in Names : workers[n] # i
          PROVE  worker'[i] # None /\ \A n \in Names : workers'[n] # i
      BY <1>7, <2>1 DEF Beginning
    <2>2. /\ closing' = closing /\ closing \subseteq Slots
          /\ \A c \in Callers : Hand(c)' = Hand(c) /\ (Hand(c) # None => Hand(c) \in Slots)
      BY <1>7, HandTyped DEF Beginning, SameHands, TypeOK
    <2>3. QED
      BY <2>1, <2>2 DEF Exclusive
  <1>8. ASSUME NEW i \in Slots, Working(i) PROVE Exclusive'
    <2>1. /\ UNCHANGED <<workers, closing>> /\ closing \subseteq Slots
          /\ \A c \in Callers : Hand(c)' = Hand(c) /\ (Hand(c) # None => Hand(c) \in Slots)
      BY <1>8, HandTyped DEF Working, SameHands, TypeOK
    <2>2. \A j \in Slots : worker[j] # None => worker'[j] # None
      BY <1>8 DEF Working, WorkerMoves
    <2>3. QED
      BY <2>1, <2>2 DEF Exclusive
  <1>9. ASSUME NEW c \in Callers, Telling(c) PROVE Exclusive'
    <2>1. /\ UNCHANGED <<workers, closing>> /\ closing \subseteq Slots
          /\ \A d \in Callers : Hand(d)' = Hand(d) /\ (Hand(d) # None => Hand(d) \in Slots)
      BY <1>9, HandTyped DEF Telling, SameHands, TypeOK
    <2>2. \A j \in Slots : worker[j] # None => worker'[j] # None
      BY <1>9, <2>1, CancelledTyped DEF Telling, Exclusive
    <2>3. QED
      BY <2>1, <2>2 DEF Exclusive
  <1>10. ASSUME NEW c \in Callers, LettingGo(c) PROVE Exclusive'
    <2>1. /\ UNCHANGED <<workers, closing>> /\ closing \subseteq Slots /\ Hand(c)' = None
          /\ \A d \in Callers \ {c} : Hand(d)' = Hand(d)
          /\ \A d \in Callers : Hand(d) # None => Hand(d) \in Slots
      BY <1>10, HandTyped DEF LettingGo, SameOthers, TypeOK
    <2>2. \A j \in Slots : j # Hand(c) => worker'[j] = worker[j]
      BY <1>10 DEF LettingGo
    <2>3. ASSUME NEW d \in Callers, Hand(d)' # None
          PROVE  /\ worker'[Hand(d)'] # None /\ Hand(d)' \notin closing'
                 /\ \A n \in Names : workers'[n] # Hand(d)'
                 /\ \A e \in Callers : e # d => Hand(e)' # Hand(d)'
      <3>1. d # c /\ Hand(d)' = Hand(d) /\ Hand(d) # None /\ Hand(d) \in Slots
        BY <2>1, <2>3
      <3>2. /\ worker[Hand(d)] # None /\ Hand(d) \notin closing
            /\ \A n \in Names : workers[n] # Hand(d)
            /\ \A e \in Callers : e # d => Hand(e) # Hand(d)
        BY <3>1 DEF Exclusive
      <3>3. worker'[Hand(d)] = worker[Hand(d)]
        BY <2>2, <3>1, <3>2
      <3>4. \A e \in Callers : e # d => Hand(e)' # Hand(d)
        BY <2>1, <3>1, <3>2
      <3>5. QED
        BY <2>1, <3>1, <3>2, <3>3, <3>4
    <2>4. ASSUME NEW i \in closing PROVE worker'[i] # None /\ \A n \in Names : workers[n] # i
      <3>1. i # Hand(c) /\ i \in Slots /\ worker[i] # None /\ \A n \in Names : workers[n] # i
        BY <2>1, DefinitionsAssumption DEF Exclusive
      <3>2. QED
        BY <2>2, <3>1
    <2>5. QED
      BY <2>1, <2>3, <2>4 DEF Exclusive
  <1>11. ASSUME NEW c \in Callers, NEW n \in Names, Taking(c, n) PROVE Exclusive'
    <2>1. /\ UNCHANGED closing /\ closing \subseteq Slots /\ Hand(c) = None /\ Hand(c)' = workers[n]
          /\ \A d \in Callers \ {c} : Hand(d)' = Hand(d)
          /\ \A d \in Callers : Hand(d) # None => Hand(d) \in Slots
      BY <1>11, HandTyped DEF Taking, SameOthers, TypeOK
    <2>2. \A j \in Slots : worker[j] # None => worker'[j] # None
      BY <1>11, CancelledTyped DEF Taking, TypeOK
    <2>3. /\ workers'[n] = None /\ \A m \in Names \ {n} : workers'[m] = workers[m]
          /\ \A m \in Names \ {n} : workers[m] # None => workers[m] # workers[n]
      BY <1>11 DEF Taking, TypeOK
    <2>4. workers[n] # None => /\ workers[n] \in Slots /\ worker[workers[n]] # None /\ workers[n] \notin closing
                              /\ \A d \in Callers : Hand(d) # None => Hand(d) # workers[n]
      BY DEF TypeOK, Exclusive
    <2>5. ASSUME NEW d \in Callers, Hand(d)' # None
          PROVE  /\ worker'[Hand(d)'] # None /\ Hand(d)' \notin closing'
                 /\ \A m \in Names : workers'[m] # Hand(d)'
                 /\ \A e \in Callers : e # d => Hand(e)' # Hand(d)'
      <3>1. CASE d = c
        <4>1. Hand(d)' = workers[n] /\ workers[n] # None
          BY <2>1, <2>5, <3>1
        <4>2. \A m \in Names : workers'[m] # workers[n]
          BY <2>3, <4>1
        <4>3. \A e \in Callers : e # d => Hand(e)' # workers[n]
          BY <2>1, <2>4, <3>1, <4>1
        <4>4. worker'[workers[n]] # None
          BY <2>2, <2>4, <4>1
        <4>5. QED
          BY <2>1, <2>4, <4>1, <4>2, <4>3, <4>4
      <3>2. CASE d # c
        <4>1. Hand(d)' = Hand(d) /\ Hand(d) # None /\ Hand(d) \in Slots
          BY <2>1, <2>5, <3>2
        <4>2. /\ worker[Hand(d)] # None /\ Hand(d) \notin closing
              /\ \A m \in Names : workers[m] # Hand(d)
              /\ \A e \in Callers : e # d => Hand(e) # Hand(d)
          BY <4>1 DEF Exclusive
        <4>3. \A m \in Names : workers'[m] # Hand(d)
          BY <2>3, <4>1, <4>2
        <4>4. \A e \in Callers : e # d => Hand(e)' # Hand(d)
          BY <2>1, <4>1, <4>2
        <4>5. QED
          BY <2>1, <2>2, <4>1, <4>2, <4>3, <4>4
      <3>3. QED
        BY <3>1, <3>2
    <2>6. \A i \in closing : worker'[i] # None /\ \A m \in Names : workers'[m] # i
      <3>1. ASSUME NEW i \in closing PROVE worker'[i] # None /\ \A m \in Names : workers'[m] # i
        <4>1. i \in Slots /\ i # None /\ worker[i] # None /\ \A m \in Names : workers[m] # i
          BY <2>1, DefinitionsAssumption DEF Exclusive
        <4>2. QED
          BY <2>2, <2>3, <4>1
      <3>2. QED
        BY <3>1
    <2>7. QED
      BY <2>1, <2>5, <2>6 DEF Exclusive
  <1>12. QED
    BY <1>1, <1>2, <1>3, <1>4, <1>5, <1>6, <1>7, <1>8, <1>9, <1>10, <1>11 DEF Kind

-----------------------------------------------------------------------------
\* What is on disk, in memory and noted down.
PlainTyped ==
  /\ files \in Snapshots \cup {Invalid}
  /\ disk \in Snapshots \cup {None}
  /\ accepted \in Snapshots \cup {Nothing}
  /\ running \in {"off", "started", "cancelled", "closing", "closed", "stopped"}
  /\ siphon \in [Names -> {d.selection : d \in Definitions} \cup {None}]
  /\ manualStop \subseteq Names /\ resetAllowed \subseteq Names
  /\ forgotten \in [Names -> Callers \cup {"no", "done"}]

\* A step keeps the types of these.
LEMMA PlainStep ==
  ASSUME TypeOK, Positions, [Next]_vars
  PROVE  PlainTyped'
  <1>1. CASE Edit \/ UNCHANGED vars
    BY <1>1 DEF Edit, vars, registry, PlainTyped, TypeOK
  <1>2. CASE Boot
    <2>1. /\ UNCHANGED <<files, manualStop, resetAllowed, siphon>> /\ running' = "started"
          /\ accepted' \in Snapshots \cup {Nothing} /\ disk' \in Snapshots \cup {None}
          /\ forgotten' \in [Names -> Callers \cup {"no", "done"}]
      BY <1>2, BootStarts DEF Boot, Starts
    <2>2. QED
      BY <2>1 DEF PlainTyped, TypeOK
  <1>3. CASE CancelAll \/ CloseRegistry \/ CloseReturns \/ CloseStore
    BY <1>3 DEF CancelAll, CloseRegistry, CloseReturns, CloseStore, PlainTyped, TypeOK
  <1>4. CASE Crash
    BY <1>4 DEF Crash, PlainTyped, TypeOK
  <1>5. ASSUME NEW i \in Slots, WorkerStep(i) PROVE PlainTyped'
    BY <1>5, WorkerStepMoves DEF WorkerFrame, PlainTyped, TypeOK
  <1>6. ASSUME NEW c \in Callers, CallStart(c) \/ RestartReturns(c) \/ ReloadReturns(c) PROVE PlainTyped'
    <2>1. forgotten' \in [Names -> Callers \cup {"no", "done"}] /\ siphon' = siphon
      BY <1>6, StartKinds DEF Beginning
    <2>2. UNCHANGED <<files, disk, accepted, running, resetAllowed>>
      BY <1>6 DEF CallStart, RestartReturns, ReloadReturns
    <2>3. manualStop' \subseteq Names
      BY <1>6 DEF CallStart, RestartReturns, ReloadReturns, StartDefinition, TypeOK
    <2>4. QED
      BY <2>1, <2>2, <2>3 DEF PlainTyped, TypeOK
  <1>7. ASSUME NEW c \in Callers, CallStop(c) \/ CallReset(c) PROVE PlainTyped'
    BY <1>7 DEF CallStop, CallReset, TakeWorker, PlainTyped, TypeOK
  <1>8. ASSUME NEW c \in Callers, Cancel(c) \/ StopReturns(c) \/ RestartContinues(c) \/ Replace(c) \/ Replaced(c)
        PROVE  PlainTyped'
    BY <1>8 DEF Cancel, StopReturns, RestartContinues, Replace, Replaced, PlainTyped, TypeOK
  <1>9. ASSUME NEW c \in Callers, LoadCandidate(c) \/ ReloadRefused(c) PROVE PlainTyped'
    BY <1>9 DEF LoadCandidate, ReloadRefused, registry, PlainTyped, TypeOK
  <1>10. ASSUME NEW c \in Callers, ResetReturns(c) PROVE PlainTyped'
    BY <1>10 DEF ResetReturns, PlainTyped, TypeOK
  <1>11. ASSUME NEW c \in Callers, WriteSnapshot(c) \/ Accept(c) PROVE PlainTyped'
    <2>1. op[c].candidate \in Snapshots
      BY <1>11, ReloadSteps DEF Reloads
    <2>2. QED
      BY <1>11, <2>1 DEF WriteSnapshot, Accept, PlainTyped, TypeOK
  <1>12. QED
    BY <1>1, <1>2, <1>3, <1>4, <1>5, <1>6, <1>7, <1>8, <1>9, <1>10, <1>11, Steps

\* A reload that is past the point of no return.
Committed(c) == op[c] # Idle /\ op[c].at \in {"written", "reconcile", "replace"}

\* It holds the lock, and who holds the lock is one.
Locking ==
  /\ lock \in Callers \cup {None}
  /\ \A c \in Callers : lock = c => op[c].do = "reload" /\ op[c].at \in {"written", "reconcile", "replace"}

\* A caller that is not committed moves to where it is not either.
LEMMA UncommittedKeeps ==
  ASSUME TypeOK, Reloading, NEW c \in Callers, NEW e, Moves(c, e), ~Committed(c),
         e = Idle \/ e.at \notin {"written", "reconcile", "replace"},
         UNCHANGED <<lock, accepted, running, disk>>, manualStop' = manualStop \/ Unlocked
  PROVE  Locking' /\ Reloading'
  <1>1. op'[c] = e /\ \A d \in Callers \ {c} : op'[d] = op[d]
    BY MovesTyped
  <1>2. lock # c
    BY DEF TypeOK, Committed, Idle
  <1>3. Locking'
    BY <1>1, <1>2 DEF Locking, TypeOK
  <1>4. ASSUME NEW d \in Callers, op'[d] # Idle, op'[d].at \in {"written", "reconcile", "replace"}
        PROVE  /\ lock' = d /\ Started' /\ disk' = op'[d].candidate
               /\ op'[d].at # "written" => accepted' = disk' /\ manualStop' = {}
    <2>1. d # c /\ op'[d] = op[d]
      BY <1>1, <1>4
    <2>2. lock = d /\ lock # None
      BY <1>4, <2>1, DefinitionsAssumption DEF Reloading
    <2>3. QED
      BY <1>4, <2>1, <2>2 DEF Reloading, Started, Unlocked
  <1>5. QED
    BY <1>3, <1>4 DEF Reloading

\* Nobody moves.
LEMMA NobodyMoves ==
  ASSUME TypeOK, Reloading, UNCHANGED <<lock, op, accepted, disk>>, Started => Started',
         manualStop' = manualStop \/ Unlocked
  PROVE  Locking' /\ Reloading'
  BY DefinitionsAssumption DEF Locking, Reloading, Started, Unlocked, TypeOK

\* A step keeps the lock with the reload that is committed.
LEMMA LockStep ==
  ASSUME TypeOK, Positions, Reloading, Off, [Next]_vars
  PROVE  Locking' /\ Reloading'
  <1>1. CASE Edit \/ UNCHANGED vars \/ CancelAll
    BY <1>1, NobodyMoves DEF Edit, CancelAll, vars, registry, Started
  <1>2. CASE Boot
    <2>1. UNCHANGED <<lock, op>> /\ lock = None /\ \A c \in Callers : op[c] = Idle
      BY <1>2 DEF Boot, Off
    <2>2. QED
      BY <2>1, DefinitionsAssumption DEF Locking, Reloading
  <1>3. CASE CloseRegistry \/ CloseReturns \/ CloseStore
    <2>1. UNCHANGED <<lock, op, accepted, disk, manualStop>> /\ (Unlocked \/ ~Started)
      BY <1>3 DEF CloseRegistry, CloseReturns, CloseStore, Started
    <2>2. \A c \in Callers : ~Committed(c)
      BY <2>1, DefinitionsAssumption DEF Reloading, Committed, Unlocked
    <2>3. QED
      BY <2>1, <2>2 DEF Locking, Reloading, Committed, TypeOK
  <1>4. CASE Crash
    BY <1>4, DefinitionsAssumption DEF Crash, Locking, Reloading
  <1>5. ASSUME NEW i \in Slots, WorkerStep(i) PROVE Locking' /\ Reloading'
    BY <1>5, WorkerStepMoves, NobodyMoves DEF WorkerFrame, Started
  <1>6. ASSUME NEW c \in Callers, CallStart(c) PROVE Locking' /\ Reloading'
    BY <1>6, NobodyMoves DEF CallStart, StartDefinition, Started
  <1>7. ASSUME NEW c \in Callers, CallStop(c) \/ CallReset(c) PROVE Locking' /\ Reloading'
    <2>1. PICK n \in Names, what \in {"stop", "restart", "reset"} : TakeWorker(c, n, what)
      BY <1>7 DEF CallStop, CallReset
    <2>2. /\ op[c] = Idle /\ UNCHANGED <<lock, accepted, running, disk>> /\ Unlocked
      BY <1>7, <2>1 DEF CallStop, CallReset, Calling, TakeWorker
    <2>3. \E e \in Stoppings : Moves(c, e) /\ e.at = "stop"
      BY <2>1, TakeWorkerMoves
    <2>4. QED
      BY <2>2, <2>3, UncommittedKeeps DEF Committed
  <1>8. ASSUME NEW c \in Callers, LoadCandidate(c) PROVE Locking' /\ Reloading'
    <2>1. UNCHANGED <<lock, accepted, running, disk, manualStop>>
      BY <1>8 DEF LoadCandidate, registry
    <2>2. QED
      BY <1>8, <2>1, LoadCandidateMoves, NobodyMoves, UncommittedKeeps DEF Committed, Started
  <1>9. ASSUME NEW c \in Callers, Cancel(c) PROVE Locking' /\ Reloading'
    <2>1. UNCHANGED <<lock, accepted, running, disk, manualStop>> /\ ~Committed(c)
      BY <1>9 DEF Cancel, Committed
    <2>2. QED
      BY <1>9, <2>1, CancelMoves, UncommittedKeeps
  <1>10. ASSUME NEW c \in Callers, RestartContinues(c) PROVE Locking' /\ Reloading'
    <2>1. UNCHANGED <<lock, accepted, running, disk, manualStop>> /\ ~Committed(c)
      BY <1>10 DEF RestartContinues, Stopped, Committed
    <2>2. QED
      BY <1>10, <2>1, RestartContinuesMoves, UncommittedKeeps
  <1>11. ASSUME NEW c \in Callers, StopReturns(c) \/ ResetReturns(c) \/ RestartReturns(c) \/ ReloadRefused(c)
         PROVE  Locking' /\ Reloading'
    <2>1. /\ UNCHANGED <<lock, accepted, running, disk>> /\ ~Committed(c) /\ Returns(c)
          /\ manualStop' = manualStop \/ Unlocked
      BY <1>11 DEF StopReturns, ResetReturns, RestartReturns, ReloadRefused, StartDefinition, Stopped,
                   registry, Committed
    <2>2. QED
      BY <2>1, ReturnsMoves, UncommittedKeeps
  <1>12. ASSUME NEW c \in Callers, WriteSnapshot(c) PROVE Locking' /\ Reloading'
    <2>1. /\ op[c] # Idle /\ op[c].at = "loaded" /\ Unlocked /\ Started
          /\ UNCHANGED <<accepted, running, manualStop>>
      BY <1>12 DEF WriteSnapshot
    <2>2. CASE UNCHANGED <<disk, lock>> /\ Moves(c, Idle)
      BY <2>1, <2>2, UncommittedKeeps DEF Committed
    <2>3. ASSUME disk' = op[c].candidate, lock' = c, NEW e \in Reloads, Moves(c, e), e.at = "written",
                 e.candidate = op[c].candidate
          PROVE  Locking' /\ Reloading'
      <3>1. op'[c] = e /\ e.do = "reload" /\ \A d \in Callers \ {c} : op'[d] = op[d]
        BY <2>3, MovesTyped DEF Reloads
      <3>2. \A d \in Callers : ~Committed(d)
        BY <2>1, DefinitionsAssumption DEF Reloading, Committed, Unlocked
      <3>3. QED
        BY <2>1, <2>3, <3>1, <3>2 DEF Locking, Reloading, Committed, Started
    <2>4. QED
      BY <1>12, <2>2, <2>3, WriteSnapshotMoves
  <1>13. ASSUME NEW c \in Callers, Committed(c), UNCHANGED <<lock, running, disk>>,
                NEW e \in Reloads, Moves(c, e), e.at \in {"reconcile", "replace"},
                e.candidate = op[c].candidate, accepted' = disk, manualStop' = {}
         PROVE  Locking' /\ Reloading'
    <2>1. op'[c] = e /\ e.do = "reload" /\ \A d \in Callers \ {c} : op'[d] = op[d]
      BY <1>13, MovesTyped DEF Reloads
    <2>2. lock = c /\ Started /\ disk = op[c].candidate
      BY <1>13 DEF Committed, Reloading
    <2>3. \A d \in Callers \ {c} : ~Committed(d)
      BY <2>2 DEF Reloading, Committed
    <2>4. QED
      BY <1>13, <2>1, <2>2, <2>3 DEF Locking, Reloading, Committed, Started
  <1>14. ASSUME NEW c \in Callers, Accept(c) PROVE Locking' /\ Reloading'
    <2>1. /\ Committed(c) /\ UNCHANGED <<lock, running, disk>> /\ accepted' = op[c].candidate
          /\ manualStop' = {}
      BY <1>14 DEF Accept, Committed
    <2>2. accepted' = disk
      BY <2>1 DEF Committed, Reloading
    <2>3. QED
      BY <1>13, <1>14, <2>1, <2>2, AcceptMoves
  <1>15. ASSUME NEW c \in Callers, Replace(c) \/ Replaced(c) PROVE Locking' /\ Reloading'
    <2>1. /\ Committed(c) /\ op[c].at # "written"
          /\ UNCHANGED <<lock, running, disk, accepted, manualStop>>
      BY <1>15 DEF Replace, Replaced, Committed
    <2>2. accepted' = disk /\ manualStop' = {}
      BY <2>1 DEF Committed, Reloading
    <2>3. \E e \in Reloads : Moves(c, e) /\ e.at \in {"reconcile", "replace"} /\ e.candidate = op[c].candidate
      BY <1>15, ReplaceMoves, ReplacedMoves
    <2>4. QED
      BY <1>13, <2>1, <2>2, <2>3
  <1>16. ASSUME NEW c \in Callers, ReloadReturns(c) PROVE Locking' /\ Reloading'
    <2>1. Committed(c) /\ Returns(c) /\ lock' = None
      BY <1>16 DEF ReloadReturns, Committed
    <2>2. op'[c] = Idle /\ \A d \in Callers \ {c} : op'[d] = op[d]
      BY <2>1, ReturnsMoves, MovesTyped
    <2>3. \A d \in Callers \ {c} : ~Committed(d)
      BY <2>1 DEF Reloading, Committed
    <2>4. QED
      BY <2>1, <2>2, <2>3, DefinitionsAssumption DEF Locking, Reloading, Committed
  <1>17. QED
    BY <1>1, <1>2, <1>3, <1>4, <1>5, <1>6, <1>7, <1>8, <1>9, <1>10, <1>11, <1>12, <1>14, <1>15,
       <1>16, Steps

\* Types are kept.
LEMMA TypeStep ==
  ASSUME TypeOK, Positions, Exclusive, Reloading, Off, [Next]_vars
  PROVE  TypeOK'
  <1>1. op' \in [Callers -> Operations] /\ Kind
    BY Kinds
  <1>2. WorkersTyped'
    BY <1>1, WorkersStep
  <1>3. PlainTyped' /\ Locking'
    BY PlainStep, LockStep
  <1>4. QED
    BY <1>1, <1>2, <1>3 DEF TypeOK, WorkersTyped, PlainTyped, Locking

-----------------------------------------------------------------------------
\* Nothing happens in a daemon that is off but its boot.
LEMMA OffStep ==
  ASSUME TypeOK, Exclusive, Off, Kind, [Next]_vars
  PROVE  Off'
  <1>1. CASE running = "off"
    <2>1. /\ \A i \in Slots : ~WorkerStep(i)
          /\ \A c \in Callers : op[c] = Idle
      BY <1>1, WorkerStepMoves DEF Off, WorkerMoves, Alive
    <2>2. \A c \in Callers : ~Calling(c)
      BY <1>1 DEF Calling
    <2>3. \/ Boot \/ Edit \/ UNCHANGED vars \/ Crash
          \/ CancelAll \/ CloseRegistry \/ CloseReturns \/ CloseStore
      BY <2>1, <2>2, Steps DEF CallStart, CallStop, CallReset, LoadCandidate, Cancel, StopReturns,
                               RestartContinues, RestartReturns, ResetReturns, Stopped, ReloadRefused,
                               WriteSnapshot, Accept, Replace, Replaced, ReloadReturns
    <2>4. Boot => running' # "off"
      BY DEF Boot
    <2>5. Edit \/ UNCHANGED vars => Off'
      BY DEF Edit, vars, registry, Off
    <2>6. Off' \/ running' # "off"
      BY <1>1, <2>3, <2>4, <2>5 DEF Crash, CancelAll, CloseRegistry, CloseReturns, CloseStore
    <2>7. QED
      BY <2>6 DEF Off
  <1>2. CASE running # "off"
    <2>1. CASE Crash
      BY <2>1 DEF Crash, Nothing, Off
    <2>2. CASE ~Crash
      <3>1. running' # "off"
        BY <1>2, <2>2 DEF Kind, Quietly, CancelAll, CloseRegistry, CloseReturns, CloseStore,
                          Beginning, Working, Telling, LettingGo, Taking
      <3>2. QED
        BY <3>1 DEF Off
    <2>3. QED
      BY <2>1, <2>2
  <1>3. QED
    BY <1>1, <1>2

\* A worker that is told to stop is told for good, and no worker changes its name.
LEMMA WorkersStay ==
  ASSUME TypeOK, Exclusive, Kind, NEW i \in Slots, worker'[i] # None
  PROVE  \/ /\ worker[i] # None /\ worker'[i].name = worker[i].name
            /\ worker[i].cancelled => worker'[i].cancelled
            /\ Alive(i)' => Alive(i)
            /\ worker'[i].state = "running" => worker[i].state = "running" \/ ~worker[i].cancelled
         \/ /\ \E names \in SUBSET Names : Beginning(names) /\ \E n \in names : workers'[n] = i
            /\ worker[i] = None /\ worker'[i].cancelled = (running' # "started")
            /\ worker'[i].state # "running"
  <1> DEFINE Stays == /\ worker[i] # None /\ worker'[i].name = worker[i].name
                      /\ worker[i].cancelled => worker'[i].cancelled
                      /\ Alive(i)' => Alive(i)
                      /\ worker'[i].state = "running" =>
                           worker[i].state = "running" \/ ~worker[i].cancelled
  <1>1. ASSUME worker'[i] = worker[i] PROVE Stays
    BY <1>1 DEF Alive
  <1>2. ASSUME NEW j \in Slots, worker[j] # None, worker' = Cancelled(j) PROVE Stays
    BY <1>2, CancelledTyped DEF Alive
  <1>3. CASE Quietly \/ CloseRegistry \/ CloseStore
    BY <1>1, <1>3 DEF Quietly, CloseRegistry, CloseStore
  <1>4. CASE CancelAll
    BY <1>4, CancelAllMoves DEF Alive
  <1>5. CASE CloseReturns
    BY <1>1, <1>5 DEF CloseReturns
  <1>6. CASE Crash
    BY <1>6 DEF Crash
  <1>7. ASSUME NEW names \in SUBSET Names, Beginning(names), ~Stays
        PROVE  /\ \E n \in names : workers'[n] = i
               /\ worker[i] = None /\ worker'[i].cancelled = (running' # "started")
               /\ worker'[i].state # "running"
    <2>1. worker'[i] # worker[i]
      BY <1>1, <1>7
    <2>2. worker[i] = None /\ \E n \in names : workers'[n] = i
      BY <1>7, <2>1 DEF Beginning
    <2>3. QED
      BY <1>7, <2>2 DEF Beginning
  <1>8. ASSUME NEW j \in Slots, Working(j) PROVE Stays
    BY <1>1, <1>8 DEF Working, WorkerMoves, Alive
  <1>9. ASSUME NEW c \in Callers, Telling(c) PROVE Stays
    BY <1>2, <1>9, HandTyped DEF Telling, Exclusive
  <1>10. ASSUME NEW c \in Callers, LettingGo(c) PROVE Stays
    BY <1>1, <1>10 DEF LettingGo
  <1>11. ASSUME NEW c \in Callers, NEW n \in Names, Taking(c, n) PROVE Stays
    BY <1>1, <1>2, <1>11 DEF Taking, TypeOK
  <1>12. QED
    BY <1>3, <1>4, <1>5, <1>6, <1>7, <1>8, <1>9, <1>10, <1>11 DEF Kind

\* What was started too late runs nothing.
LEMMA CancellingStep ==
  ASSUME TypeOK, TypeOK', Exclusive, Cancelling, Kind
  PROVE  Cancelling'
  <1>1. ASSUME running' \notin {"off", "started"}, NEW i \in Slots, worker'[i] # None
        PROVE  worker'[i].cancelled
    <2>1. CASE CancelAll
      BY <1>1, <2>1, CancelAllMoves
    <2>2. CASE ~CancelAll
      <3>1. running \notin {"off", "started"}
        BY <1>1, <2>2 DEF Kind, Quietly, CloseRegistry, CloseReturns, CloseStore, Crash,
                          Beginning, Working, Telling, LettingGo, Taking
      <3>2. worker[i] # None => worker[i].cancelled
        BY <3>1 DEF Cancelling
      <3>3. QED
        BY <1>1, <3>2, WorkersStay
    <2>3. QED
      BY <2>1, <2>2
  <1>2. ASSUME running' \in {"closing", "closed"}, NEW n \in Names, workers'[n] # None
        PROVE  worker'[workers'[n]].state # "running"
    <2>1. ~CloseRegistry
      BY <1>2 DEF CloseRegistry, Nothing
    <2>2. running \in {"closing", "closed"}
      BY <1>2, <2>1 DEF Kind, Quietly, CancelAll, CloseReturns, CloseStore, Crash,
                        Beginning, Working, Telling, LettingGo, Taking
    <2>3. /\ \A i \in Slots : worker[i] # None => worker[i].cancelled
          /\ \A m \in Names : workers[m] # None => worker[workers[m]].state # "running"
      BY <2>2 DEF Cancelling
    <2> DEFINE i == workers'[n]
    <2>4. i \in Slots /\ worker'[i] # None
      BY <1>2 DEF TypeOK
    <2>5. CASE worker[i] = None
      BY <2>4, <2>5, WorkersStay
    <2>6. CASE worker[i] # None
      <3>1. workers[n] = i
        <4>1. ASSUME NEW names \in SUBSET Names, Beginning(names) PROVE workers[n] = i
          BY <2>6, <4>1 DEF Beginning
        <4>2. QED
          BY <1>2, <2>1, <4>1 DEF Kind, Quietly, CancelAll, CloseReturns, CloseStore, Crash, Nothing,
                                  Working, Telling, LettingGo, Taking, TypeOK
      <3>2. worker[i].state # "running" /\ worker[i].cancelled
        BY <1>2, <2>3, <2>4, <2>6, <3>1
      <3>3. QED
        BY <2>4, <2>6, <3>2, WorkersStay
    <2>7. QED
      BY <2>5, <2>6
  <1>3. closing' # {} => running' = "closing"
    BY DEF Kind, Cancelling, Quietly, CancelAll, CloseRegistry, CloseReturns, CloseStore, Crash,
           Beginning, Working, Telling, LettingGo, Taking
  <1>4. QED
    BY <1>1, <1>2, <1>3 DEF Cancelling

\* Whoever lives is in the map or in hand, whatever becomes of both.
LEMMA OrphanStep ==
  ASSUME TypeOK, Exclusive, Cancelling, NoOrphan, Kind
  PROVE  NoOrphan'
  <1> DEFINE Found(i) == \/ i \in closing \/ \E c \in Callers : Hand(c) = i
                         \/ \E n \in Names : workers[n] = i
  <1> SUFFICES ASSUME NEW i \in Slots, Alive(i)' PROVE Found(i)'
    BY DefinitionsAssumption DEF NoOrphan, InHand, Hand
  <1>1. worker'[i] # None
    BY DEF Alive
  <1>2. CASE \E names \in SUBSET Names : Beginning(names) /\ \E n \in names : workers'[n] = i
    BY <1>2
  <1>3. CASE ~\E names \in SUBSET Names : Beginning(names) /\ \E n \in names : workers'[n] = i
    <2>1. Alive(i)
      BY <1>1, <1>3, WorkersStay
    <2>2. Found(i)
      BY <2>1, DefinitionsAssumption DEF NoOrphan, InHand, Hand
    <2>3. CASE Quietly \/ \E c \in Callers : Telling(c)
      BY <2>2, <2>3 DEF Quietly, Telling, SameHands
    <2>4. CASE \E j \in Slots : Working(j)
      BY <2>2, <2>4 DEF Working, SameHands
    <2>5. ASSUME NEW names \in SUBSET Names, Beginning(names) PROVE Found(i)'
      <3>1. ASSUME NEW n \in Names, workers[n] = i PROVE workers'[n] = i
        BY <2>5, <3>1, DefinitionsAssumption DEF Beginning
      <3>2. QED
        BY <2>2, <2>5, <3>1 DEF Beginning, SameHands
    <2>6. CASE CancelAll \/ CloseStore
      <3>1. UNCHANGED <<op, closing, workers>>
        BY <2>6 DEF CancelAll, CloseStore
      <3>2. QED
        BY <2>2, <3>1 DEF Hand
    <2>7. CASE CloseRegistry
      <3>1. closing = {} /\ UNCHANGED op /\ closing' = {workers[n] : n \in Names} \ {None}
        BY <2>7 DEF CloseRegistry, Cancelling
      <3>2. QED
        BY <2>2, <3>1, DefinitionsAssumption DEF Hand
    <2>8. CASE CloseReturns
      <3>1. i \notin closing /\ UNCHANGED <<op, workers>>
        BY <2>1, <2>8 DEF CloseReturns
      <3>2. QED
        BY <2>2, <3>1 DEF Hand
    <2>9. CASE Crash
      BY <1>1, <2>9 DEF Crash
    <2>10. ASSUME NEW c \in Callers, LettingGo(c) PROVE Found(i)'
      <3>1. /\ UNCHANGED <<workers, closing>> /\ \A d \in Callers \ {c} : Hand(d)' = Hand(d)
            /\ Hand(c) # i
        BY <2>1, <2>10, DefinitionsAssumption DEF LettingGo, SameOthers
      <3>2. QED
        BY <2>2, <3>1
    <2>11. ASSUME NEW c \in Callers, NEW n \in Names, Taking(c, n) PROVE Found(i)'
      <3>1. /\ UNCHANGED closing /\ \A d \in Callers \ {c} : Hand(d)' = Hand(d)
            /\ Hand(c) = None /\ Hand(c)' = workers[n] /\ \A m \in Names \ {n} : workers'[m] = workers[m]
        BY <2>11 DEF Taking, SameOthers, TypeOK
      <3>2. QED
        BY <2>2, <3>1, DefinitionsAssumption
    <2>12. QED
      BY <2>3, <2>4, <2>5, <2>6, <2>7, <2>8, <2>9, <2>10, <2>11 DEF Kind
  <1>4. QED
    BY <1>2, <1>3

\* A reset is over when the only worker that it could meet is.
LEMMA ResettingStep ==
  ASSUME TypeOK, Exclusive, Resetting, Kind
  PROVE  Resetting'
  <1> SUFFICES ASSUME NEW n \in Names, NEW i \in Slots, Alive(i)', worker'[i].name = n
               PROVE  /\ forgotten'[n] # "done"
                      /\ \A c \in Callers : forgotten'[n] = c /\ Resets(c, n)' => Hand(c)' = i
    BY DEF Resetting
  <1> DEFINE Alone == /\ forgotten[n] # "done"
                      /\ \A c \in Callers : forgotten[n] = c /\ Resets(c, n) => Hand(c) = i
             Done == /\ forgotten'[n] # "done"
                     /\ \A c \in Callers : forgotten'[n] = c /\ Resets(c, n)' => Hand(c)' = i
  <1>1. worker'[i] # None
    BY DEF Alive
  <1>2. ASSUME NEW names \in SUBSET Names, Beginning(names), n \in names PROVE Done
    BY <1>2, DefinitionsAssumption DEF Beginning
  <1>3. CASE worker[i] = None
    <2>1. PICK names \in SUBSET Names : Beginning(names) /\ \E m \in names : workers'[m] = i
      BY <1>1, <1>3, WorkersStay
    <2>2. n \in names
      BY <2>1 DEF Beginning
    <2>3. QED
      BY <1>2, <2>1, <2>2
  <1>4. CASE worker[i] # None
    <2>1. Alive(i) /\ worker[i].name = n
      BY <1>1, <1>4, WorkersStay
    <2>2. Alone
      BY <2>1 DEF Resetting
    <2>3. ASSUME SameHands, forgotten' = forgotten PROVE Done
      BY <2>2, <2>3 DEF SameHands
    <2>4. ASSUME NEW names \in SUBSET Names, Beginning(names) PROVE Done
      <3>1. CASE n \in names
        BY <1>2, <2>4, <3>1
      <3>2. CASE n \notin names
        BY <2>2, <2>4, <3>2 DEF Beginning, SameHands
      <3>3. QED
        BY <3>1, <3>2
    <2>5. CASE CancelAll \/ CloseRegistry \/ CloseReturns \/ CloseStore
      <3>1. UNCHANGED <<op, forgotten>>
        BY <2>5 DEF CancelAll, CloseRegistry, CloseReturns, CloseStore
      <3>2. QED
        BY <2>2, <3>1 DEF Hand, Resets
    <2>6. CASE Crash
      BY <1>1, <2>6 DEF Crash
    <2>7. ASSUME NEW c \in Callers, LettingGo(c) PROVE Done
      <3>1. /\ \A d \in Callers \ {c} : Hand(d)' = Hand(d) /\ (Resets(d, n)' => Resets(d, n))
            /\ ~Resets(c, n)' /\ Hand(c) # i
        BY <2>1, <2>7, DefinitionsAssumption DEF LettingGo, SameOthers
      <3>2. CASE forgotten' = forgotten
        BY <2>2, <3>1, <3>2
      <3>3. ASSUME NEW m \in Names, Resets(c, m),
                   forgotten' = [forgotten EXCEPT ![m] = IF @ = c THEN "done" ELSE @]
            PROVE  Done
        <4>1. forgotten'[n] = forgotten[n] \/ (m = n /\ forgotten[n] = c)
          BY <3>3 DEF TypeOK
        <4>2. ~(m = n /\ forgotten[n] = c)
          BY <2>2, <3>1, <3>3
        <4>3. QED
          BY <2>2, <3>1, <4>1, <4>2
      <3>4. QED
        BY <2>7, <3>2, <3>3 DEF LettingGo
    <2>8. ASSUME NEW c \in Callers, NEW m \in Names, Taking(c, m) PROVE Done
      <3>1. /\ \A d \in Callers \ {c} : Hand(d)' = Hand(d) /\ (Resets(d, n)' => Resets(d, n))
            /\ Hand(c)' = workers[m]
        BY <2>8 DEF Taking, SameOthers
      <3>2. CASE forgotten' = forgotten /\ \A k \in Names : ~Resets(c, k)'
        BY <2>2, <3>1, <3>2
      <3>3. CASE /\ forgotten' = [forgotten EXCEPT ![m] = IF Lingers(m) THEN "no" ELSE c]
                 /\ worker' = worker /\ \A k \in Names : Resets(c, k)' => k = m
        <4>1. CASE n = m
          <5>1. forgotten'[n] = (IF Lingers(n) THEN "no" ELSE c)
            BY <3>3, <4>1 DEF TypeOK
          <5>2. ~Lingers(n) => i = workers[n]
            BY <2>1 DEF Lingers
          <5>3. QED
            BY <3>1, <4>1, <5>1, <5>2, DefinitionsAssumption
        <4>2. CASE n # m
          BY <2>2, <3>1, <3>3, <4>2 DEF TypeOK
        <4>3. QED
          BY <4>1, <4>2
      <3>4. QED
        BY <2>8, <3>2, <3>3 DEF Taking
    <2>9. QED
      BY <2>3, <2>4, <2>5, <2>6, <2>7, <2>8 DEF Kind, Quietly, Telling, Working
  <1>5. QED
    BY <1>3, <1>4

\* No worker is left that could create the siphon again.
LEMMA ForgetStep ==
  ASSUME TypeOK, TypeOK', Resetting, ResetForgets, Kind
  PROVE  ResetForgets'
  <1> SUFFICES ASSUME NEW n \in Names, forgotten'[n] = "done" PROVE siphon'[n] = None
    BY DEF ResetForgets
  <1>1. CASE UNCHANGED <<siphon, forgotten>>
    BY <1>1 DEF ResetForgets
  <1>2. CASE Crash
    BY <1>2 DEF Crash, ResetForgets
  <1>3. ASSUME NEW names \in SUBSET Names, Beginning(names) PROVE siphon'[n] = None
    BY <1>3 DEF Beginning, ResetForgets
  <1>4. ASSUME NEW i \in Slots, Working(i) PROVE siphon'[n] = None
    <2>1. forgotten[n] = "done" /\ Alive(i) /\ siphon[n] = None
      BY <1>4 DEF Working, WorkerMoves, ResetForgets
    <2>2. worker[i].name # n
      BY <2>1 DEF Resetting
    <2>3. QED
      BY <1>4, <2>1, <2>2 DEF Working
  <1>5. ASSUME NEW c \in Callers, LettingGo(c) PROVE siphon'[n] = None
    <2>1. CASE \E m \in Names : /\ siphon' = [siphon EXCEPT ![m] = None]
                                /\ forgotten' = [forgotten EXCEPT ![m] = IF @ = c THEN "done" ELSE @]
      <3>1. PICK m \in Names : /\ siphon' = [siphon EXCEPT ![m] = None]
                               /\ forgotten' = [forgotten EXCEPT ![m] = IF @ = c THEN "done" ELSE @]
        BY <2>1
      <3>2. CASE m = n
        BY <3>1, <3>2 DEF TypeOK
      <3>3. CASE m # n
        BY <3>1, <3>3 DEF TypeOK, ResetForgets
      <3>4. QED
        BY <3>2, <3>3
    <2>2. QED
      BY <1>1, <1>5, <2>1 DEF LettingGo
  <1>6. ASSUME NEW c \in Callers, NEW m \in Names, Taking(c, m) PROVE siphon'[n] = None
    <2>1. CASE forgotten' = forgotten
      BY <1>1, <1>6, <2>1 DEF Taking
    <2>2. CASE forgotten' = [forgotten EXCEPT ![m] = IF Lingers(m) THEN "no" ELSE c]
      <3>1. m # n
        BY <2>2, DefinitionsAssumption DEF TypeOK
      <3>2. QED
        BY <1>6, <2>2, <3>1 DEF Taking, TypeOK, ResetForgets
    <2>3. QED
      BY <1>6, <2>1, <2>2 DEF Taking
  <1>7. QED
    BY <1>1, <1>2, <1>3, <1>4, <1>5, <1>6
       DEF Kind, Quietly, Telling, CancelAll, CloseRegistry, CloseReturns, CloseStore

\* All that lives when the store is closed was started too late.
LEMMA CloseStep ==
  ASSUME TypeOK, Exclusive, Cancelling, NoOrphan, NoCommandPastClose, Kind
  PROVE  NoCommandPastClose'
  <1> SUFFICES ASSUME running' = "stopped", NEW i \in Slots, worker'[i] # None
               PROVE  worker'[i].state # "running"
    BY DEF NoCommandPastClose
  <1>1. CASE CloseStore
    <2>1. running = "closed" /\ UNCHANGED worker /\ \A c \in Callers : op[c] = Idle
      BY <1>1 DEF CloseStore
    <2>2. closing = {} /\ \A n \in Names : workers[n] # None => worker[workers[n]].state # "running"
      BY <2>1 DEF Cancelling
    <2>3. ASSUME Alive(i) PROVE \E n \in Names : workers[n] = i
      BY <2>1, <2>2, <2>3 DEF NoOrphan, InHand
    <2>4. QED
      BY <2>1, <2>2, <2>3, DefinitionsAssumption DEF Alive
  <1>2. CASE ~CloseStore
    <2>1. running = "stopped"
      BY <1>2 DEF Kind, Quietly, CancelAll, CloseRegistry, CloseReturns, Crash,
                  Beginning, Working, Telling, LettingGo, Taking
    <2>2. worker[i] # None => worker[i].state # "running" /\ worker[i].cancelled
      BY <2>1 DEF NoCommandPastClose, Cancelling
    <2>3. QED
      BY <2>2, WorkersStay
  <1>3. QED
    BY <1>1, <1>2

-----------------------------------------------------------------------------
\* The worker of a name is what the accepted snapshot and the clients want.
Right(n) ==
  IF workers[n] = None THEN ~Enabled(accepted[n]) \/ n \in manualStop
  ELSE Enabled(accepted[n]) /\ worker[workers[n]].def = accepted[n] /\ n \notin manualStop

\* Starting a definition does what is wanted.
LEMMA StartIsRight ==
  ASSUME TypeOK, NEW n \in Names, StartDefinition(n), NEW m \in Names, Right(m),
         accepted' = accepted
  PROVE  Right(m)'
  <1>1. CASE UNCHANGED <<manualStop, workers, worker>>
    BY <1>1 DEF Right
  <1>2. CASE /\ workers[n] # None /\ manualStop' = manualStop \ {n} /\ UNCHANGED <<workers, worker>>
             /\ Enabled(accepted[n])
    BY <1>2 DEF Right
  <1>3. CASE /\ workers[n] = None /\ manualStop' = manualStop \ {n} /\ Enabled(accepted[n])
             /\ StartWorkers({n}, workers, worker, accepted, running # "started")
    <2> DEFINE late == running # "started"
    <2>1. accepted[n] \in Definitions /\ late \in BOOLEAN
      BY <1>3, SnapshotTyped DEF Enabled, TypeOK
    <2>2. Starts({n}, accepted, late)
      BY <1>3, <2>1, StartWorkersStarts
    <2> HIDE DEF late
    <2>3. CASE m = n
      <3>1. workers'[n] \in Slots /\ worker'[workers'[n]] = New(n, accepted[n], late)
        BY <2>2 DEF Starts
      <3>2. New(n, accepted[n], late).def = accepted[n]
        BY <2>1, NewTyped
      <3>3. QED
        BY <1>3, <2>3, <3>1, <3>2, DefinitionsAssumption DEF Right
    <2>4. CASE m # n
      <3>1. workers'[m] = workers[m]
        BY <2>2, <2>4 DEF Starts
      <3>2. workers[m] # None => worker'[workers[m]] = worker[workers[m]]
        BY <2>2 DEF Starts, TypeOK
      <3>3. QED
        BY <1>3, <2>4, <3>1, <3>2 DEF Right
    <2>5. QED
      BY <2>3, <2>4
  <1>4. QED
    BY <1>1, <1>2, <1>3 DEF StartDefinition

\* A worker that is told to stop, or let go of, is in no map; what a worker runs does not
\* change.
LEMMA DefsStay ==
  ASSUME TypeOK, Exclusive, NEW m \in Names, Right(m), UNCHANGED <<workers, accepted, manualStop>>,
         \/ \E i \in Slots : WorkerMoves(i)
         \/ \E c \in Callers : Telling(c) \/ LettingGo(c)
         \/ CancelAll
  PROVE  Right(m)'
  <1> SUFFICES ASSUME workers[m] # None
               PROVE  worker'[workers[m]].def = worker[workers[m]].def
    BY DEF Right
  <1>1. workers[m] \in Slots /\ worker[workers[m]] # None
    BY DEF TypeOK
  <1>2. ASSUME NEW i \in Slots, WorkerMoves(i) PROVE worker'[workers[m]].def = worker[workers[m]].def
    BY <1>1, <1>2 DEF WorkerMoves
  <1>3. ASSUME NEW c \in Callers, Telling(c) PROVE worker'[workers[m]].def = worker[workers[m]].def
    BY <1>1, <1>3, HandTyped, CancelledTyped DEF Telling, Exclusive
  <1>4. ASSUME NEW c \in Callers, LettingGo(c) PROVE worker'[workers[m]].def = worker[workers[m]].def
    BY <1>1, <1>4 DEF LettingGo, Exclusive
  <1>5. CASE CancelAll
    BY <1>1, <1>5, CancelAllMoves
  <1>6. QED
    BY <1>2, <1>3, <1>4, <1>5

\* Whoever takes the lock gives it back with everything as it was accepted.
LEMMA AcceptedStep ==
  ASSUME TypeOK, Positions, Exclusive, Reloading, Off, OnlyAcceptedRuns, [Next]_vars
  PROVE  OnlyAcceptedRuns'
  <1> SUFFICES ASSUME Started', Unlocked'
               PROVE  accepted' \in {disk', Nothing} /\ \A n \in Names : Right(n)'
    BY DEF OnlyAcceptedRuns, Right
  <1> DEFINE Goal == accepted' \in {disk', Nothing} /\ \A n \in Names : Right(n)'
  <1>1. ASSUME Started, Unlocked
        PROVE  accepted \in {disk, Nothing} /\ \A n \in Names : Right(n)
    BY <1>1 DEF OnlyAcceptedRuns, Right
  <1>2. ASSUME Started, Unlocked, UNCHANGED <<disk, accepted, workers, worker, manualStop>> PROVE Goal
    BY <1>1, <1>2 DEF Right
  <1>3. ASSUME UNCHANGED <<running, lock, disk, accepted, workers, worker, manualStop>> PROVE Goal
    BY <1>2, <1>3 DEF Started, Unlocked
  <1>4. CASE Edit \/ UNCHANGED vars
    BY <1>3, <1>4 DEF Edit, vars, registry
  <1>5. CASE Boot
    <2>1. /\ manualStop' = {} /\ \A n \in Names : workers[n] = None
          /\ accepted' \in {disk', Nothing} /\ accepted' \in Snapshots \cup {Nothing}
          /\ Starts(Missing(accepted', workers, {}), accepted', FALSE)
      BY <1>5, BootStarts DEF Boot, Off
    <2>2. ASSUME NEW n \in Names PROVE Right(n)'
      <3>1. n \in Missing(accepted', workers, {}) <=> Enabled(accepted'[n])
        BY <2>1 DEF Missing
      <3>2. CASE Enabled(accepted'[n])
        <4>1. accepted'[n] \in Definitions
          BY <2>1, <3>2, SnapshotTyped DEF Enabled
        <4>2. workers'[n] \in Slots /\ worker'[workers'[n]] = New(n, accepted'[n], FALSE)
          BY <2>1, <3>1, <3>2 DEF Starts
        <4>3. New(n, accepted'[n], FALSE).def = accepted'[n]
          BY <4>1, NewTyped
        <4>4. QED
          BY <2>1, <3>2, <4>2, <4>3, DefinitionsAssumption DEF Right, Enabled
      <3>3. CASE ~Enabled(accepted'[n])
        <4>1. workers'[n] = None
          BY <2>1, <3>1, <3>3 DEF Starts
        <4>2. QED
          BY <3>3, <4>1 DEF Right, Enabled
      <3>4. QED
        BY <3>2, <3>3
    <2>3. QED
      BY <2>1, <2>2
  <1>6. CASE CancelAll
    <2>1. Started /\ Unlocked /\ UNCHANGED <<disk, accepted, workers, manualStop>>
      BY <1>6 DEF CancelAll, Started, Unlocked
    <2>2. QED
      BY <1>1, <1>6, <2>1, DefsStay
  <1>7. CASE CloseRegistry \/ CloseReturns \/ CloseStore \/ Crash
    BY <1>7 DEF CloseRegistry, CloseReturns, CloseStore, Crash, Started
  <1>8. ASSUME NEW i \in Slots, WorkerStep(i) PROVE Goal
    <2>1. WorkerMoves(i) /\ UNCHANGED <<running, lock, disk, accepted, workers, manualStop>>
      BY <1>8, WorkerStepMoves DEF WorkerFrame
    <2>2. QED
      BY <1>1, <2>1, DefsStay DEF Started, Unlocked
  <1>9. ASSUME NEW c \in Callers, CallStart(c) \/ RestartReturns(c) PROVE Goal
    <2>1. PICK n \in Names : StartDefinition(n)
      BY <1>9, OpTyped DEF CallStart, RestartReturns, Stoppings
    <2>2. UNCHANGED <<running, lock, disk, accepted>>
      BY <1>9 DEF CallStart, RestartReturns
    <2>3. QED
      BY <1>1, <2>1, <2>2, StartIsRight DEF Started, Unlocked
  <1>10. ASSUME NEW c \in Callers, CallStop(c) \/ CallReset(c) PROVE Goal
    <2>1. PICK n \in Names, what \in {"stop", "restart", "reset"} : TakeWorker(c, n, what)
      BY <1>10 DEF CallStop, CallReset
    <2>2. /\ UNCHANGED <<running, lock, disk, accepted, worker>>
          /\ manualStop' = manualStop \cup {n} /\ workers' = [workers EXCEPT ![n] = None]
      BY <1>10, <2>1 DEF CallStop, CallReset, TakeWorker
    <2>3. QED
      BY <1>1, <2>2 DEF Started, Unlocked, Right, TypeOK
  <1>11. ASSUME NEW c \in Callers, Cancel(c) PROVE Goal
    <2>1. UNCHANGED <<running, lock, disk, accepted, workers, manualStop>>
      BY <1>11 DEF Cancel
    <2>2. op[c] # Idle /\ op[c].taken \in Slots /\ op[c].taken # None
          /\ worker' = Cancelled(op[c].taken)
      BY <1>11, CancelMoves DEF Cancel
    <2>3. ASSUME NEW n \in Names, Right(n) PROVE Right(n)'
      <3>1. /\ worker[op[c].taken] # None /\ workers[n] # op[c].taken
            /\ workers[n] # None => workers[n] \in Slots
        BY <2>2 DEF Exclusive, Hand, TypeOK
      <3>2. workers[n] # None => worker'[workers[n]] = worker[workers[n]]
        BY <2>2, <3>1, CancelledTyped
      <3>3. QED
        BY <2>1, <2>3, <3>2 DEF Right
    <2>4. QED
      BY <1>1, <2>1, <2>3 DEF Started, Unlocked
  <1>12. ASSUME NEW c \in Callers, StopReturns(c) \/ RestartContinues(c) \/ ResetReturns(c) PROVE Goal
    <2>1. UNCHANGED <<running, lock, disk, accepted, workers, manualStop>>
      BY <1>12 DEF StopReturns, RestartContinues, ResetReturns
    <2>2. LettingGo(c)
      BY <1>12, LetGoKinds
    <2>3. QED
      BY <1>1, <2>1, <2>2, DefsStay DEF Started, Unlocked
  <1>13. ASSUME NEW c \in Callers, LoadCandidate(c) \/ ReloadRefused(c) PROVE Goal
    BY <1>3, <1>13 DEF LoadCandidate, ReloadRefused, registry
  <1>14. ASSUME NEW c \in Callers, WriteSnapshot(c) PROVE Goal
    <2>1. lock' # c
      BY DefinitionsAssumption DEF Unlocked
    <2>2. UNCHANGED <<running, lock, disk, accepted, workers, worker, manualStop>>
      BY <1>14, <2>1 DEF WriteSnapshot
    <2>3. QED
      BY <1>3, <2>2
  <1>15. ASSUME NEW c \in Callers, Accept(c) \/ Replace(c) \/ Replaced(c) PROVE Goal
    <2>1. Committed(c) /\ lock' = lock
      BY <1>15 DEF Accept, Replace, Replaced, Committed
    <2>2. lock = c
      BY <2>1 DEF Reloading, Committed
    <2>3. QED
      BY <2>1, <2>2, DefinitionsAssumption DEF Unlocked
  <1>16. ASSUME NEW c \in Callers, ReloadReturns(c) PROVE Goal
    <2>1. /\ op[c] # Idle /\ op[c].at = "reconcile" /\ \A n \in Names : ~Obsolete(n)
          /\ UNCHANGED <<disk, accepted, manualStop>>
      BY <1>16 DEF ReloadReturns
    <2>2. accepted = disk /\ manualStop = {}
      BY <2>1 DEF Reloading
    <2> DEFINE late == running # "started"
    <2>3. /\ Starts(Missing(accepted, workers, manualStop), accepted, late)
          /\ late \in BOOLEAN
          /\ \A n \in Missing(accepted, workers, manualStop) : accepted[n] \in Definitions
      BY <1>16, ReloadReturnsStarts
    <2> HIDE DEF late
    <2>4. ASSUME NEW n \in Names PROVE Right(n)'
      <3>1. n \in Missing(accepted, workers, manualStop) <=> Enabled(accepted[n]) /\ workers[n] = None
        BY <2>2 DEF Missing
      <3>2. CASE Enabled(accepted[n]) /\ workers[n] = None
        <4>1. workers'[n] \in Slots /\ worker'[workers'[n]] = New(n, accepted[n], late)
          BY <2>3, <3>1, <3>2 DEF Starts
        <4>2. New(n, accepted[n], late).def = accepted[n]
          BY <2>3, <3>1, <3>2, NewTyped
        <4>3. QED
          BY <2>1, <2>2, <3>2, <4>1, <4>2, DefinitionsAssumption DEF Right
      <3>3. CASE ~(Enabled(accepted[n]) /\ workers[n] = None)
        <4>1. workers'[n] = workers[n]
          BY <2>3, <3>1, <3>3 DEF Starts
        <4>2. workers[n] # None => worker'[workers[n]] = worker[workers[n]]
          BY <2>3 DEF Starts, TypeOK
        <4>3. QED
          BY <2>1, <2>2, <3>3, <4>1, <4>2 DEF Right, Obsolete
      <3>4. QED
        BY <3>2, <3>3
    <2>5. QED
      BY <2>1, <2>2, <2>4
  <1>17. QED
    BY <1>4, <1>5, <1>6, <1>7, <1>8, <1>9, <1>10, <1>11, <1>12, <1>13, <1>14, <1>15, <1>16, Steps

-----------------------------------------------------------------------------
\* The invariant holds in every behaviour of a registry.
THEOREM RegistryInvariance == Spec => []IInv
  <1>1. Init => IInv
    BY InitInvariant
  <1>2. ASSUME IInv, [Next]_vars PROVE IInv'
    <2>1. Positions' /\ Kind
      BY <1>2, Kinds DEF IInv
    <2>2. TypeOK'
      BY <1>2, TypeStep DEF IInv
    <2>3. Exclusive'
      BY <1>2, <2>1, <2>2, ExclusiveStep DEF IInv
    <2>4. Reloading' /\ Off' /\ OnlyAcceptedRuns'
      BY <1>2, <2>1, LockStep, OffStep, AcceptedStep DEF IInv
    <2>5. Cancelling' /\ Resetting' /\ NoOrphan' /\ ResetForgets' /\ NoCommandPastClose'
      BY <1>2, <2>1, <2>2, CancellingStep, ResettingStep, OrphanStep, ForgetStep, CloseStep DEF IInv
    <2>6. QED
      BY <2>1, <2>2, <2>3, <2>4, <2>5 DEF IInv
  <1>3. QED
    BY <1>1, <1>2, PTL DEF Spec

\* The map is a map of workers of their names, and only a committed reload holds the lock
\* from one step to the next.
THEOREM RegistryTypes == Spec => []TypeOK
  <1>1. IInv => TypeOK
    BY DEF IInv
  <1>2. QED
    BY <1>1, RegistryInvariance, PTL

\* With the lock free, exactly the enabled definitions of the accepted snapshot that no
\* client stopped have workers, and the snapshot is the one on disk (Reload,
\* reconcileLocked, StartDefinition, StopDefinition, Start).
THEOREM AcceptedRuns == Spec => []OnlyAcceptedRuns
  <1>1. IInv => OnlyAcceptedRuns
    BY DEF IInv
  <1>2. QED
    BY <1>1, RegistryInvariance, PTL

\* Whatever clients, reloads and Close do at once, somebody knows of each worker that
\* lives (StopDefinition, ResetDefinition, reconcileLocked, Close).
THEOREM NobodyIsForgotten == Spec => []NoOrphan
  <1>1. IInv => NoOrphan
    BY DEF IInv
  <1>2. QED
    BY <1>1, RegistryInvariance, PTL

\* After a reset that nothing disturbed no worker creates the siphon again
\* (ResetDefinition, runConsumer).
THEOREM ResetsForget == Spec => []ResetForgets
  <1>1. IInv => ResetForgets
    BY DEF IInv
  <1>2. QED
    BY <1>1, RegistryInvariance, PTL

\* No command of a worker runs when the store is closed (Close of the registry and of the
\* daemon).
THEOREM NothingRunsPastClose == Spec => []NoCommandPastClose
  <1>1. IInv => NoCommandPastClose
    BY DEF IInv
  <1>2. QED
    BY <1>1, RegistryInvariance, PTL
=============================================================================
