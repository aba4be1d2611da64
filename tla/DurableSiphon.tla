---------------------------- MODULE DurableSiphon ----------------------------
(***************************************************************************)
(* One named durable siphon over the daemon's arrival log: a cursor and at *)
(* most one outstanding batch, both persisted; long polls that sleep on a  *)
(* wake channel; consumers that process a batch and then acknowledge it by *)
(* delivery ID, that fail half-way, and that may share the siphon.         *)
(* (core/daemon/durable_siphon.go; the consumer is internal/registry's     *)
(* worker or a client of the durable_siphon actions.)                      *)
(*                                                                         *)
(* The log is EventLog, which EventStore implements. Every operation below *)
(* runs in one transaction under durableMu, hence is one step; siphons of  *)
(* other names share nothing with this one but that mutex and the channel. *)
(***************************************************************************)
EXTENDS Naturals, Sequences, FiniteSets, FiniteSetsExt

CONSTANTS
  Keys,         \* network/event ID pairs
  Arrivals,     \* the entries that may arrive: [key, envelope]
  Home, Wanted, \* network and streams of the siphon
  Consumers,
  Limits,       \* batch limits that consumers ask for
  MaxArrivals,  \* bound: length of the log
  MaxCreates,   \* bound: how often the siphon is created
  MaxFailures,  \* bound: how often a delivery or the daemon fails
  NoSiphon, NoBatch, NoKey

\* An arrival of another network leaves a gap in this network's index; a
\* conflict resolution supersedes the event it names.
Envelopes == {e.envelope : e \in Arrivals}

ASSUME ArrivalsAssumption ==
  \A e \in Arrivals : /\ e.key \in Keys
                      /\ {"network", "stream", "resolves"} = DOMAIN e.envelope
                      /\ e.envelope.resolves \in Keys \cup {NoKey}

ASSUME LimitsAssumption ==
  /\ Limits \subseteq Nat \ {0}
  /\ MaxArrivals \in Nat /\ MaxCreates \in Nat /\ MaxFailures \in Nat

ASSUME AbsenceAssumption == NoKey \notin Keys

VARIABLES
  log,        \* the arrival log
  unsignalled,\* handlers that stored an event and have yet to signal
  siphon,     \* the stored definition: [cursor, pending], or NoSiphon
  begin,      \* the cursor it was created with (history)
  backlog,    \* how long the log was when it was created (history)
  creates,    \* how often it was created
  issued,     \* delivery IDs used so far: IDs are random, hence fresh
  pc,         \* what each consumer is doing
  woken,      \* the wake channel that a poll took has been closed
  held,       \* the delivery a consumer was given
  handled,    \* the batches consumers have processed in full (history)
  failures

arriving  == <<log, unsignalled>>
consumers == <<pc, woken, held>>
creation  == <<begin, backlog, creates>>
vars == <<log, unsignalled, siphon, begin, backlog, creates, issued, pc, woken, held,
          handled, failures>>

Store == INSTANCE EventLog

-----------------------------------------------------------------------------
(* The siphon's view of the arrival index. *)

InNetwork(s)  == log[s].envelope.network = Home
Selected(s)   == InNetwork(s) /\ log[s].envelope.stream \in Wanted
Superseded(s) == \E t \in 1..Len(log) : InNetwork(t) /\ log[t].envelope.resolves = log[s].key

\* Mutant: the scan starts at the cursor itself.
Unread_FromCursor(cursor) == {s \in 1..Len(log) : s >= cursor /\ InNetwork(s)}

\* The index entries after the cursor.
Unread(cursor) == {s \in 1..Len(log) : s > cursor /\ InNetwork(s)}

Matches(cursor) == {s \in Unread(cursor) : Selected(s) /\ ~Superseded(s)}

\* Mutant: a batch is made without looking whether anything goes into it.
Found_Always(cursor) == Matches(cursor) # {} \/ Unread(cursor) # {}

\* Some event goes into a batch.
Found(cursor) == Matches(cursor) # {}

\* The first limit matches, or all of them.
FirstMatches(cursor, limit) ==
  {s \in Matches(cursor) : Cardinality({t \in Matches(cursor) : t <= s}) <= limit}

\* Where the scan stops: at the limit-th match or at the end of the index.
Through(cursor, limit) ==
  IF Cardinality(Matches(cursor)) >= limit THEN Max(FirstMatches(cursor, limit))
                                           ELSE Max(Unread(cursor) \cup {cursor})

-----------------------------------------------------------------------------
Init ==
  /\ Store!Init
  /\ unsignalled = 0
  /\ siphon  = NoSiphon
  /\ begin   = 0
  /\ backlog = 0
  /\ creates = 0
  /\ issued  = 0
  /\ pc      = [c \in Consumers |-> "idle"]
  /\ woken   = [c \in Consumers |-> FALSE]
  /\ held    = [c \in Consumers |-> NoBatch]
  /\ handled = {}
  /\ failures = 0

\* An event is stored; the handler signals later, and no mutex covers both.
Arrive ==
  /\ Len(log) < MaxArrivals
  /\ \E e \in Arrivals : Store!Arrive(e)
  /\ unsignalled' = unsignalled + 1
  /\ UNCHANGED <<siphon, creation, issued, consumers, handled, failures>>

\* signalDurableSiphons closes the channel everybody holds and makes a new one.
Signal ==
  /\ unsignalled > 0
  /\ unsignalled' = unsignalled - 1
  /\ woken' = [c \in Consumers |-> pc[c] \in {"watching", "empty", "waiting"}]
  /\ UNCHANGED <<log, siphon, creation, issued, pc, held, handled, failures>>

\* Creating a siphon that exists returns it as it is and is a stuttering step.
Create ==
  /\ siphon = NoSiphon /\ creates < MaxCreates
  /\ begin' \in {0, Len(log)}
  /\ siphon' = [cursor |-> begin', pending |-> NoBatch]
  /\ backlog' = Len(log)
  /\ creates' = creates + 1
  /\ UNCHANGED <<arriving, issued, consumers, handled, failures>>

Delete ==
  /\ siphon # NoSiphon
  /\ siphon' = NoSiphon
  /\ UNCHANGED <<arriving, creation, issued, consumers, handled, failures>>

-----------------------------------------------------------------------------
(* A long poll. *)

Goes(c, state) == pc' = [pc EXCEPT ![c] = state]

\* The poll is over and drops its channel.
Returns(c, state) == Goes(c, state) /\ woken' = [woken EXCEPT ![c] = FALSE]

\* The channel is taken before the store is read.
TakeWake(c) ==
  /\ pc[c] = "idle"
  /\ Goes(c, "watching")
  /\ UNCHANGED <<arriving, siphon, creation, issued, woken, held, handled, failures>>

Given(c, batch) == Returns(c, "working") /\ held' = [held EXCEPT ![c] = batch]

\* Mutant: a batch handed out once is not handed out again.
Replay_Never(c) ==
  /\ pc[c] = "watching" /\ siphon # NoSiphon
  /\ siphon.pending # NoBatch
  /\ Goes(c, "empty")
  /\ UNCHANGED <<arriving, siphon, creation, issued, woken, held, handled, failures>>

\* The outstanding batch again (its attempt count is left out).
Replay(c) ==
  /\ pc[c] = "watching" /\ siphon # NoSiphon
  /\ siphon.pending # NoBatch
  /\ Given(c, siphon.pending)
  /\ UNCHANGED <<arriving, siphon, creation, issued, handled, failures>>

\* A new batch becomes outstanding; the cursor does not move yet.
Prepare(c) ==
  /\ pc[c] = "watching" /\ siphon # NoSiphon
  /\ siphon.pending = NoBatch
  /\ Found(siphon.cursor)
  /\ \E limit \in Limits :
       LET batch == [id      |-> issued + 1,
                     of      |-> creates,
                     through |-> Through(siphon.cursor, limit),
                     seqs    |-> FirstMatches(siphon.cursor, limit)]
       IN  /\ siphon' = [siphon EXCEPT !.pending = batch]
           /\ Given(c, batch)
  /\ issued' = issued + 1
  /\ UNCHANGED <<arriving, creation, handled, failures>>

\* Nothing for the consumer: the cursor passes what the siphon does not want.
FindNothing(c) ==
  /\ pc[c] = "watching" /\ siphon # NoSiphon
  /\ siphon.pending = NoBatch
  /\ ~Found(siphon.cursor)
  /\ siphon' = [siphon EXCEPT !.cursor = Max(Unread(siphon.cursor) \cup {siphon.cursor})]
  /\ Goes(c, "empty")
  /\ UNCHANGED <<arriving, creation, issued, woken, held, handled, failures>>

\* Polling a siphon that does not exist is an error; the consumer tries again.
PollRefused(c) ==
  /\ pc[c] = "watching" /\ siphon = NoSiphon
  /\ Returns(c, "idle")
  /\ UNCHANGED <<arriving, siphon, creation, issued, held, handled, failures>>

\* Mutant: the channel is taken only now that the poll came back empty.
Sleep_TakesWakeLate(c) ==
  /\ pc[c] = "empty"
  /\ Goes(c, "waiting")
  /\ woken' = [woken EXCEPT ![c] = FALSE]
  /\ UNCHANGED <<arriving, siphon, creation, issued, held, handled, failures>>

\* The select on the channel taken before the poll and on the deadline.
Sleep(c) ==
  /\ pc[c] = "empty"
  /\ Goes(c, "waiting")
  /\ UNCHANGED <<arriving, siphon, creation, issued, woken, held, handled, failures>>

Wake(c) ==
  /\ pc[c] = "waiting" /\ woken[c]
  /\ Returns(c, "idle")
  /\ UNCHANGED <<arriving, siphon, creation, issued, held, handled, failures>>

\* The wait of the request is over; the consumer polls again.
Deadline(c) ==
  /\ pc[c] = "waiting"
  /\ Returns(c, "idle")
  /\ UNCHANGED <<arriving, siphon, creation, issued, held, handled, failures>>

-----------------------------------------------------------------------------
(* Processing and acknowledgement. *)

Process(c) ==
  /\ pc[c] = "working"
  /\ handled' = handled \cup {held[c]}
  /\ Goes(c, "acking")
  /\ UNCHANGED <<arriving, siphon, creation, issued, woken, held, failures>>

\* Mutant: any acknowledgement confirms the outstanding batch.
Confirms_AnyID(batch) == siphon # NoSiphon /\ siphon.pending # NoBatch /\ batch # NoBatch

\* The delivery ID is that of the outstanding batch.
Confirms(batch) ==
  /\ siphon # NoSiphon
  /\ siphon.pending # NoBatch
  /\ siphon.pending.id = batch.id

Acknowledged(s) == [cursor |-> s.pending.through, pending |-> NoBatch]

\* The consumer goes on polling whether or not the daemon took the ID.
Acknowledge(c) ==
  /\ pc[c] = "acking"
  /\ siphon' = IF Confirms(held[c]) THEN Acknowledged(siphon) ELSE siphon
  /\ Goes(c, "idle")
  /\ held' = [held EXCEPT ![c] = NoBatch]
  /\ UNCHANGED <<arriving, creation, issued, woken, handled, failures>>

\* A consumer crashes or its processor exits with an error.
Fail(c) ==
  /\ pc[c] # "idle" /\ failures < MaxFailures
  /\ Returns(c, "idle")
  /\ held' = [held EXCEPT ![c] = NoBatch]
  /\ failures' = failures + 1
  /\ UNCHANGED <<arriving, siphon, creation, issued, handled>>

\* The daemon restarts: polls are cut, signals not given are lost with the
\* handlers. A client at work on a batch lives on and acknowledges later.
Restart ==
  /\ failures < MaxFailures
  /\ failures' = failures + 1
  /\ unsignalled' = 0
  /\ pc' = [c \in Consumers |-> IF pc[c] \in {"watching", "empty", "waiting"} THEN "idle" ELSE pc[c]]
  /\ woken' = [c \in Consumers |-> FALSE]
  /\ UNCHANGED <<log, siphon, creation, issued, held, handled>>

Poll(c) == Replay(c) \/ Prepare(c) \/ FindNothing(c) \/ PollRefused(c)

Next ==
  \/ Arrive \/ Signal \/ Create \/ Delete \/ Restart
  \/ \E c \in Consumers :
       \/ TakeWake(c) \/ Poll(c) \/ Sleep(c) \/ Wake(c) \/ Deadline(c)
       \/ Process(c) \/ Acknowledge(c) \/ Fail(c)

\* Goroutines make progress, timers fire and handlers that stored an event get
\* to signal. Nothing is assumed of arrivals, creations and deletions.
Fairness ==
  /\ WF_vars(Signal)
  /\ \A c \in Consumers :
       /\ WF_vars(TakeWake(c)) /\ WF_vars(Poll(c)) /\ WF_vars(Sleep(c))
       /\ WF_vars(Wake(c) \/ Deadline(c))
       /\ WF_vars(Process(c))  /\ WF_vars(Acknowledge(c))

Spec == Init /\ [][Next]_vars /\ Fairness

-----------------------------------------------------------------------------
(* Properties. *)

Batches ==
  [id : 1..issued, of : 1..creates, through : 1..Len(log), seqs : (SUBSET (1..Len(log))) \ {{}}]

TypeOK ==
  /\ log \in Seq(Arrivals)
  /\ unsignalled \in 0..Len(log)
  /\ siphon \in [cursor : 0..Len(log), pending : Batches \cup {NoBatch}] \cup {NoSiphon}
  /\ begin \in {0, backlog} /\ backlog \in 0..Len(log)
  /\ creates \in 0..MaxCreates
  /\ issued \in Nat
  /\ pc \in [Consumers -> {"idle", "watching", "empty", "waiting", "working", "acking"}]
  /\ woken \in [Consumers -> BOOLEAN]
  /\ held \in [Consumers -> Batches \cup {NoBatch}]
  /\ \A c \in Consumers : IF pc[c] \in {"working", "acking"} THEN held[c] \in Batches
                                                            ELSE held[c] = NoBatch
  /\ handled \subseteq Batches
  /\ failures \in 0..MaxFailures

Handled(s) == \E b \in handled : b.of = creates /\ s \in b.seqs

\* The cursor never passes an event of the siphon's streams that no consumer
\* has processed since the siphon was created, unless a conflict resolution
\* supersedes it: whatever polls, late acknowledgements, failures and restarts
\* did, replay leaves no gap (prepareDurableDelivery, acknowledgeDurableSiphon).
NothingSkipped ==
  siphon # NoSiphon =>
    \A s \in begin + 1 .. siphon.cursor : Selected(s) => Handled(s) \/ Superseded(s)

\* What lies at or before the acknowledged cursor is never delivered again,
\* and the cursor of a living siphon never moves back.
AcknowledgedStaysDone ==
  [][siphon # NoSiphon /\ siphon' # NoSiphon =>
       /\ siphon'.cursor >= siphon.cursor
       /\ siphon'.pending # NoBatch => \A s \in siphon'.pending.seqs : s > siphon.cursor]_vars

\* No wakeup is lost: a poll that sleeps, with no signal given or on its way,
\* has not missed an event stored since the siphon was created, whether that
\* was stored before, while or after the poll looked. (A poll asleep since
\* before the siphon was deleted and created again learns of the backlog when
\* its wait is over: creation does not signal.)
NoLostWakeup ==
  \A c \in Consumers :
    (/\ pc[c] = "waiting" /\ ~woken[c] /\ unsignalled = 0
     /\ siphon # NoSiphon /\ siphon.pending = NoBatch)
      => \A s \in Matches(siphon.cursor) : s <= backlog

Owed(s) ==
  /\ siphon # NoSiphon
  /\ s \in begin + 1 .. Len(log)
  /\ Selected(s) /\ ~Handled(s) /\ ~Superseded(s)

\* Every event a siphon owes is processed in the end, unless the siphon is
\* deleted or a resolution supersedes the event: at-least-once delivery past
\* failing consumers and restarts.
EveryMatchDelivered == \A s \in 1..MaxArrivals : Owed(s) ~> ~Owed(s)
=============================================================================
