------------------------------- MODULE MeshSync -------------------------------
(***************************************************************************)
(* Replication of one network between daemons: authenticated sessions that *)
(* first push and then pull an inventory page by page, the quarantine of   *)
(* events that share an ID and differ in content, and the preserve-both    *)
(* resolution, which supersedes such an ID everywhere and has every daemon *)
(* copy its own variant to a recovered ID of its own.                      *)
(* (core/daemon/sync.go, conflicts.go and ingestReplicated.)               *)
(*                                                                         *)
(* Sessions of several initiators, local ingestion and resolution          *)
(* interleave between any two frames; a stream may be cut and a daemon may *)
(* restart at any point. Stamps and payloads are left out: what tells two  *)
(* variants of an ID apart is the device that made them (an envelope holds *)
(* its device ID).                                                         *)
(***************************************************************************)
EXTENDS Naturals, FiniteSets, FiniteSetsExt

CONSTANTS
  Nodes,
  Ids,          \* event IDs that clients choose
  Ingests,      \* <<n, x>>: a client of n may ingest x
  Resolvers,    \* the nodes whose user resolves conflicts
  Dials,        \* <<i, r>>: i remembers r as a mesh peer
  Position(_),  \* of an event ID in the event-ID index, above 0
  PageSize,
  MaxFaults,    \* bound: streams cut and daemons restarted
  NoSession, NoId

\* An event of a client, the resolution of x by a node, or the recovered copy
\* of by's variant of x.
Events == [kind : {"event", "resolution", "recovered"}, of : Ids, by : Nodes]

Variant(x, n)    == [kind |-> "event", of |-> x, by |-> n]
Resolution(x, n) == [kind |-> "resolution", of |-> x, by |-> n]
Recovered(x, n)  == [kind |-> "recovered", of |-> x, by |-> n]

\* Resolution IDs are random and recovered IDs name the content: only the IDs
\* that clients choose can collide.
SameId(e, f) == e.kind = f.kind /\ e.of = f.of /\ (e.kind = "event" \/ e.by = f.by)

\* What a session knows: whom it talks to, how far it is, the page at hand and, when
\* it has stored a resolution, the ID to recover.
Sessions ==
  [peer : Nodes, phase : {"push", "pull"}, step : {"page", "compare", "store", "recover"},
   cursor : Nat, more : BOOLEAN, page : SUBSET Events, recovering : Ids \cup {NoId}]

ASSUME InputsAssumption ==
  /\ Ingests \subseteq Nodes \X Ids
  /\ Resolvers \subseteq Nodes
  /\ Dials \subseteq {d \in Nodes \X Nodes : d[1] # d[2]}
  /\ PageSize \in Nat \ {0} /\ MaxFaults \in Nat
  /\ NoId \notin Ids /\ NoSession \notin Sessions
  /\ IsFiniteSet(Nodes) /\ IsFiniteSet(Ids)

ASSUME PositionAssumption ==
  \A e, f \in Events : Position(e) \in Nat \ {0} /\ (Position(e) = Position(f) <=> SameId(e, f))

VARIABLES
  store,    \* the events of each node
  observed, \* event-conflict-v1: the conflicting IDs each node noticed
  tasks,    \* work on conflicting IDs that a node has begun: <<step, ID>>
  session,  \* the synchronization each node has initiated
  late,     \* <<n, x>>: x came to n after its resolution (history)
  faults

vars == <<store, observed, tasks, session, late, faults>>

\* A resolution decided on but not recorded; a recovery to follow a resolution;
\* a recovery that is part of starting the daemon.
Tasks == {"decide", "recover", "reconcile"} \X Ids

Init ==
  /\ store    = [n \in Nodes |-> {}]
  /\ observed = [n \in Nodes |-> {}]
  /\ tasks    = [n \in Nodes |-> {}]
  /\ session  = [n \in Nodes |-> NoSession]
  /\ late     = {}
  /\ faults   = 0

-----------------------------------------------------------------------------
(* One node. *)

Resolved(n, x) == \E e \in store[n] : e.kind = "resolution" /\ e.of = x

\* What queries and inventories show.
Visible(n) == {e \in store[n] : ~(e.kind = "event" /\ Resolved(n, e.of))}

\* findEventByID
Known(n, e) == \E f \in store[n] : SameId(e, f)

\* Mutant: content is not compared with what has the ID already.
Conflicts_Never(n, e) == FALSE

Conflicts(n, e) == \E f \in store[n] : SameId(e, f) /\ f # e

\* A transaction of ingestInternal or ingestReplicated that stores e, if e is new.
StoreEvent(n, e) ==
  /\ store' = [store EXCEPT ![n] = @ \cup {e}]
  /\ late'  = IF e.kind = "event" /\ ~Known(n, e) /\ Resolved(n, e.of)
              THEN late \cup {<<n, e.of>>} ELSE late

\* The copies that materializeConflictVariant stores: none if x is not here.
RecoveredAt(n, x) == {Recovered(x, e.by) : e \in {f \in store[n] : f.kind = "event" /\ f.of = x}}

Materialize(n, x) == store' = [store EXCEPT ![n] = @ \cup RecoveredAt(n, x)]

\* Reconciliation comes before the daemon takes requests or dials anybody; the
\* stream handlers for its peers are there already.
Started(n) == \A x \in Ids : <<"reconcile", x>> \notin tasks[n]

\* A client of n ingests x; if x is stored the request is a retry or refused.
IngestLocal(n, x) ==
  /\ Started(n) /\ <<n, x>> \in Ingests
  /\ ~Known(n, Variant(x, n))
  /\ StoreEvent(n, Variant(x, n))
  /\ UNCHANGED <<observed, tasks, session, faults>>

\* resolveEventConflict finds out whether the observed conflict is resolved.
Resolve(n, x) ==
  /\ Started(n) /\ n \in Resolvers
  /\ x \in observed[n] \/ Resolved(n, x)
  /\ Known(n, Variant(x, n))
  /\ tasks' = [tasks EXCEPT ![n] = @ \cup {<<IF Resolved(n, x) THEN "recover" ELSE "decide", x>>}]
  /\ UNCHANGED <<store, observed, session, late, faults>>

\* It was not: the decision is recorded, be it that another one came in since.
Decide(n, x) ==
  /\ <<"decide", x>> \in tasks[n]
  /\ StoreEvent(n, Resolution(x, n))
  /\ tasks' = [tasks EXCEPT ![n] = (@ \ {<<"decide", x>>}) \cup {<<"recover", x>>}]
  /\ UNCHANGED <<observed, session, faults>>

\* materializeConflictVariant, whoever called it.
Recover(n, x) ==
  /\ \E step \in {"recover", "reconcile"} :
       /\ <<step, x>> \in tasks[n]
       /\ tasks' = [tasks EXCEPT ![n] = @ \ {<<step, x>>}]
  /\ Materialize(n, x)
  /\ UNCHANGED <<observed, session, late, faults>>

-----------------------------------------------------------------------------
(* A session. In the push phase the initiator is the source and its peer the *)
(* sink, in the pull phase the other way round.                              *)

Source(i) == IF session[i].phase = "push" THEN i ELSE session[i].peer
Sink(i)   == IF session[i].phase = "push" THEN session[i].peer ELSE i

At(i, step) == session[i] # NoSession /\ session[i].step = step

Fresh(peer, phase) ==
  [peer |-> peer, phase |-> phase, step |-> "page", cursor |-> 0, more |-> FALSE,
   page |-> {}, recovering |-> NoId]

\* Mutant: the session is over after the push.
NextPhase_PushOnly(s) == NoSession

NextPhase(s) == IF s.phase = "push" THEN Fresh(s.peer, "pull") ELSE NoSession

\* The page is done: on to the next one, the other phase or the end.
NextPage(s) == IF s.more THEN [s EXCEPT !.step = "page", !.page = {}] ELSE NextPhase(s)

First(events, limit) ==
  {e \in events : Cardinality({f \in events : Position(f) <= Position(e)}) <= limit}

Open(i, r) ==
  /\ Started(i) /\ <<i, r>> \in Dials /\ session[i] = NoSession
  /\ session' = [session EXCEPT ![i] = Fresh(r, "push")]
  /\ UNCHANGED <<store, observed, tasks, late, faults>>

\* inventoryPage at the source, as of now.
ReadPage(i) ==
  /\ At(i, "page")
  /\ LET s    == session[i]
         rest == {e \in Visible(Source(i)) : Position(e) > s.cursor}
         page == First(rest, PageSize)
     IN  session' = [session EXCEPT ![i] =
           IF page = {} THEN NextPhase(s)
           ELSE [s EXCEPT !.step = "compare", !.page = page, !.more = page # rest,
                          !.cursor = Max({Position(e) : e \in page})]]
  /\ UNCHANGED <<store, observed, tasks, late, faults>>

Clashes(i) == {e.of : e \in {f \in session[i].page : Conflicts(Sink(i), f)}}

\* Mutant: only a responder keeps a record of what it found.
Noticed_ByResponder(i) == IF session[i].phase = "push" THEN Clashes(i) ELSE {}

\* The observations that recordEventConflicts stores.
Noticed(i) == Clashes(i)

\* compareInventory at the sink: differing digests are recorded, missing IDs
\* are fetched. Stored events never change, so that is one step with the fetch.
Compare(i) ==
  /\ At(i, "compare")
  /\ LET s       == session[i]
         missing == {e \in s.page : ~Known(Sink(i), e)}
     IN  /\ observed' = [observed EXCEPT ![Sink(i)] = @ \cup Noticed(i)]
         /\ session' = [session EXCEPT ![i] =
              IF missing = {} THEN NextPage(s) ELSE [s EXCEPT !.step = "store", !.page = missing]]
  /\ UNCHANGED <<store, tasks, late, faults>>

\* An event of the page is dealt with.
Continue(s) ==
  IF s.page = {} THEN NextPage([s EXCEPT !.recovering = NoId])
                 ELSE [s EXCEPT !.step = "store", !.recovering = NoId]

\* ingestReplicated at the sink; a resolution is followed by a recovery.
StoreNext(i) ==
  /\ At(i, "store")
  /\ \E e \in session[i].page :
       LET s == [session[i] EXCEPT !.page = @ \ {e}] IN
         /\ ~Conflicts(Sink(i), e)
         /\ StoreEvent(Sink(i), e)
         /\ session' = [session EXCEPT ![i] =
              IF e.kind = "resolution" THEN [s EXCEPT !.step = "recover", !.recovering = e.of]
                                       ELSE Continue(s)]
  /\ UNCHANGED <<observed, tasks, faults>>

RecoverNext(i) ==
  /\ At(i, "recover")
  /\ Materialize(Sink(i), session[i].recovering)
  /\ session' = [session EXCEPT ![i] = Continue(session[i])]
  /\ UNCHANGED <<observed, tasks, late, faults>>

\* Since the inventories were compared another event took the ID: the error
\* ends the session, and with it the transfer of everything that was to follow.
RefuseNext(i) ==
  /\ At(i, "store")
  /\ \E e \in session[i].page : Conflicts(Sink(i), e)
  /\ session' = [session EXCEPT ![i] = NoSession]
  /\ UNCHANGED <<store, observed, tasks, late, faults>>

Transfer(i) == ReadPage(i) \/ Compare(i) \/ StoreNext(i) \/ RecoverNext(i) \/ RefuseNext(i)

-----------------------------------------------------------------------------
(* Faults. *)

\* Sessions end; a handler that has stored a resolution at a node that lives on
\* still recovers the variant there.
Interrupt(cut) ==
  session' = [i \in Nodes |-> IF i \in cut THEN NoSession ELSE session[i]]

\* Mutant: whatever a session was doing counts as a recovery.
Unfinished_AnyStep(n, cut) ==
  {<<"recover", session[i].recovering>> : i \in {j \in cut : session[j] # NoSession /\ Sink(j) = n}}

Unfinished(n, cut) ==
  {<<"recover", session[i].recovering>> : i \in {j \in cut : At(j, "recover") /\ Sink(j) = n}}

\* The stream breaks between two frames or between two events of a page.
Cut(i) ==
  /\ session[i] # NoSession /\ faults < MaxFaults
  /\ Interrupt({i})
  /\ tasks' = [n \in Nodes |-> tasks[n] \cup Unfinished(n, {i})]
  /\ faults' = faults + 1
  /\ UNCHANGED <<store, observed, late>>

\* Mutant: nothing is reconciled at start.
Reconcile_Nothing(n) == {}

\* reconcileConflictResolutions goes through every resolution.
Reconcile(n) == {<<"reconcile", x>> : x \in {y \in Ids : Resolved(n, y)}}

\* The daemon dies at any point, also between the commit of a resolution and
\* the recovery, and starts again.
Restart(n) ==
  /\ faults < MaxFaults
  /\ faults' = faults + 1
  /\ LET cut == {i \in Nodes : session[i] # NoSession /\ n \in {i, session[i].peer}}
     IN  /\ Interrupt(cut)
         /\ tasks' = [m \in Nodes |-> IF m = n THEN Reconcile(n) ELSE tasks[m] \cup Unfinished(m, cut)]
  /\ UNCHANGED <<store, observed, late>>

Next ==
  \/ \E n \in Nodes, x \in Ids : IngestLocal(n, x) \/ Resolve(n, x) \/ Decide(n, x) \/ Recover(n, x)
  \/ \E i, r \in Nodes : Open(i, r)
  \/ \E i \in Nodes : Transfer(i) \/ Cut(i) \/ Restart(i)

\* The retry loop dials every remembered peer again and again, and a session
\* or a recovery that has begun goes on. Nothing makes clients ingest or users
\* resolve.
Fairness ==
  /\ \A i, r \in Nodes : WF_vars(Open(i, r))
  /\ \A i \in Nodes : WF_vars(Transfer(i))
  /\ \A n \in Nodes, x \in Ids : WF_vars(Decide(n, x)) /\ WF_vars(Recover(n, x))

Spec == Init /\ [][Next]_vars /\ Fairness

-----------------------------------------------------------------------------
(* Properties. *)

TypeOK ==
  /\ store    \in [Nodes -> SUBSET Events]
  /\ observed \in [Nodes -> SUBSET Ids]
  /\ tasks    \in [Nodes -> SUBSET Tasks]
  /\ session  \in [Nodes -> Sessions \cup {NoSession}]
  /\ \A i \in Nodes : session[i] # NoSession => <<i, session[i].peer>> \in Dials
  /\ late \subseteq Nodes \X Ids
  /\ faults \in 0..MaxFaults

\* A stored envelope is for good: sessions in both directions at once, retried
\* after any fault, never replace a variant and never store two under one ID.
EnvelopesAreImmutable ==
  [][\A n \in Nodes : /\ store[n] \subseteq store'[n]
                      /\ \A e \in store'[n] \ store[n], f \in store'[n] : SameId(e, f) => e = f]_vars

\* Somebody is about to recover what n holds of x.
RecoveryUnderWay(n, x) ==
  \/ <<"recover", x>> \in tasks[n] \/ <<"reconcile", x>> \in tasks[n]
  \/ \E i \in Nodes : At(i, "recover") /\ Sink(i) = n /\ session[i].recovering = x

Recovers(n, x) ==
  \A m \in Nodes : Variant(x, m) \in store[n] /\ Resolved(n, x) =>
    Recovered(x, m) \in store[n] \/ RecoveryUnderWay(n, x)

\* A node never stays without the recovered copy of a variant that it held
\* when the resolution reached it, whether it came from its own user or from a
\* peer and whatever crash fell between the two transactions.
HeldVariantRecovered ==
  \A n \in Nodes, x \in Ids : <<n, x>> \notin late => Recovers(n, x)

\* Every distinct variant joins the recovered set, be it one that a device
\* stores when it already knows the resolution (docs/CONFLICTS.md:50-56).
EveryVariantRecovered ==
  \A m, n \in Nodes, x \in Ids :
    (Variant(x, m) \in store[n] /\ Resolved(n, x)) ~> (Recovered(x, m) \in store[n])

\* Both sides of a conflict learn of it: a user on either can resolve it.
ConflictNoticed ==
  \A m, n \in Nodes, x \in Ids :
    (\E v, w \in Nodes : v # w /\ Variant(x, v) \in store[m] /\ Variant(x, w) \in store[n])
      ~> (Resolved(n, x) \/ x \in observed[n])

InConflict(x) == \E m, n, v, w \in Nodes :
  v # w /\ Variant(x, v) \in store[m] /\ Variant(x, w) \in store[n]

\* The visible events of a node, variants of an ID in conflict counting as one.
View(n) == {IF e.kind = "event" /\ InConflict(e.of) THEN <<e.kind, e.of>>
                                                    ELSE <<e.kind, e.of, e.by>> : e \in Visible(n)}

\* When clients and users come to rest all nodes show the same history.
Convergence == <>[](\A m, n \in Nodes : View(m) = View(n))

\* A session that nothing but its own end or an error ends while it pushes:
\* nothing of its peer's has been pulled.
EndsEarly(i) ==
  /\ session[i] # NoSession /\ session[i].phase = "push"
  /\ session'[i] = NoSession /\ faults' = faults

\* A conflict never blocks unrelated transfers (docs/MESH_PROTOCOL.md:104-105):
\* a session that no fault cuts short gets to its second phase.
ConflictNeverBlocks == [][\A i \in Nodes : ~EndsEarly(i)]_vars
=============================================================================
