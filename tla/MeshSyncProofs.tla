---------------------------- MODULE MeshSyncProofs ----------------------------
(***************************************************************************)
(* Theorems about MeshSync, for any nodes, IDs, clients, users, dials,     *)
(* order of the index, page size and number of faults: envelopes stay, and *)
(* what a node held when a resolution came is recovered.                   *)
(***************************************************************************)
EXTENDS MeshSync, TLAPS, FiniteSetTheorems, WellFoundedInduction

\* A session recovers after it stored the resolution of an ID.
Recovering == \A i \in Nodes : At(i, "recover") => session[i].recovering \in Ids

\* The inductive invariant.
IInv == TypeOK /\ Recovering /\ HeldVariantRecovered

-----------------------------------------------------------------------------
\* Finite sets of positions have a largest element.
LEMMA Largest ==
  ASSUME NEW P \in SUBSET Nat, IsFiniteSet(P), P # {}
  PROVE  Max(P) \in P
  <1> DEFINE HasMax(T) == \E t \in T : \A u \in T : t >= u
             Bad == {T \in FiniteSubsetsOf(Nat) : T # {} /\ ~HasMax(T)}
  <1>1. Bad = {}
    <2> SUFFICES ASSUME Bad # {} PROVE FALSE
      OBVIOUS
    <2>1. PICK T \in Bad : \A U \in Bad : <<U, T>> \notin StrictSubsetOrdering(Nat)
      <3>1. Bad \subseteq FiniteSubsetsOf(Nat)
        OBVIOUS
      <3>2. IsWellFoundedOn(StrictSubsetOrdering(Nat), FiniteSubsetsOf(Nat))
        BY FS_StrictSubsetOrderingWellFounded
      <3> HIDE DEF Bad
      <3>3. QED
        BY <3>1, <3>2, WFMin
    <2>2. T \in SUBSET Nat /\ IsFiniteSet(T) /\ T # {} /\ ~HasMax(T)
      BY DEF FiniteSubsetsOf
    <2>3. PICK t \in T : TRUE
      BY <2>2
    <2> DEFINE U == T \ {t}
    <2>4. U \in SUBSET Nat /\ IsFiniteSet(U) /\ U # T /\ U \subseteq T
      BY <2>2, <2>3, FS_RemoveElement
    <2>5. U \notin Bad
      BY <2>1, <2>2, <2>4 DEF StrictSubsetOrdering
    <2>6. U = {} \/ HasMax(U)
      BY <2>4, <2>5 DEF FiniteSubsetsOf
    <2>7. CASE U = {}
      BY <2>2, <2>3, <2>7
    <2>8. CASE HasMax(U)
      <3>1. PICK u \in U : \A v \in U : u >= v
        BY <2>8
      <3>2. t \in Nat /\ u \in Nat /\ u \in T /\ \A v \in T : v \in Nat
        BY <2>2, <2>3, <3>1
      <3>3. CASE u >= t
        BY <2>2, <3>1, <3>2, <3>3
      <3>4. CASE ~(u >= t)
        BY <2>2, <2>3, <3>1, <3>2, <3>4
      <3>5. QED
        BY <3>3, <3>4
    <2>9. QED
      BY <2>6, <2>7, <2>8
  <1>2. HasMax(P)
    BY <1>1 DEF FiniteSubsetsOf
  <1>3. QED
    BY <1>2 DEF Max

\* There are finitely many events.
LEMMA EventsFinite == IsFiniteSet(Events)
  <1> DEFINE Kinds == {"event", "resolution", "recovered"}
             Triples == (Kinds \X Ids) \X Nodes
             make == [t \in Triples |-> [kind |-> t[1][1], of |-> t[1][2], by |-> t[2]]]
  <1>1. IsFiniteSet(Kinds)
    <2>1. Kinds = (({} \cup {"event"}) \cup {"resolution"}) \cup {"recovered"}
      OBVIOUS
    <2>2. QED
      <3>1. IsFiniteSet({} \cup {"event"})
        BY FS_EmptySet, FS_AddElement
      <3>2. IsFiniteSet(({} \cup {"event"}) \cup {"resolution"})
        BY <3>1, FS_AddElement
      <3>3. IsFiniteSet((({} \cup {"event"}) \cup {"resolution"}) \cup {"recovered"})
        BY <3>2, FS_AddElement
      <3>4. QED
        BY <2>1, <3>3
  <1>2. IsFiniteSet(Triples)
    BY <1>1, FS_Product, InputsAssumption
  <1>3. make \in [Triples -> Events]
    BY DEF Events
  <1>4. ASSUME NEW e \in Events PROVE \E t \in Triples : make[t] = e
    <2>1. <<<<e.kind, e.of>>, e.by>> \in Triples
      BY DEF Events
    <2>2. make[<<<<e.kind, e.of>>, e.by>>] = e
      BY <2>1 DEF Events
    <2>3. QED
      BY <2>1, <2>2
  <1>5. make \in Surjection(Triples, Events)
    BY <1>3, <1>4 DEF Surjection
  <1>6. QED
    BY <1>2, <1>5, FS_Surjection

\* The cursor that follows a page is a position in the index.
LEMMA CursorTyped ==
  ASSUME NEW page \in SUBSET Events, page # {}
  PROVE  Max({Position(e) : e \in page}) \in Nat
  <1> DEFINE P == {Position(e) : e \in page}
             at == [e \in page |-> Position(e)]
  <1>1. P \subseteq Nat /\ P # {}
    BY PositionAssumption
  <1>2. at \in Surjection(page, P)
    BY DEF Surjection
  <1>3. IsFiniteSet(page)
    BY EventsFinite, FS_Subset
  <1>4. IsFiniteSet(P)
    BY <1>2, <1>3, FS_Surjection
  <1>5. QED
    BY <1>1, <1>4, Largest

-----------------------------------------------------------------------------
\* The nodes and the kinds of what they store.
LEMMA EventsTyped ==
  /\ \A n \in Nodes, x \in Ids :
       Variant(x, n) \in Events /\ Resolution(x, n) \in Events /\ Recovered(x, n) \in Events
  /\ \A e, f \in Events : SameId(e, f) /\ (e.kind = "event" => e.by = f.by) => e = f
  BY DEF Events, Variant, Resolution, Recovered, SameId

\* Source and sink of a session.
LEMMA Ends ==
  ASSUME TypeOK, NEW i \in Nodes, session[i] # NoSession
  PROVE  Source(i) \in Nodes /\ Sink(i) \in Nodes /\ session[i] \in Sessions
  BY DEF TypeOK, Source, Sink, Sessions

\* Where a session goes on after an event, a page or a phase.
LEMMA GoesOn ==
  ASSUME NEW s \in Sessions,
         NEW t, t \in {NextPhase(s), NextPage(s), Continue(s)}
  PROVE  /\ t \in Sessions \cup {NoSession}
         /\ t = NoSession \/ (t.peer = s.peer /\ t.step # "recover")
  <1> DEFINE Fine(u) == /\ u \in Sessions \cup {NoSession}
                        /\ u = NoSession \/ (u.peer = s.peer /\ u.step # "recover")
  <1>1. ASSUME NEW v \in Sessions, v.peer = s.peer PROVE Fine(NextPhase(v)) /\ Fine(NextPage(v))
    BY <1>1 DEF NextPhase, NextPage, Fresh, Sessions
  <1>2. [s EXCEPT !.recovering = NoId] \in Sessions /\ [s EXCEPT !.recovering = NoId].peer = s.peer
    BY DEF Sessions
  <1>3. Fine(Continue(s))
    <2>1. Fine(NextPage([s EXCEPT !.recovering = NoId]))
      BY <1>1, <1>2
    <2>2. Fine([s EXCEPT !.step = "store", !.recovering = NoId])
      BY DEF Sessions
    <2> HIDE DEF Fine
    <2>3. QED
      BY <2>1, <2>2 DEF Continue
  <1>4. QED
    BY <1>1, <1>3

\* A session goes on to t.
Moves(i, t) ==
  /\ session' = [session EXCEPT ![i] = t]
  /\ t \in Sessions \cup {NoSession}
  /\ t = NoSession \/ (<<i, t.peer>> \in Dials /\ (t.step = "recover" => t.recovering \in Ids))

\* What one move leaves.
LEMMA MovesTyped ==
  ASSUME TypeOK, Recovering, NEW i \in Nodes, NEW t, Moves(i, t)
  PROVE  /\ session' \in [Nodes -> Sessions \cup {NoSession}]
         /\ \A j \in Nodes : session'[j] # NoSession => <<j, session'[j].peer>> \in Dials
         /\ Recovering'
         /\ \A j \in Nodes \ {i} : session'[j] = session[j]
  BY DEF Moves, TypeOK, Recovering, At

\* Opening a session, and each step of one that is open.
LEMMA OpenMoves ==
  ASSUME TypeOK, NEW i \in Nodes, NEW r \in Nodes, Open(i, r)
  PROVE  session[i] = NoSession /\ \E t : Moves(i, t)
  <1>1. session' = [session EXCEPT ![i] = Fresh(r, "push")] /\ <<i, r>> \in Dials
    BY DEF Open
  <1>2. Fresh(r, "push") \in Sessions /\ Fresh(r, "push").peer = r /\ Fresh(r, "push").step = "page"
    BY DEF Fresh, Sessions
  <1>3. Moves(i, Fresh(r, "push"))
    BY <1>1, <1>2 DEF Moves
  <1>4. QED
    BY <1>3 DEF Open

\* ReadPage: on to the next phase, or to comparing a page.
LEMMA ReadPageMoves ==
  ASSUME TypeOK, NEW i \in Nodes, ReadPage(i)
  PROVE  ~At(i, "recover") /\ \E t : Moves(i, t)
  <1> DEFINE s    == session[i]
             rest == {e \in Visible(Source(i)) : Position(e) > s.cursor}
             page == First(rest, PageSize)
  <1>1. /\ s \in Sessions /\ s # NoSession /\ s.step = "page" /\ <<i, s.peer>> \in Dials
        /\ Source(i) \in Nodes
    BY Ends DEF ReadPage, At, TypeOK
  <1>2. page \in SUBSET Events
    BY <1>1 DEF First, Visible, TypeOK
  <1>3. CASE page = {}
    <2>1. session' = [session EXCEPT ![i] = NextPhase(s)]
      BY <1>3 DEF ReadPage
    <2>2. QED
      BY <1>1, <2>1, GoesOn DEF Moves, At
  <1>4. CASE page # {}
    <2> DEFINE t == [s EXCEPT !.step = "compare", !.page = page, !.more = page # rest,
                              !.cursor = Max({Position(e) : e \in page})]
    <2>1. session' = [session EXCEPT ![i] = t]
      BY <1>4 DEF ReadPage
    <2>2. Max({Position(e) : e \in page}) \in Nat
      BY <1>2, <1>4, CursorTyped
    <2>3. t \in Sessions /\ t.peer = s.peer /\ t.step # "recover"
      BY <1>1, <1>2, <2>2 DEF Sessions
    <2>4. QED
      BY <1>1, <2>1, <2>3 DEF Moves, At
  <1>5. QED
    BY <1>3, <1>4

\* Compare: on to the next page, or to storing what is missing.
LEMMA CompareMoves ==
  ASSUME TypeOK, NEW i \in Nodes, Compare(i)
  PROVE  /\ ~At(i, "recover") /\ \E t : Moves(i, t)
         /\ observed' \in [Nodes -> SUBSET Ids]
  <1> DEFINE s == session[i]
             missing == {e \in s.page : ~Known(Sink(i), e)}
  <1>1. /\ s \in Sessions /\ s # NoSession /\ s.step = "compare" /\ <<i, s.peer>> \in Dials
        /\ Sink(i) \in Nodes
    BY Ends DEF Compare, At, TypeOK
  <1>2. observed' = [observed EXCEPT ![Sink(i)] = @ \cup Noticed(i)]
    BY DEF Compare
  <1>3. Noticed(i) \subseteq Ids
    BY <1>1 DEF Noticed, Clashes, Sessions, Events
  <1>4. observed' \in [Nodes -> SUBSET Ids]
    BY <1>1, <1>2, <1>3 DEF TypeOK
  <1>5. CASE missing = {}
    <2>1. session' = [session EXCEPT ![i] = NextPage(s)]
      BY <1>5 DEF Compare
    <2>2. QED
      BY <1>1, <1>4, <2>1, GoesOn DEF Moves, At
  <1>6. CASE missing # {}
    <2> DEFINE t == [s EXCEPT !.step = "store", !.page = missing]
    <2>1. session' = [session EXCEPT ![i] = t]
      BY <1>6 DEF Compare
    <2>2. t \in Sessions /\ t.peer = s.peer /\ t.step # "recover"
      BY <1>1 DEF Sessions
    <2>3. QED
      BY <1>1, <1>4, <2>1, <2>2 DEF Moves, At
  <1>7. QED
    BY <1>5, <1>6

\* StoreNext: one event without a conflict, and a recovery if it is a resolution.
LEMMA StoreNextMoves ==
  ASSUME TypeOK, NEW i \in Nodes, StoreNext(i)
  PROVE  /\ ~At(i, "recover") /\ Sink(i) \in Nodes
         /\ \E e \in Events : \E t :
              /\ ~Conflicts(Sink(i), e) /\ StoreEvent(Sink(i), e) /\ Moves(i, t)
              /\ e.kind = "resolution" =>
                   At(i, "recover")' /\ Sink(i)' = Sink(i) /\ t.recovering = e.of
  <1>1. /\ session[i] \in Sessions /\ session[i] # NoSession /\ session[i].step = "store"
        /\ <<i, session[i].peer>> \in Dials /\ Sink(i) \in Nodes
    BY Ends DEF StoreNext, At, TypeOK
  <1>2. PICK e \in session[i].page :
          LET s == [session[i] EXCEPT !.page = session[i].page \ {e}] IN
            /\ ~Conflicts(Sink(i), e)
            /\ StoreEvent(Sink(i), e)
            /\ session' = [session EXCEPT ![i] =
                 IF e.kind = "resolution" THEN [s EXCEPT !.step = "recover", !.recovering = e.of]
                                          ELSE Continue(s)]
    BY <1>1 DEF StoreNext, Sessions
  <1> DEFINE s == [session[i] EXCEPT !.page = session[i].page \ {e}]
  <1>3. e \in Events /\ e.of \in Ids
    BY <1>1 DEF Sessions, Events
  <1>4. s \in Sessions /\ s.peer = session[i].peer /\ s.phase = session[i].phase
    BY <1>1 DEF Sessions
  <1>5. CASE e.kind = "resolution"
    <2> DEFINE t == [s EXCEPT !.step = "recover", !.recovering = e.of]
    <2>1. session' = [session EXCEPT ![i] = t]
      BY <1>2, <1>5
    <2>2. /\ t \in Sessions /\ t.peer = session[i].peer /\ t.phase = session[i].phase
          /\ t.recovering = e.of /\ t.step = "recover"
      BY <1>3, <1>4 DEF Sessions
    <2>3. Moves(i, t)
      BY <1>1, <1>3, <2>1, <2>2 DEF Moves
    <2>4. QED
      <3>1. session'[i] = t /\ t # NoSession
        BY <2>1, <2>2, InputsAssumption DEF TypeOK
      <3>2. At(i, "recover")' /\ Sink(i)' = Sink(i)
        BY <1>1, <2>2, <3>1 DEF At, Sink
      <3>3. ~At(i, "recover")
        BY <1>1 DEF At
      <3> HIDE DEF t, s
      <3>4. QED
        BY <1>1, <1>2, <1>3, <2>2, <2>3, <3>2, <3>3
  <1>6. CASE e.kind # "resolution"
    <2>1. session' = [session EXCEPT ![i] = Continue(s)]
      BY <1>2, <1>6
    <2>2. Moves(i, Continue(s))
      BY <1>1, <1>4, <2>1, GoesOn DEF Moves
    <2>3. QED
      BY <1>1, <1>2, <1>3, <1>6, <2>2 DEF At
  <1>7. QED
    BY <1>5, <1>6

\* RecoverNext: what the sink holds of the ID is recovered.
LEMMA RecoverNextMoves ==
  ASSUME TypeOK, NEW i \in Nodes, RecoverNext(i)
  PROVE  /\ At(i, "recover") /\ Sink(i) \in Nodes /\ \E t : Moves(i, t)
         /\ Materialize(Sink(i), session[i].recovering)
  <1>1. /\ session[i] \in Sessions /\ session[i] # NoSession
        /\ <<i, session[i].peer>> \in Dials /\ Sink(i) \in Nodes
    BY Ends DEF RecoverNext, At, TypeOK
  <1>2. Moves(i, Continue(session[i]))
    BY <1>1, GoesOn DEF RecoverNext, Moves
  <1>3. QED
    BY <1>1, <1>2 DEF RecoverNext

-----------------------------------------------------------------------------
\* Steps that leave sessions and their work alone, and those of one session.
LEMMA StoreTyped ==
  ASSUME TypeOK, NEW k \in Nodes, NEW e \in Events, StoreEvent(k, e)
  PROVE  /\ store' \in [Nodes -> SUBSET Events]
         /\ store'[k] = store[k] \cup {e} /\ \A n \in Nodes \ {k} : store'[n] = store[n]
         /\ late' \subseteq Nodes \X Ids /\ late \subseteq late'
  BY DEF TypeOK, StoreEvent, Events

\* Recovered copies are the only events that a recovery adds.
LEMMA MaterializeTyped ==
  ASSUME TypeOK, NEW k \in Nodes, NEW x, Materialize(k, x)
  PROVE  /\ store' \in [Nodes -> SUBSET Events]
         /\ store'[k] = store[k] \cup RecoveredAt(k, x)
         /\ \A n \in Nodes \ {k} : store'[n] = store[n]
         /\ RecoveredAt(k, x) \subseteq {e \in Events : e.kind = "recovered"}
         /\ \A m \in Nodes : x \in Ids /\ Variant(x, m) \in store[k] => Recovered(x, m) \in store'[k]
  <1>1. RecoveredAt(k, x) \subseteq {e \in Events : e.kind = "recovered"}
    BY DEF TypeOK, RecoveredAt, Recovered, Events
  <1>2. \A m \in Nodes : Variant(x, m) \in store[k] => Recovered(x, m) \in RecoveredAt(k, x)
    BY DEF RecoveredAt, Variant
  <1>3. store' = [store EXCEPT ![k] = store[k] \cup RecoveredAt(k, x)]
    BY DEF Materialize
  <1>4. QED
    BY <1>1, <1>2, <1>3 DEF TypeOK

-----------------------------------------------------------------------------
\* Nothing is stored at first.
LEMMA InitInvariant == Init => IInv
  BY InputsAssumption DEF Init, IInv, TypeOK, Recovering, At, HeldVariantRecovered, Recovers, Resolved

\* What faults leave of sessions is typed, and so is what they leave to be done.
LEMMA InterruptTyped ==
  ASSUME TypeOK, Recovering, NEW cut \in SUBSET Nodes, Interrupt(cut)
  PROVE  /\ session' \in [Nodes -> Sessions \cup {NoSession}]
         /\ \A j \in Nodes : session'[j] # NoSession => <<j, session'[j].peer>> \in Dials
         /\ Recovering'
         /\ \A n \in Nodes : Unfinished(n, cut) \subseteq Tasks
         /\ \A j \in Nodes \ cut : session'[j] = session[j]
  <1>1. \A j \in Nodes : session'[j] = IF j \in cut THEN NoSession ELSE session[j]
    BY DEF Interrupt
  <1>2. session' \in [Nodes -> Sessions \cup {NoSession}]
    BY DEF Interrupt, TypeOK
  <1>3. \A n \in Nodes : Unfinished(n, cut) \subseteq Tasks
    BY DEF Unfinished, Recovering, Tasks
  <1>4. Recovering'
    BY <1>1 DEF Recovering, At
  <1>5. QED
    BY <1>1, <1>2, <1>3, <1>4 DEF TypeOK

\* A step keeps the types.
LEMMA TypeStep == TypeOK /\ Recovering /\ [Next]_vars => TypeOK' /\ Recovering'
  <1> SUFFICES ASSUME TypeOK, Recovering, [Next]_vars PROVE TypeOK' /\ Recovering'
    OBVIOUS
  <1>1. CASE UNCHANGED vars
    BY <1>1 DEF vars, TypeOK, Recovering, At
  <1>2. ASSUME NEW n \in Nodes, NEW x \in Ids, IngestLocal(n, x) PROVE TypeOK' /\ Recovering'
    BY <1>2, EventsTyped, StoreTyped DEF IngestLocal, TypeOK, Recovering, At
  <1>3. ASSUME NEW n \in Nodes, NEW x \in Ids, Resolve(n, x) PROVE TypeOK' /\ Recovering'
    BY <1>3 DEF Resolve, TypeOK, Tasks, Recovering, At
  <1>4. ASSUME NEW n \in Nodes, NEW x \in Ids, Decide(n, x) PROVE TypeOK' /\ Recovering'
    <2>1. store' \in [Nodes -> SUBSET Events] /\ late' \subseteq Nodes \X Ids
      BY <1>4, EventsTyped, StoreTyped DEF Decide
    <2>2. tasks' \in [Nodes -> SUBSET Tasks]
      BY <1>4 DEF Decide, TypeOK, Tasks
    <2>3. QED
      BY <1>4, <2>1, <2>2 DEF Decide, TypeOK, Recovering, At
  <1>5. ASSUME NEW n \in Nodes, NEW x \in Ids, Recover(n, x) PROVE TypeOK' /\ Recovering'
    BY <1>5, MaterializeTyped DEF Recover, TypeOK, Recovering, At
  <1>6. ASSUME NEW i \in Nodes, NEW r \in Nodes, Open(i, r) PROVE TypeOK' /\ Recovering'
    BY <1>6, OpenMoves, MovesTyped DEF Open, TypeOK
  <1>7. ASSUME NEW i \in Nodes, ReadPage(i) PROVE TypeOK' /\ Recovering'
    BY <1>7, ReadPageMoves, MovesTyped DEF ReadPage, TypeOK
  <1>8. ASSUME NEW i \in Nodes, Compare(i) PROVE TypeOK' /\ Recovering'
    BY <1>8, CompareMoves, MovesTyped DEF Compare, TypeOK
  <1>9. ASSUME NEW i \in Nodes, StoreNext(i) PROVE TypeOK' /\ Recovering'
    BY <1>9, StoreNextMoves, StoreTyped, MovesTyped DEF StoreNext, TypeOK
  <1>10. ASSUME NEW i \in Nodes, RecoverNext(i) PROVE TypeOK' /\ Recovering'
    BY <1>10, RecoverNextMoves, MaterializeTyped, MovesTyped DEF RecoverNext, TypeOK
  <1>11. ASSUME NEW i \in Nodes, RefuseNext(i) PROVE TypeOK' /\ Recovering'
    BY <1>11, MovesTyped DEF RefuseNext, Moves, TypeOK
  <1>12. ASSUME NEW i \in Nodes, Cut(i) PROVE TypeOK' /\ Recovering'
    <2>1. \A n \in Nodes : Unfinished(n, {i}) \subseteq Tasks
      BY <1>12, InterruptTyped DEF Cut
    <2>2. tasks' \in [Nodes -> SUBSET Tasks]
      BY <1>12, <2>1 DEF Cut, TypeOK
    <2>3. faults' \in 0..MaxFaults
      BY <1>12, InputsAssumption DEF Cut, TypeOK
    <2>4. QED
      BY <1>12, <2>2, <2>3, InterruptTyped DEF Cut, TypeOK
  <1>13. ASSUME NEW n \in Nodes, Restart(n) PROVE TypeOK' /\ Recovering'
    <2> DEFINE cut == {i \in Nodes : session[i] # NoSession /\ n \in {i, session[i].peer}}
    <2>1. Interrupt(cut) /\ UNCHANGED <<store, observed, late>>
          /\ tasks' = [m \in Nodes |-> IF m = n THEN Reconcile(n) ELSE tasks[m] \cup Unfinished(m, cut)]
      BY <1>13 DEF Restart
    <2>2. cut \in SUBSET Nodes
      OBVIOUS
    <2> HIDE DEF cut
    <2>3. \A m \in Nodes : Unfinished(m, cut) \subseteq Tasks
      BY <2>1, <2>2, InterruptTyped
    <2>4. Reconcile(n) \subseteq Tasks
      BY DEF Reconcile, Tasks
    <2>5. tasks' \in [Nodes -> SUBSET Tasks]
      BY <2>1, <2>3, <2>4 DEF TypeOK
    <2>6. faults' \in 0..MaxFaults
      BY <1>13, InputsAssumption DEF Restart, TypeOK
    <2>7. QED
      BY <2>1, <2>2, <2>5, <2>6, InterruptTyped DEF TypeOK
  <1>14. QED
    BY <1>1, <1>2, <1>3, <1>4, <1>5, <1>6, <1>7, <1>8, <1>9, <1>10, <1>11, <1>12, <1>13
      DEF Next, Transfer

-----------------------------------------------------------------------------
\* A recovery goes on unless it is the one that a step finishes.
LEMMA UnderWayKept ==
  ASSUME NEW n \in Nodes, NEW x \in Ids, RecoveryUnderWay(n, x),
         \A step \in {"recover", "reconcile"} : <<step, x>> \in tasks[n] => <<step, x>> \in tasks'[n],
         \A i \in Nodes : At(i, "recover") => session'[i] = session[i]
  PROVE  RecoveryUnderWay(n, x)'
  BY DEF RecoveryUnderWay, At, Sink

\* A step that stores nothing.
LEMMA RestKeeps ==
  ASSUME HeldVariantRecovered, UNCHANGED <<store, late>>, NEW n \in Nodes, NEW x \in Ids,
         <<n, x>> \notin late', RecoveryUnderWay(n, x) => RecoveryUnderWay(n, x)'
  PROVE  Recovers(n, x)'
  BY DEF HeldVariantRecovered, Recovers, Resolved

\* A step that stores one event: a variant comes late, or before the resolution, and
\* a resolution has a recovery follow it.
LEMMA StoreKeeps ==
  ASSUME TypeOK, HeldVariantRecovered, NEW k \in Nodes, NEW e \in Events, StoreEvent(k, e),
         ~Conflicts(k, e),
         NEW n \in Nodes, NEW x \in Ids, <<n, x>> \notin late',
         RecoveryUnderWay(n, x) => RecoveryUnderWay(n, x)',
         e.kind = "resolution" /\ n = k /\ x = e.of => RecoveryUnderWay(n, x)'
  PROVE  Recovers(n, x)'
  <1> SUFFICES ASSUME NEW m \in Nodes, Variant(x, m) \in store'[n], Resolved(n, x)'
               PROVE  Recovered(x, m) \in store'[n] \/ RecoveryUnderWay(n, x)'
    BY DEF Recovers
  <1>1. /\ store'[k] = store[k] \cup {e} /\ \A z \in Nodes \ {k} : store'[z] = store[z]
        /\ late \subseteq late' /\ store[n] \subseteq store'[n]
    BY StoreTyped
  <1>2. CASE Variant(x, m) \in store[n] /\ Resolved(n, x)
    BY <1>1, <1>2 DEF HeldVariantRecovered, Recovers
  <1>3. CASE Variant(x, m) \notin store[n]
    <2>1. n = k /\ e = Variant(x, m) /\ e.kind = "event" /\ e.of = x
      BY <1>1, <1>3 DEF Variant
    <2>2. ~Known(k, e)
      BY <1>3, <2>1 DEF Known, Conflicts
    <2>3. Resolved(k, x)
      BY <1>1, <2>1 DEF Resolved
    <2>4. <<k, x>> \in late'
      BY <2>1, <2>2, <2>3 DEF StoreEvent
    <2>5. QED
      BY <2>1, <2>4
  <1>4. CASE ~Resolved(n, x)
    <2>1. n = k /\ e.kind = "resolution" /\ e.of = x
      BY <1>1, <1>4 DEF Resolved
    <2>2. QED
      BY <2>1
  <1>5. QED
    BY <1>2, <1>3, <1>4

\* A recovery that is carried out.
LEMMA MaterializeKeeps ==
  ASSUME TypeOK, HeldVariantRecovered, NEW k \in Nodes, NEW y, Materialize(k, y), UNCHANGED late,
         NEW n \in Nodes, NEW x \in Ids, <<n, x>> \notin late',
         RecoveryUnderWay(n, x) => RecoveryUnderWay(n, x)' \/ (n = k /\ x = y)
  PROVE  Recovers(n, x)'
  <1> SUFFICES ASSUME NEW m \in Nodes, Variant(x, m) \in store'[n], Resolved(n, x)'
               PROVE  Recovered(x, m) \in store'[n] \/ RecoveryUnderWay(n, x)'
    BY DEF Recovers
  <1>1. /\ store'[k] = store[k] \cup RecoveredAt(k, y)
        /\ \A z \in Nodes \ {k} : store'[z] = store[z]
        /\ \A e \in RecoveredAt(k, y) : e.kind = "recovered"
        /\ y \in Ids /\ Variant(y, m) \in store[k] => Recovered(y, m) \in store'[k]
    BY MaterializeTyped
  <1>2. Variant(x, m) \in store[n] /\ Resolved(n, x) /\ store[n] \subseteq store'[n]
    BY <1>1 DEF Resolved, Variant
  <1>3. Recovered(x, m) \in store[n] \/ RecoveryUnderWay(n, x)
    BY <1>2 DEF HeldVariantRecovered, Recovers
  <1>4. QED
    BY <1>1, <1>2, <1>3

\* Faults hand an unfinished recovery over to the handler that survives.
LEMMA CutKeeps ==
  ASSUME TypeOK, NEW cut \in SUBSET Nodes, Interrupt(cut), NEW n \in Nodes, NEW x \in Ids,
         tasks'[n] = tasks[n] \cup Unfinished(n, cut), RecoveryUnderWay(n, x)
  PROVE  RecoveryUnderWay(n, x)'
  <1>1. CASE \E step \in {"recover", "reconcile"} : <<step, x>> \in tasks[n]
    BY <1>1 DEF RecoveryUnderWay
  <1>2. ASSUME NEW i \in Nodes, At(i, "recover"), Sink(i) = n, session[i].recovering = x
        PROVE  RecoveryUnderWay(n, x)'
    <2>1. CASE i \in cut
      BY <1>2, <2>1 DEF Unfinished, RecoveryUnderWay
    <2>2. CASE i \notin cut
      <3>1. session'[i] = session[i]
        BY <2>2 DEF Interrupt
      <3>2. QED
        BY <1>2, <3>1 DEF RecoveryUnderWay, At, Sink
    <2>3. QED
      BY <2>1, <2>2
  <1>3. QED
    BY <1>1, <1>2 DEF RecoveryUnderWay

\* A step keeps every variant that was held recovered, or about to be.
LEMMA RecoverStep ==
  TypeOK /\ Recovering /\ HeldVariantRecovered /\ [Next]_vars => HeldVariantRecovered'
  <1> SUFFICES ASSUME TypeOK, Recovering, HeldVariantRecovered, [Next]_vars,
                      NEW n \in Nodes, NEW x \in Ids, <<n, x>> \notin late'
               PROVE  Recovers(n, x)'
    BY DEF HeldVariantRecovered
  <1>1. CASE UNCHANGED vars
    BY <1>1, RestKeeps DEF vars, RecoveryUnderWay, At, Sink
  <1>2. ASSUME NEW k \in Nodes, NEW y \in Ids, IngestLocal(k, y) PROVE Recovers(n, x)'
    <2>1. /\ StoreEvent(k, Variant(y, k)) /\ ~Conflicts(k, Variant(y, k))
          /\ Variant(y, k) \in Events /\ Variant(y, k).kind # "resolution"
          /\ UNCHANGED <<tasks, session>>
      BY <1>2, EventsTyped DEF IngestLocal, Known, Conflicts, Variant
    <2>2. RecoveryUnderWay(n, x) => RecoveryUnderWay(n, x)'
      BY <2>1, UnderWayKept
    <2>3. QED
      BY <2>1, <2>2, StoreKeeps
  <1>3. ASSUME NEW k \in Nodes, NEW y \in Ids, Resolve(k, y) PROVE Recovers(n, x)'
    <2>1. /\ UNCHANGED <<store, session, late>>
          /\ \A z \in Nodes : tasks[z] \subseteq tasks'[z]
      BY <1>3 DEF Resolve, TypeOK
    <2>2. QED
      BY <2>1, RestKeeps, UnderWayKept
  <1>4. ASSUME NEW k \in Nodes, NEW y \in Ids, Decide(k, y) PROVE Recovers(n, x)'
    <2> DEFINE e == Resolution(y, k)
    <2>1. /\ StoreEvent(k, e) /\ UNCHANGED session /\ <<"recover", y>> \in tasks'[k]
          /\ \A step \in {"recover", "reconcile"} :
               <<step, x>> \in tasks[n] => <<step, x>> \in tasks'[n]
      BY <1>4 DEF Decide, TypeOK
    <2>2. e \in Events /\ e.kind = "resolution" /\ e.of = y /\ e.by = k
      BY EventsTyped DEF Resolution
    <2>3. ~Conflicts(k, e)
      BY <2>2, EventsTyped DEF Conflicts, TypeOK
    <2>4. RecoveryUnderWay(n, x) => RecoveryUnderWay(n, x)'
      BY <2>1, UnderWayKept
    <2>5. n = k /\ x = e.of => RecoveryUnderWay(n, x)'
      BY <2>1, <2>2 DEF RecoveryUnderWay
    <2> HIDE DEF e
    <2>6. QED
      BY <2>1, <2>2, <2>3, <2>4, <2>5, StoreKeeps
  <1>5. ASSUME NEW k \in Nodes, NEW y \in Ids, Recover(k, y) PROVE Recovers(n, x)'
    <2>1. Materialize(k, y) /\ UNCHANGED <<session, late>>
      BY <1>5 DEF Recover
    <2>2. CASE n = k /\ x = y
      BY <2>1, <2>2, MaterializeKeeps
    <2>3. CASE ~(n = k /\ x = y)
      <3>1. \A step \in {"recover", "reconcile"} :
              <<step, x>> \in tasks[n] => <<step, x>> \in tasks'[n]
        BY <1>5, <2>3 DEF Recover, TypeOK
      <3>2. RecoveryUnderWay(n, x) => RecoveryUnderWay(n, x)'
        BY <2>1, <3>1, UnderWayKept
      <3>3. QED
        BY <2>1, <3>2, MaterializeKeeps
    <2>4. QED
      BY <2>2, <2>3
  <1>6. ASSUME NEW i \in Nodes, NEW t, Moves(i, t), ~At(i, "recover"), UNCHANGED tasks
        PROVE  RecoveryUnderWay(n, x) => RecoveryUnderWay(n, x)'
    BY <1>6, MovesTyped, UnderWayKept
  <1>7. ASSUME NEW i \in Nodes, NEW r \in Nodes, Open(i, r) PROVE Recovers(n, x)'
    BY <1>6, <1>7, OpenMoves, RestKeeps DEF Open, At
  <1>8. ASSUME NEW i \in Nodes, ReadPage(i) PROVE Recovers(n, x)'
    BY <1>6, <1>8, ReadPageMoves, RestKeeps DEF ReadPage
  <1>9. ASSUME NEW i \in Nodes, Compare(i) PROVE Recovers(n, x)'
    BY <1>6, <1>9, CompareMoves, RestKeeps DEF Compare
  <1>10. ASSUME NEW i \in Nodes, StoreNext(i) PROVE Recovers(n, x)'
    <2>1. PICK e \in Events, t \in Sessions \cup {NoSession} :
            /\ ~Conflicts(Sink(i), e) /\ StoreEvent(Sink(i), e) /\ Moves(i, t)
            /\ e.kind = "resolution" =>
                 At(i, "recover")' /\ Sink(i)' = Sink(i) /\ t.recovering = e.of
      BY <1>10, StoreNextMoves DEF Moves
    <2>2. Sink(i) \in Nodes /\ ~At(i, "recover") /\ UNCHANGED tasks /\ session'[i] = t
      BY <1>10, <2>1, StoreNextMoves DEF StoreNext, Moves, TypeOK
    <2>3. RecoveryUnderWay(n, x) => RecoveryUnderWay(n, x)'
      BY <1>6, <2>1, <2>2
    <2>4. e.kind = "resolution" /\ n = Sink(i) /\ x = e.of => RecoveryUnderWay(n, x)'
      BY <2>1, <2>2 DEF RecoveryUnderWay
    <2>5. QED
      BY <2>1, <2>2, <2>3, <2>4, StoreKeeps
  <1>11. ASSUME NEW i \in Nodes, RecoverNext(i) PROVE Recovers(n, x)'
    <2>1. /\ Materialize(Sink(i), session[i].recovering) /\ Sink(i) \in Nodes
          /\ UNCHANGED <<tasks, late>> /\ \A j \in Nodes \ {i} : session'[j] = session[j]
      BY <1>11, RecoverNextMoves, MovesTyped DEF RecoverNext
    <2>2. RecoveryUnderWay(n, x) =>
            RecoveryUnderWay(n, x)' \/ (n = Sink(i) /\ x = session[i].recovering)
      BY <2>1 DEF RecoveryUnderWay, At, Sink
    <2>3. QED
      BY <2>1, <2>2, MaterializeKeeps
  <1>12. ASSUME NEW i \in Nodes, RefuseNext(i) PROVE Recovers(n, x)'
    <2>1. Moves(i, NoSession) /\ ~At(i, "recover") /\ UNCHANGED <<store, tasks, late>>
      BY <1>12 DEF RefuseNext, Moves, At
    <2>2. QED
      BY <1>6, <2>1, RestKeeps
  <1>13. ASSUME NEW i \in Nodes, Cut(i) PROVE Recovers(n, x)'
    <2>1. Interrupt({i}) /\ tasks'[n] = tasks[n] \cup Unfinished(n, {i}) /\ UNCHANGED <<store, late>>
      BY <1>13 DEF Cut
    <2>2. QED
      BY <2>1, CutKeeps, RestKeeps
  <1>14. ASSUME NEW k \in Nodes, Restart(k) PROVE Recovers(n, x)'
    <2> DEFINE cut == {i \in Nodes : session[i] # NoSession /\ k \in {i, session[i].peer}}
    <2>1. /\ Interrupt(cut) /\ UNCHANGED <<store, late>>
          /\ tasks'[n] = IF n = k THEN Reconcile(n) ELSE tasks[n] \cup Unfinished(n, cut)
      BY <1>14 DEF Restart
    <2>2. cut \in SUBSET Nodes
      OBVIOUS
    <2> HIDE DEF cut
    <2>3. CASE n = k
      <3>1. Resolved(n, x)' => <<"reconcile", x>> \in tasks'[n]
        BY <2>1, <2>3 DEF Reconcile, Resolved
      <3>2. QED
        BY <3>1 DEF Recovers, RecoveryUnderWay
    <2>4. CASE n # k
      BY <2>1, <2>2, <2>4, CutKeeps, RestKeeps
    <2>5. QED
      BY <2>3, <2>4
  <1>15. QED
    BY <1>1, <1>2, <1>3, <1>4, <1>5, <1>7, <1>8, <1>9, <1>10, <1>11, <1>12, <1>13, <1>14
      DEF Next, Transfer

-----------------------------------------------------------------------------
\* The inductive invariant of replication holds in every behaviour.
THEOREM SyncInvariance == Spec => []IInv
  <1>1. Init => IInv
    BY InitInvariant
  <1>2. IInv /\ [Next]_vars => IInv'
    BY TypeStep, RecoverStep DEF IInv
  <1>3. QED
    BY <1>1, <1>2, PTL DEF Spec

\* Sessions run between nodes that dial each other, over pages of events.
THEOREM SyncTypes == Spec => []TypeOK
  <1>1. IInv => TypeOK
    BY DEF IInv
  <1>2. QED
    BY <1>1, SyncInvariance, PTL

\* What a node held when a resolution came to it is recovered, or about to be, whatever
\* stream breaks and whichever daemon restarts between the two transactions.
THEOREM HeldIsRecovered == Spec => []HeldVariantRecovered
  <1>1. IInv => HeldVariantRecovered
    BY DEF IInv
  <1>2. QED
    BY <1>1, SyncInvariance, PTL

\* Nothing replaces a stored envelope, and nothing is stored next to one of the same ID.
THEOREM EnvelopesStay == Spec => EnvelopesAreImmutable
  <1> DEFINE Step == \A n \in Nodes :
                       /\ store[n] \subseteq store'[n]
                       /\ \A e \in store'[n] \ store[n], f \in store'[n] : SameId(e, f) => e = f
  <1>1. ASSUME TypeOK, NEW k \in Nodes, NEW e \in Events, StoreEvent(k, e), ~Conflicts(k, e)
        PROVE  Step
    <2>1. store'[k] = store[k] \cup {e} /\ \A n \in Nodes \ {k} : store'[n] = store[n]
      BY <1>1, StoreTyped
    <2>2. QED
      BY <1>1, <2>1 DEF Conflicts
  <1>2. ASSUME TypeOK, NEW k \in Nodes, NEW x, Materialize(k, x) PROVE Step
    <2>1. /\ store'[k] = store[k] \cup RecoveredAt(k, x)
          /\ \A n \in Nodes \ {k} : store'[n] = store[n]
          /\ RecoveredAt(k, x) \subseteq {e \in Events : e.kind = "recovered"}
          /\ store' \in [Nodes -> SUBSET Events]
      BY <1>2, MaterializeTyped
    <2>2. QED
      BY <2>1, EventsTyped
  <1>3. ASSUME UNCHANGED store PROVE Step
    BY <1>3
  <1> HIDE DEF Step
  <1>4. ASSUME TypeOK, [Next]_vars PROVE Step
    <2>1. ASSUME NEW n \in Nodes, NEW x \in Ids, IngestLocal(n, x) PROVE Step
      BY <1>1, <1>4, <2>1, EventsTyped DEF IngestLocal, Known, Conflicts
    <2>2. ASSUME NEW n \in Nodes, NEW x \in Ids, Decide(n, x) PROVE Step
      <3>1. /\ Resolution(x, n) \in Events /\ StoreEvent(n, Resolution(x, n))
            /\ Resolution(x, n).kind = "resolution"
        BY <2>2, EventsTyped DEF Decide, Resolution
      <3>2. ~Conflicts(n, Resolution(x, n))
        BY <1>4, <3>1, EventsTyped DEF Conflicts, TypeOK
      <3>3. QED
        BY <1>1, <1>4, <3>1, <3>2
    <2>3. ASSUME NEW n \in Nodes, NEW x \in Ids, Recover(n, x) PROVE Step
      BY <1>2, <1>4, <2>3 DEF Recover
    <2>4. ASSUME NEW i \in Nodes, StoreNext(i) PROVE Step
      BY <1>1, <1>4, <2>4, StoreNextMoves
    <2>5. ASSUME NEW i \in Nodes, RecoverNext(i) PROVE Step
      BY <1>2, <1>4, <2>5, RecoverNextMoves
    <2>6. CASE UNCHANGED store
      BY <1>3, <2>6
    <2>7. QED
      BY <1>4, <2>1, <2>2, <2>3, <2>4, <2>5, <2>6
        DEF Next, Transfer, vars, Resolve, Open, ReadPage, Compare, RefuseNext, Cut, Restart
  <1>5. IInv /\ [Next]_vars => [Step]_vars
    BY <1>4 DEF IInv
  <1>6. Spec => [][Step]_vars
    BY <1>5, SyncInvariance, PTL DEF Spec
  <1>7. QED
    BY <1>6 DEF Step, EnvelopesAreImmutable
=============================================================================
