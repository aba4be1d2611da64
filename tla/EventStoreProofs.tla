-------------------------- MODULE EventStoreProofs --------------------------
(***************************************************************************)
(* Proofs about EventStore for every number of workers, keys and bodies,   *)
(* every width of the counters and every set of wall clock readings.       *)
(*                                                                         *)
(* The argument: the mutex ingestMu makes the clock in memory equal to the *)
(* persisted one whenever a handler may stamp an event (HlcInSync), the    *)
(* persisted clock covers the store (ClockCoversStore), and the two clock  *)
(* operations return a stamp strictly above everything they are given (the *)
(* two lemmas below). Everything else follows.                             *)
(***************************************************************************)
EXTENDS EventStore, TLAPS

-----------------------------------------------------------------------------
(* The hybrid logical clock. *)

\* Both parts of a stamp are numbers.
LEMMA StampNumbers == \A s \in Stamps : s.phys \in Nat /\ s.log \in Nat
  <1>1. \A p \in Walls \cup {0} : p \in Nat
    BY WallsAssumption
  <1>2. \A n \in 0..MaxLogical : n \in Nat
    BY LimitsAssumption
  <1>3. \A s \in Stamps : s.phys \in Nat
    BY <1>1 DEF Stamps
  <1>4. \A s \in Stamps : s.log \in Nat
    BY <1>2 DEF Stamps
  <1>5. QED
    BY <1>3, <1>4

\* Before is a strict order on stamps whose complement is transitive with it.
LEMMA BeforeOrders ==
  ASSUME NEW r \in Stamps, NEW s \in Stamps, NEW t \in Stamps
  PROVE  /\ ~Before(s, s)
         /\ Before(r, s) => ~Before(s, r)
         /\ ~Before(s, r) /\ Before(s, t) => Before(r, t)
  BY StampNumbers DEF Before

\* A pair whose counter fits its width is a stamp.
LEMMA StampIntro ==
  ASSUME NEW p \in Walls \cup {0}, NEW n \in Nat
  PROVE  Representable([phys |-> p, log |-> n]) => [phys |-> p, log |-> n] \in Stamps
  <1>1. n <= MaxLogical => n \in 0..MaxLogical
    BY LimitsAssumption
  <1>2. QED
    BY <1>1 DEF Representable, Stamps

\* A later physical time, or the same with a larger counter, is a later stamp.
LEMMA StampAbove ==
  ASSUME NEW s \in Stamps, NEW p \in Nat, NEW n \in Nat,
         p >= s.phys, p = s.phys => n > s.log
  PROVE  Before(s, [phys |-> p, log |-> n])
  BY StampNumbers DEF Before

\* A local stamp is typed unless the counter is exhausted, and lies strictly
\* after the clock it came from, whatever the wall clock says.
LEMMA NextLocalAdvances ==
  ASSUME hlc \in Stamps, NEW wall \in Walls
  PROVE  /\ Representable(NextLocal(wall)) => NextLocal(wall) \in Stamps
         /\ Before(hlc, NextLocal(wall))
  <1>1. hlc.phys \in Walls \cup {0} /\ hlc.phys \in Nat /\ hlc.log \in Nat /\ wall \in Nat
    BY StampNumbers, WallsAssumption DEF Stamps
  <1>2. CASE wall > hlc.phys
    BY <1>1, <1>2, StampIntro DEF NextLocal, Before
  <1>3. CASE ~(wall > hlc.phys)
    <2>1. NextLocal(wall) = [phys |-> hlc.phys, log |-> hlc.log + 1]
      BY <1>3 DEF NextLocal
    <2>2. hlc.log + 1 \in Nat
      BY <1>1
    <2>3. QED
      BY <1>1, <2>1, <2>2, StampIntro DEF Before
  <1>4. QED
    BY <1>2, <1>3

\* A merged stamp is typed unless the counter is exhausted, and lies strictly
\* after both the local clock and the stamp of the replicated event.
LEMMA MergeHLCAdvances ==
  ASSUME NEW local \in Stamps, NEW remote \in Stamps, NEW wall \in Walls
  PROVE  /\ Representable(MergeHLC(local, remote, wall))
              => MergeHLC(local, remote, wall) \in Stamps
         /\ Before(local, MergeHLC(local, remote, wall))
         /\ Before(remote, MergeHLC(local, remote, wall))
  <1> DEFINE top == Larger(wall, Larger(local.phys, remote.phys))
             both == Larger(local.log, remote.log)
             m == MergeHLC(local, remote, wall)
  <1>1. /\ wall \in Walls \cup {0} /\ wall \in Nat
        /\ local.phys \in Walls \cup {0} /\ local.phys \in Nat /\ local.log \in Nat
        /\ remote.phys \in Walls \cup {0} /\ remote.phys \in Nat /\ remote.log \in Nat
    BY StampNumbers, WallsAssumption DEF Stamps
  <1>2. top \in Walls \cup {0} /\ top \in Nat
    BY <1>1 DEF Larger
  <1>3. top >= local.phys /\ top >= remote.phys
    BY <1>1 DEF Larger
  <1>4. both \in Nat /\ both >= local.log /\ both >= remote.log
    BY <1>1 DEF Larger
  <1>5. \E n \in Nat : /\ m = [phys |-> top, log |-> n]
                       /\ top = local.phys => n > local.log
                       /\ top = remote.phys => n > remote.log
    <2>1. CASE top = local.phys /\ top = remote.phys
      <3>1. m = [phys |-> top, log |-> both + 1]
        BY <2>1 DEF MergeHLC
      <3>2. QED
        BY <1>1, <1>4, <3>1
    <2>2. CASE top = local.phys /\ top # remote.phys
      <3>1. m = [phys |-> top, log |-> local.log + 1]
        BY <2>2 DEF MergeHLC
      <3>2. QED
        BY <1>1, <2>2, <3>1
    <2>3. CASE top # local.phys /\ top = remote.phys
      <3>1. m = [phys |-> top, log |-> remote.log + 1]
        BY <2>3 DEF MergeHLC
      <3>2. QED
        BY <1>1, <2>3, <3>1
    <2>4. CASE top # local.phys /\ top # remote.phys
      <3>1. m = [phys |-> top, log |-> 0]
        BY <2>4 DEF MergeHLC
      <3>2. QED
        BY <1>1, <2>4, <3>1
    <2>5. QED
      BY <2>1, <2>2, <2>3, <2>4
  <1>6. PICK n \in Nat : /\ m = [phys |-> top, log |-> n]
                         /\ top = local.phys => n > local.log
                         /\ top = remote.phys => n > remote.log
    BY <1>5
  <1>7. Before(local, [phys |-> top, log |-> n]) /\ Before(remote, [phys |-> top, log |-> n])
    <2>1. top = local.phys => n > local.log
      BY <1>6
    <2>2. top = remote.phys => n > remote.log
      BY <1>6
    <2>3. Before(local, [phys |-> top, log |-> n])
      BY <1>2, <1>3, <2>1, StampAbove
    <2>4. Before(remote, [phys |-> top, log |-> n])
      BY <1>2, <1>3, <2>2, StampAbove
    <2>5. QED
      BY <2>3, <2>4
  <1>8. Representable([phys |-> top, log |-> n]) => [phys |-> top, log |-> n] \in Stamps
    BY <1>2, StampIntro
  <1>9. QED
    BY <1>6, <1>7, <1>8

-----------------------------------------------------------------------------
(* The inductive invariant. *)

\* Exactly the handler between its commit and its unlock holds ingestMu.
MutexHeld == \A w \in Workers : pc[w] \in {"committed", "merged"} <=> ingestMu = w

\* Whoever takes the mutex finds the clock in memory equal to the stored one.
HlcInSync == ingestMu = NoWorker => hlc = clock

\* What a handler carries is a request it read or an event it stored.
HandlersKnow ==
  \A w \in Workers :
    /\ pc[w] = "captured" => call[w] \in Calls
    /\ pc[w] \in {"committed", "merged", "announcing"} =>
         /\ result[w] \in Results
         /\ events[result[w].key] = result[w].envelope

ArrivalsStored == \A s \in 1..Len(arrivals) : Stored(arrivals[s])

\* A handler about to announce a local event holds the last arrival number;
\* nothing announced locally lies beyond the log.
AnnouncedBehind ==
  /\ \A i \in 1..Len(announced) : announced[i].local => announced[i].seq <= Len(arrivals)
  /\ \A w \in Workers : pc[w] = "committed" =>
       /\ result[w].seq = Len(arrivals)
       /\ \A i \in 1..Len(announced) : announced[i].local => announced[i].seq < Len(arrivals)

Core == TypeOK /\ MutexHeld /\ HlcInSync /\ HandlersKnow

IInv == /\ Core
        /\ ClockCoversStore
        /\ AnswersAreStored
        /\ ArrivalsStored
        /\ AnnouncedBehind
        /\ LocalAnnouncedInOrder

\* The envelope and the stamp a local commit writes are typed.
LEMMA LocalTyped ==
  ASSUME TypeOK, NEW c \in Calls, Representable(NextLocal(c.wall))
  PROVE  /\ NextLocal(c.wall) \in Stamps
         /\ LocalEnvelope(c) \in Envelopes
         /\ LocalEnvelope(c).at = NextLocal(c.wall)
         /\ c.req.key \in Keys
  <1>1. /\ c.wall \in Walls
        /\ c.req.key \in Keys /\ c.req.body \in Bodies /\ c.req.given \in Walls \cup {NotGiven}
    BY DEF Calls, ValidRequests
  <1>2. hlc \in Stamps
    BY DEF TypeOK
  <1>3. NextLocal(c.wall) \in Stamps
    BY <1>1, <1>2, NextLocalAdvances
  <1>4. LocalEnvelope(c) \in Envelopes
    BY <1>1, <1>3 DEF LocalEnvelope, Envelopes
  <1>5. QED
    BY <1>1, <1>3, <1>4 DEF LocalEnvelope

\* A commit fills one empty key, appends it to the arrivals and leaves every
\* other event as it was.
LEMMA CommitWrites ==
  ASSUME TypeOK, NEW k \in Keys, NEW e \in Envelopes, NEW stamp \in Stamps,
         ~Stored(k), Commit(k, e, stamp)
  PROVE  /\ events' \in [Keys -> Envelopes \cup {NoEvent}]
         /\ events'[k] = e /\ \A j \in Keys \ {k} : events'[j] = events[j]
         /\ \A j \in Keys : Stored(j) => events'[j] = events[j]
         /\ arrivals' \in Seq(Keys)
         /\ Len(arrivals') = Len(arrivals) + 1
         /\ Len(arrivals) \in Nat
         /\ Len(arrivals) + 1 \in 1..MaxArrivals
         /\ arrivals'[Len(arrivals) + 1] = k
         /\ \A s \in 1..Len(arrivals) : arrivals'[s] = arrivals[s]
         /\ clock' = stamp
  <1>1. events \in [Keys -> Envelopes \cup {NoEvent}] /\ arrivals \in Seq(Keys)
    BY DEF TypeOK
  <1>2. events' = [events EXCEPT ![k] = e] /\ arrivals' = Append(arrivals, k)
        /\ clock' = stamp /\ Len(arrivals) < MaxArrivals
    BY DEF Commit
  <1>3. /\ events' \in [Keys -> Envelopes \cup {NoEvent}]
        /\ events'[k] = e /\ \A j \in Keys \ {k} : events'[j] = events[j]
    BY <1>1, <1>2
  <1>4. \A j \in Keys : Stored(j) => events'[j] = events[j]
    BY <1>3
  <1>5. Len(arrivals) \in Nat /\ Len(arrivals) + 1 \in 1..MaxArrivals
    BY <1>1, <1>2, LimitsAssumption
  <1>6. /\ arrivals' \in Seq(Keys) /\ Len(arrivals') = Len(arrivals) + 1
        /\ arrivals'[Len(arrivals) + 1] = k
        /\ \A s \in 1..Len(arrivals) : arrivals'[s] = arrivals[s]
    BY <1>1, <1>2
  <1>7. QED
    BY <1>2, <1>3, <1>4, <1>5, <1>6

\* An empty store satisfies the inductive invariant.
LEMMA InitInvariant == Init => IInv
  <1> SUFFICES ASSUME Init PROVE IInv
    OBVIOUS
  <1>1. clock \in Stamps
    BY LimitsAssumption DEF Init, Stamps
  <1>2. TypeOK
    BY <1>1 DEF Init, TypeOK
  <1>3. MutexHeld /\ HlcInSync /\ HandlersKnow
    BY AbsenceAssumption DEF Init, MutexHeld, HlcInSync, HandlersKnow
  <1>4. ClockCoversStore /\ AnswersAreStored /\ ArrivalsStored
    BY DEF Init, ClockCoversStore, AnswersAreStored, ArrivalsStored, Stored
  <1>5. AnnouncedBehind /\ LocalAnnouncedInOrder
    BY DEF Init, AnnouncedBehind, LocalAnnouncedInOrder
  <1>6. QED
    BY <1>2, <1>3, <1>4, <1>5 DEF IInv, Core

-----------------------------------------------------------------------------
(* Each step keeps the types and what the handlers know. *)

\* The event a handler is about to write, when it takes a free mutex.
LEMMA TakeMutex ==
  ASSUME Core, NEW w \in Workers, ingestMu = NoWorker,
         NEW k \in Keys, NEW e \in Envelopes, NEW stamp \in Stamps,
         ~Stored(k), Commit(k, e, stamp),
         result' = [result EXCEPT ![w] = [seq |-> Len(arrivals) + 1, key |-> k, envelope |-> e]],
         ingestMu' = w,
         NEW state \in {"committed", "merged"}, pc' = [pc EXCEPT ![w] = state],
         call' = call \/ call' = [call EXCEPT ![w] = NoCall],
         UNCHANGED <<hlc, announced, answers>>
  PROVE  Core'
  <1> DEFINE r == [seq |-> Len(arrivals) + 1, key |-> k, envelope |-> e]
  <1> USE DEF Core
  <1>1. r \in Results
    BY CommitWrites DEF Results
  <1>2. TypeOK'
    <2>1. events' \in [Keys -> Envelopes \cup {NoEvent}] /\ arrivals' \in Seq(Keys) /\ clock' \in Stamps
      BY CommitWrites
    <2>2. hlc' \in Stamps /\ ingestMu' \in Workers \cup {NoWorker}
      BY DEF TypeOK
    <2>3. pc' \in [Workers -> {"idle", "captured", "committed", "merged", "announcing"}]
      BY DEF TypeOK
    <2>4. call' \in [Workers -> Calls \cup {NoCall}]
      BY DEF TypeOK
    <2>5. result' \in [Workers -> Results \cup {NoEntry}]
      BY <1>1 DEF TypeOK
    <2>6. /\ announced' \in Seq([seq : 1..MaxArrivals, local : BOOLEAN])
          /\ answers' \subseteq [key : Keys, envelope : Envelopes]
      BY DEF TypeOK
    <2>7. QED
      BY <2>1, <2>2, <2>3, <2>4, <2>5, <2>6 DEF TypeOK
  <1>3. MutexHeld'
    <2>1. \A v \in Workers : pc[v] \notin {"committed", "merged"}
      BY AbsenceAssumption DEF MutexHeld
    <2>2. QED
      BY <2>1 DEF MutexHeld, TypeOK
  <1>4. HlcInSync'
    BY AbsenceAssumption DEF HlcInSync
  <1>5. HandlersKnow'
    <2> SUFFICES ASSUME NEW v \in Workers
                 PROVE  /\ pc'[v] = "captured" => call'[v] \in Calls
                        /\ pc'[v] \in {"committed", "merged", "announcing"} =>
                             /\ result'[v] \in Results
                             /\ events'[result'[v].key] = result'[v].envelope
      BY DEF HandlersKnow
    <2>1. CASE v = w
      <3>1. pc'[v] = state /\ result'[v] = r
        BY <2>1 DEF TypeOK
      <3>2. events'[k] = e
        BY CommitWrites
      <3>3. QED
        BY <1>1, <3>1, <3>2
    <2>2. CASE v # w
      <3>1. pc'[v] = pc[v] /\ call'[v] = call[v] /\ result'[v] = result[v]
        BY <2>2 DEF TypeOK
      <3>2. ASSUME pc[v] \in {"committed", "merged", "announcing"}
            PROVE  events'[result[v].key] = result[v].envelope
        <4>1. result[v] \in Results /\ events[result[v].key] = result[v].envelope
          BY <3>2 DEF HandlersKnow
        <4>2. result[v].key \in Keys /\ Stored(result[v].key)
          BY <4>1, AbsenceAssumption DEF Results, Stored
        <4>3. QED
          BY <4>1, <4>2, CommitWrites
      <3>3. QED
        BY <3>1, <3>2 DEF HandlersKnow
    <2>3. QED
      BY <2>1, <2>2
  <1>6. QED
    BY <1>2, <1>3, <1>4, <1>5

\* A handler that returns to idle touches no event and no other handler.
LEMMA ReturnIdle ==
  ASSUME Core, NEW w \in Workers, Idle(w), UNCHANGED durable,
         \/ pc[w] \in {"captured", "announcing"} /\ UNCHANGED <<hlc, ingestMu>>
         \/ pc[w] = "committed" /\ hlc' = clock /\ ingestMu' = NoWorker,
         announced' \in Seq([seq : 1..MaxArrivals, local : BOOLEAN]),
         answers' \subseteq [key : Keys, envelope : Envelopes]
  PROVE  Core'
  <1> USE DEF Core, Idle, durable
  <1>1. TypeOK'
    BY DEF TypeOK
  <1>2. MutexHeld'
    BY AbsenceAssumption DEF MutexHeld, TypeOK
  <1>3. HlcInSync'
    BY DEF HlcInSync
  <1>4. HandlersKnow'
    BY DEF HandlersKnow, TypeOK
  <1>5. QED
    BY <1>1, <1>2, <1>3, <1>4

\* What a handler announces is typed, and so is what it answers.
LEMMA AnnounceTyped ==
  ASSUME Core, NEW w \in Workers, NEW isLocal \in BOOLEAN,
         pc[w] \in {"committed", "merged", "announcing"}, Announce(w, isLocal)
  PROVE  /\ result[w].seq \in 1..MaxArrivals
         /\ result[w].key \in Keys /\ result[w].envelope \in Envelopes
         /\ announced \in Seq([seq : 1..MaxArrivals, local : BOOLEAN])
         /\ announced' \in Seq([seq : 1..MaxArrivals, local : BOOLEAN])
         /\ Len(announced') = Len(announced) + 1 /\ Len(announced) \in Nat
         /\ announced'[Len(announced) + 1] = [seq |-> result[w].seq, local |-> isLocal]
         /\ \A i \in 1..Len(announced) : announced'[i] = announced[i]
  <1>1. /\ result[w].seq \in 1..MaxArrivals
        /\ result[w].key \in Keys /\ result[w].envelope \in Envelopes
    BY DEF Core, HandlersKnow, Results
  <1>2. [seq |-> result[w].seq, local |-> isLocal] \in [seq : 1..MaxArrivals, local : BOOLEAN]
    BY <1>1
  <1>3. announced \in Seq([seq : 1..MaxArrivals, local : BOOLEAN])
    BY DEF Core, TypeOK
  <1>4. QED
    BY <1>1, <1>2, <1>3 DEF Announce

\* Every step keeps the types, the mutex discipline, the agreement of the two
\* clocks and what the handlers know of the event they wrote.
LEMMA CoreStep == Core /\ Next => Core'
  <1> SUFFICES ASSUME Core, Next PROVE Core'
    OBVIOUS
  <1>1. ASSUME NEW w \in Workers, BeginIngest(w) PROVE Core'
    <2> USE <1>1 DEF Core, BeginIngest, durable
    <2>1. PICK r \in Requests, wall \in Walls :
            call' = [call EXCEPT ![w] = [req |-> r, wall |-> wall]]
      OBVIOUS
    <2>2. [req |-> r, wall |-> wall] \in Calls
      BY InputAssumption DEF Calls
    <2>3. TypeOK'
      BY <2>1, <2>2 DEF TypeOK
    <2>4. MutexHeld' /\ HlcInSync'
      BY DEF MutexHeld, HlcInSync, TypeOK
    <2>5. HandlersKnow'
      BY <2>1, <2>2 DEF HandlersKnow, TypeOK
    <2>6. QED
      BY <2>3, <2>4, <2>5
  <1>2. ASSUME NEW w \in Workers, AnswerRetry(w) PROVE Core'
    <2>1. call[w] \in Calls
      BY <1>2 DEF AnswerRetry, Core, HandlersKnow
    <2>2. call[w].req.key \in Keys
      BY <2>1 DEF Calls, ValidRequests
    <2>3. events[call[w].req.key] \in Envelopes
      BY <1>2, <2>2 DEF AnswerRetry, Stored, Core, TypeOK
    <2>4. answers' \subseteq [key : Keys, envelope : Envelopes]
      BY <1>2, <2>2, <2>3 DEF AnswerRetry, Core, TypeOK
    <2>5. announced' \in Seq([seq : 1..MaxArrivals, local : BOOLEAN])
      BY <1>2 DEF AnswerRetry, Core, TypeOK
    <2>6. Idle(w) /\ UNCHANGED durable /\ UNCHANGED <<hlc, ingestMu>> /\ pc[w] = "captured"
      BY <1>2 DEF AnswerRetry
    <2>7. QED
      BY <2>4, <2>5, <2>6, ReturnIdle
  <1>3. ASSUME NEW w \in Workers, RefuseLocal(w) PROVE Core'
    <2>1. /\ announced' \in Seq([seq : 1..MaxArrivals, local : BOOLEAN])
          /\ answers' \subseteq [key : Keys, envelope : Envelopes]
      BY <1>3 DEF RefuseLocal, Core, TypeOK
    <2>2. Idle(w) /\ UNCHANGED durable /\ UNCHANGED <<hlc, ingestMu>> /\ pc[w] = "captured"
      BY <1>3 DEF RefuseLocal
    <2>3. QED
      BY <2>1, <2>2, ReturnIdle
  <1>4. ASSUME NEW w \in Workers, CommitLocal(w) PROVE Core'
    <2> DEFINE c == call[w]
    <2>1. c \in Calls /\ TypeOK
      BY <1>4 DEF CommitLocal, Core, HandlersKnow
    <2>2. Representable(NextLocal(c.wall))
      BY <1>4 DEF CommitLocal, Commit
    <2>3. /\ NextLocal(c.wall) \in Stamps /\ LocalEnvelope(c) \in Envelopes
          /\ c.req.key \in Keys
      BY <2>1, <2>2, LocalTyped
    <2>4. QED
      BY <1>4, <2>3, TakeMutex DEF CommitLocal
  <1>5. ASSUME NEW w \in Workers, CompleteLocal(w) PROVE Core'
    <2>1. pc[w] = "committed" /\ Announce(w, TRUE) /\ Idle(w) /\ UNCHANGED durable
          /\ hlc' = clock /\ ingestMu' = NoWorker
      BY <1>5 DEF CompleteLocal
    <2>2. result[w].key \in Keys /\ result[w].envelope \in Envelopes
      BY <2>1, AnnounceTyped
    <2>3. answers' \subseteq [key : Keys, envelope : Envelopes]
      BY <1>5, <2>2 DEF CompleteLocal, Core, TypeOK
    <2>4. announced' \in Seq([seq : 1..MaxArrivals, local : BOOLEAN])
      BY <2>1, AnnounceTyped
    <2>5. QED
      BY <2>1, <2>3, <2>4, ReturnIdle
  <1>6. ASSUME NEW w \in Workers, CommitReplicated(w) PROVE Core'
    <2>1. PICK r \in RemoteEvents, wall \in Walls :
            /\ ~Stored(r.key)
            /\ Commit(r.key, r.envelope, MergeHLC(hlc, r.envelope.at, wall))
            /\ result' = [result EXCEPT ![w] = [seq |-> Len(arrivals) + 1, key |-> r.key,
                                                envelope |-> r.envelope]]
      BY <1>6 DEF CommitReplicated
    <2>2. r.key \in Keys /\ r.envelope \in Envelopes /\ r.envelope.at \in Stamps
      BY InputAssumption DEF Envelopes
    <2>3. hlc \in Stamps
      BY DEF Core, TypeOK
    <2>4. MergeHLC(hlc, r.envelope.at, wall) \in Stamps
      BY <2>1, <2>2, <2>3, MergeHLCAdvances DEF Commit
    <2>5. QED
      BY <1>6, <2>1, <2>2, <2>4, TakeMutex DEF CommitReplicated
  <1>7. ASSUME NEW w \in Workers, UnlockReplicated(w) PROVE Core'
    <2> USE <1>7 DEF Core, UnlockReplicated, durable
    <2>1. TypeOK' /\ HlcInSync'
      BY DEF TypeOK, HlcInSync
    <2>2. MutexHeld'
      BY AbsenceAssumption DEF MutexHeld, TypeOK
    <2>3. HandlersKnow'
      BY DEF HandlersKnow, TypeOK
    <2>4. QED
      BY <2>1, <2>2, <2>3
  <1>8. ASSUME NEW w \in Workers, AnnounceReplicated(w) PROVE Core'
    <2>1. pc[w] = "announcing" /\ Announce(w, FALSE) /\ Idle(w) /\ UNCHANGED durable
          /\ UNCHANGED <<hlc, ingestMu>>
      BY <1>8 DEF AnnounceReplicated
    <2>2. answers' \subseteq [key : Keys, envelope : Envelopes]
      BY <1>8 DEF AnnounceReplicated, Core, TypeOK
    <2>3. announced' \in Seq([seq : 1..MaxArrivals, local : BOOLEAN])
      BY <2>1, AnnounceTyped
    <2>4. QED
      BY <2>1, <2>2, <2>3, ReturnIdle
  <1>9. ASSUME Restart PROVE Core'
    <2> USE <1>9 DEF Core, Restart, durable
    <2>1. TypeOK'
      BY DEF TypeOK
    <2>2. MutexHeld' /\ HlcInSync' /\ HandlersKnow'
      BY AbsenceAssumption DEF MutexHeld, HlcInSync, HandlersKnow
    <2>3. QED
      BY <2>1, <2>2
  <1>10. QED
    BY <1>1, <1>2, <1>3, <1>4, <1>5, <1>6, <1>7, <1>8, <1>9 DEF Next

-----------------------------------------------------------------------------
(* Every step leaves the durable state alone or writes one stamped event.  *)

\* A commit in IInv, whoever makes it: the stamp lies above the old clock and
\* is not below the event's own.
Writes(k, e, stamp) ==
  /\ k \in Keys /\ e \in Envelopes /\ stamp \in Stamps
  /\ ~Stored(k) /\ Commit(k, e, stamp)
  /\ Before(clock, stamp) /\ ~Before(stamp, e.at)

\* A local commit writes one new event whose stamp covers the old clock.
LEMMA LocalWrites ==
  ASSUME Core, NEW w \in Workers, CommitLocal(w)
  PROVE  LET c == call[w] IN
           /\ Writes(c.req.key, LocalEnvelope(c), NextLocal(c.wall))
           /\ LocalEnvelope(c).at = NextLocal(c.wall)
  <1> DEFINE c == call[w]
  <1>1. c \in Calls /\ TypeOK /\ hlc = clock /\ hlc \in Stamps /\ c.wall \in Walls
    BY DEF CommitLocal, Core, HandlersKnow, HlcInSync, TypeOK, Calls
  <1>2. ~Stored(c.req.key) /\ Commit(c.req.key, LocalEnvelope(c), NextLocal(c.wall))
    BY DEF CommitLocal
  <1>3. Representable(NextLocal(c.wall))
    BY <1>2 DEF Commit
  <1>4. /\ NextLocal(c.wall) \in Stamps /\ LocalEnvelope(c) \in Envelopes
        /\ LocalEnvelope(c).at = NextLocal(c.wall) /\ c.req.key \in Keys
    BY <1>1, <1>3, LocalTyped
  <1>5. Before(clock, NextLocal(c.wall))
    BY <1>1, NextLocalAdvances
  <1>6. ~Before(NextLocal(c.wall), NextLocal(c.wall))
    BY <1>4, BeforeOrders
  <1>7. QED
    BY <1>2, <1>4, <1>5, <1>6 DEF Writes

\* So does the commit of a replicated event.
LEMMA ReplicatedWrites ==
  ASSUME Core, NEW w \in Workers, CommitReplicated(w)
  PROVE  \E k \in Keys, e \in Envelopes, stamp \in Stamps :
           /\ Writes(k, e, stamp)
           /\ result' = [result EXCEPT ![w] = [seq |-> Len(arrivals) + 1, key |-> k,
                                              envelope |-> e]]
  <1>1. PICK r \in RemoteEvents, wall \in Walls :
          /\ ~Stored(r.key)
          /\ Commit(r.key, r.envelope, MergeHLC(hlc, r.envelope.at, wall))
          /\ result' = [result EXCEPT ![w] = [seq |-> Len(arrivals) + 1, key |-> r.key,
                                             envelope |-> r.envelope]]
    BY DEF CommitReplicated
  <1> DEFINE m == MergeHLC(hlc, r.envelope.at, wall)
  <1>2. r.key \in Keys /\ r.envelope \in Envelopes /\ r.envelope.at \in Stamps
    BY InputAssumption DEF Envelopes
  <1>3. hlc = clock /\ hlc \in Stamps
    BY DEF CommitReplicated, Core, HlcInSync, TypeOK
  <1>4. /\ Representable(m) => m \in Stamps
        /\ Before(hlc, m) /\ Before(r.envelope.at, m)
    BY <1>2, <1>3, MergeHLCAdvances
  <1>5. m \in Stamps
    BY <1>1, <1>4 DEF Commit
  <1>6. ~Before(m, r.envelope.at)
    BY <1>2, <1>4, <1>5, BeforeOrders
  <1>7. QED
    BY <1>1, <1>2, <1>3, <1>4, <1>5, <1>6 DEF Writes

\* Every step leaves the store alone or writes one new event.
LEMMA StepWrites ==
  ASSUME Core, Next
  PROVE  \/ UNCHANGED durable
         \/ \E k \in Keys, e \in Envelopes, stamp \in Stamps : Writes(k, e, stamp)
  <1>1. ASSUME NEW w \in Workers, CommitLocal(w)
        PROVE  \E k \in Keys, e \in Envelopes, stamp \in Stamps : Writes(k, e, stamp)
    BY <1>1, LocalWrites DEF Writes
  <1>2. ASSUME NEW w \in Workers,
               \/ BeginIngest(w) \/ AnswerRetry(w) \/ RefuseLocal(w)
               \/ CompleteLocal(w) \/ UnlockReplicated(w) \/ AnnounceReplicated(w)
        PROVE  UNCHANGED durable
    BY <1>2 DEF BeginIngest, AnswerRetry, RefuseLocal, CompleteLocal, UnlockReplicated,
                AnnounceReplicated
  <1>3. Restart => UNCHANGED durable
    BY DEF Restart
  <1>4. QED
    BY <1>1, <1>2, <1>3, ReplicatedWrites DEF Next

\* What one write does to the store, in the words of the invariants.
LEMMA WriteKeeps ==
  ASSUME Core, NEW k \in Keys, NEW e \in Envelopes, NEW stamp \in Stamps, Writes(k, e, stamp)
  PROVE  /\ \A j \in Keys : Stored(j) => events'[j] = events[j]
         /\ ClockCoversStore => ClockCoversStore'
         /\ ArrivalsStored => ArrivalsStored'
  <1>1. /\ TypeOK /\ ~Stored(k) /\ Commit(k, e, stamp)
        /\ Before(clock, stamp) /\ ~Before(stamp, e.at)
    BY DEF Core, Writes
  <1>2. /\ events'[k] = e /\ \A j \in Keys \ {k} : events'[j] = events[j]
        /\ \A j \in Keys : Stored(j) => events'[j] = events[j]
        /\ Len(arrivals') = Len(arrivals) + 1 /\ Len(arrivals) \in Nat
        /\ arrivals'[Len(arrivals) + 1] = k
        /\ \A s \in 1..Len(arrivals) : arrivals'[s] = arrivals[s]
        /\ clock' = stamp
    BY <1>1, CommitWrites
  <1>3. ASSUME ClockCoversStore, NEW j \in Keys, events'[j] # NoEvent
        PROVE  ~Before(clock', events'[j].at)
    <2>1. CASE j = k
      BY <1>1, <1>2, <2>1
    <2>2. CASE j # k
      <3>1. events'[j] = events[j] /\ Stored(j)
        BY <1>2, <1>3, <2>2 DEF Stored
      <3>2. events[j].at \in Stamps /\ clock \in Stamps
        BY <1>1, <3>1 DEF TypeOK, Stored, Envelopes
      <3>3. ~Before(clock, events[j].at)
        BY <1>3, <3>1 DEF ClockCoversStore
      <3>4. ~Before(stamp, events[j].at)
        BY <1>1, <3>2, <3>3, BeforeOrders
      <3>5. QED
        BY <1>2, <3>1, <3>4
    <2>3. QED
      BY <2>1, <2>2
  <1>4. ASSUME ArrivalsStored, NEW s \in 1..Len(arrivals')
        PROVE  events'[arrivals'[s]] # NoEvent
    <2>1. CASE s = Len(arrivals) + 1
      BY <1>2, <2>1, AbsenceAssumption
    <2>2. CASE s # Len(arrivals) + 1
      <3>1. s \in 1..Len(arrivals)
        BY <1>2, <2>2
      <3>2. arrivals[s] \in Keys
        BY <1>1, <3>1 DEF TypeOK
      <3>3. QED
        BY <1>2, <1>4, <3>1, <3>2 DEF ArrivalsStored, Stored
    <2>3. QED
      BY <2>1, <2>2
  <1>5. QED
    BY <1>2, <1>3, <1>4 DEF ClockCoversStore, ArrivalsStored, Stored

\* Every step keeps the answers given to clients true.
LEMMA AnswersStep == Core /\ AnswersAreStored /\ Next => AnswersAreStored'
  <1> SUFFICES ASSUME Core, AnswersAreStored, Next, NEW a \in answers'
               PROVE  events'[a.key] = a.envelope
    BY DEF AnswersAreStored
  <1>1. \A j \in Keys : Stored(j) => events'[j] = events[j]
    BY StepWrites, WriteKeeps DEF durable
  <1>2. ASSUME a \in answers PROVE events'[a.key] = a.envelope
    <2>1. a.key \in Keys /\ a.envelope \in Envelopes /\ events[a.key] = a.envelope
      BY <1>2 DEF Core, TypeOK, AnswersAreStored
    <2>2. QED
      BY <1>1, <2>1, AbsenceAssumption DEF Stored
  <1>3. ASSUME NEW w \in Workers, AnswerRetry(w) PROVE events'[a.key] = a.envelope
    BY <1>2, <1>3 DEF AnswerRetry, durable
  <1>4. ASSUME NEW w \in Workers, CompleteLocal(w) PROVE events'[a.key] = a.envelope
    <2>1. events[result[w].key] = result[w].envelope
      BY <1>4 DEF CompleteLocal, Core, HandlersKnow
    <2>2. QED
      BY <1>2, <1>4, <2>1 DEF CompleteLocal, durable
  <1>5. ASSUME NEW w \in Workers,
               \/ BeginIngest(w) \/ RefuseLocal(w) \/ CommitLocal(w)
               \/ CommitReplicated(w) \/ UnlockReplicated(w) \/ AnnounceReplicated(w)
        PROVE  answers' = answers
    BY <1>5 DEF BeginIngest, RefuseLocal, CommitLocal, CommitReplicated, UnlockReplicated,
                AnnounceReplicated
  <1>6. Restart => answers' = answers
    BY DEF Restart
  <1>7. QED
    BY <1>2, <1>3, <1>4, <1>5, <1>6 DEF Next

\* The order of local announcements.
Announcements == AnnouncedBehind /\ LocalAnnouncedInOrder

\* An entry of a sequence is a member of its element set.
LEMMA ElementOf ==
  ASSUME NEW S, NEW q \in Seq(S), NEW i \in 1..Len(q)
  PROVE  q[i] \in S
  OBVIOUS

\* Announced sequence numbers are numbers.
LEMMA AnnouncedNumbers ==
  ASSUME Core
  PROVE  \A i \in 1..Len(announced) : announced[i].seq \in Nat
  <1>1. \A n \in 1..MaxArrivals : n \in Nat
    BY LimitsAssumption
  <1>2. announced \in Seq([seq : 1..MaxArrivals, local : BOOLEAN])
    BY DEF Core, TypeOK
  <1>3. \A i \in 1..Len(announced) : announced[i] \in [seq : 1..MaxArrivals, local : BOOLEAN]
    BY <1>2, ElementOf
  <1>4. QED
    BY <1>1, <1>3

\* A commit takes the mutex from nobody and moves the log past everything announced.
LEMMA CommitAnnouncements ==
  ASSUME Core, Announcements, NEW w \in Workers, ingestMu = NoWorker,
         NEW k \in Keys, NEW e \in Envelopes, NEW stamp \in Stamps, Writes(k, e, stamp),
         result' = [result EXCEPT ![w] = [seq |-> Len(arrivals) + 1, key |-> k, envelope |-> e]],
         NEW state \in {"committed", "merged"}, pc' = [pc EXCEPT ![w] = state],
         UNCHANGED announced
  PROVE  Announcements'
  <1>1. Len(arrivals) \in Nat /\ Len(arrivals') = Len(arrivals) + 1
    BY CommitWrites DEF Writes, Core
  <1>2. \A v \in Workers : pc[v] # "committed"
    BY AbsenceAssumption DEF Core, MutexHeld
  <1>3. \A i \in 1..Len(announced) : announced[i].local =>
           announced[i].seq <= Len(arrivals) /\ announced[i].seq \in Nat
    BY AnnouncedNumbers DEF Announcements, AnnouncedBehind
  <1>4. \A i \in 1..Len(announced') : announced'[i].local =>
           announced'[i].seq < Len(arrivals') /\ announced'[i].seq <= Len(arrivals')
    BY <1>1, <1>3
  <1>5. \A v \in Workers : pc'[v] = "committed" => result'[v].seq = Len(arrivals')
    BY <1>1, <1>2 DEF Core, TypeOK
  <1>6. AnnouncedBehind'
    BY <1>4, <1>5 DEF AnnouncedBehind
  <1>7. QED
    BY <1>6 DEF Announcements, LocalAnnouncedInOrder

\* Every step keeps local announcements in arrival order: the mutex is held from
\* the commit to the broadcast.
LEMMA AnnouncementsStep == Core /\ Announcements /\ Next => Announcements'
  <1> SUFFICES ASSUME Core, Announcements, Next PROVE Announcements'
    OBVIOUS
  <1>1. ASSUME NEW w \in Workers, CommitLocal(w) PROVE Announcements'
    <2>1. Writes(call[w].req.key, LocalEnvelope(call[w]), NextLocal(call[w].wall))
      BY <1>1, LocalWrites
    <2>2. QED
      BY <1>1, <2>1, CommitAnnouncements DEF CommitLocal, Writes
  <1>2. ASSUME NEW w \in Workers, CommitReplicated(w) PROVE Announcements'
    <2>1. PICK k \in Keys, e \in Envelopes, stamp \in Stamps :
            /\ Writes(k, e, stamp)
            /\ result' = [result EXCEPT ![w] = [seq |-> Len(arrivals) + 1, key |-> k,
                                               envelope |-> e]]
      BY <1>2, ReplicatedWrites
    <2>2. QED
      BY <1>2, <2>1, CommitAnnouncements DEF CommitReplicated
  <1>3. ASSUME NEW w \in Workers, CompleteLocal(w) PROVE Announcements'
    <2>1. pc[w] = "committed" /\ Announce(w, TRUE) /\ Idle(w) /\ UNCHANGED durable
      BY <1>3 DEF CompleteLocal
    <2>2. /\ Len(announced') = Len(announced) + 1 /\ Len(announced) \in Nat
          /\ announced'[Len(announced) + 1] = [seq |-> result[w].seq, local |-> TRUE]
          /\ \A i \in 1..Len(announced) : announced'[i] = announced[i]
      BY <2>1, AnnounceTyped
    <2>3. /\ result[w].seq = Len(arrivals)
          /\ \A i \in 1..Len(announced) : announced[i].local => announced[i].seq < Len(arrivals)
      BY <2>1 DEF Announcements, AnnouncedBehind
    <2>4. \A i \in 1..Len(announced) : announced[i].seq \in Nat
      BY AnnouncedNumbers
    <2>5. Len(arrivals') = Len(arrivals) /\ Len(arrivals) \in Nat
      BY <2>1 DEF durable, Core, TypeOK
    <2>6. \A v \in Workers : pc'[v] # "committed"
      BY <2>1, AbsenceAssumption DEF Idle, Core, MutexHeld, TypeOK
    <2>7. AnnouncedBehind'
      BY <2>2, <2>3, <2>4, <2>5, <2>6 DEF AnnouncedBehind
    <2>8. LocalAnnouncedInOrder'
      <3> SUFFICES ASSUME NEW i \in 1..Len(announced'), NEW j \in 1..Len(announced'),
                          i < j, announced'[i].local, announced'[j].local
                   PROVE  announced'[i].seq < announced'[j].seq
        BY DEF LocalAnnouncedInOrder
      <3>1. i \in 1..Len(announced) /\ announced'[i] = announced[i]
        BY <2>2
      <3>2. CASE j \in 1..Len(announced)
        BY <2>2, <3>1, <3>2 DEF LocalAnnouncedInOrder, Announcements
      <3>3. CASE j = Len(announced) + 1
        <4>1. announced'[j].seq = Len(arrivals)
          BY <2>2, <2>3, <3>3
        <4>2. QED
          BY <2>3, <3>1, <4>1
      <3>4. QED
        BY <2>2, <3>2, <3>3, SMTT(30)
    <2>9. QED
      BY <2>7, <2>8 DEF Announcements
  <1>4. ASSUME NEW w \in Workers, AnnounceReplicated(w) PROVE Announcements'
    <2>1. pc[w] = "announcing" /\ Announce(w, FALSE) /\ Idle(w) /\ UNCHANGED durable
      BY <1>4 DEF AnnounceReplicated
    <2>2. /\ Len(announced') = Len(announced) + 1 /\ Len(announced) \in Nat
          /\ announced'[Len(announced) + 1] = [seq |-> result[w].seq, local |-> FALSE]
          /\ \A i \in 1..Len(announced) : announced'[i] = announced[i]
      BY <2>1, AnnounceTyped
    <2>3. \A v \in Workers : pc'[v] = "committed" => pc[v] = "committed" /\ result'[v] = result[v]
      BY <2>1 DEF Idle, Core, TypeOK
    <2>4. AnnouncedBehind'
      BY <2>1, <2>2, <2>3 DEF AnnouncedBehind, Announcements, durable
    <2>5. LocalAnnouncedInOrder'
      BY <2>2 DEF LocalAnnouncedInOrder, Announcements
    <2>6. QED
      BY <2>4, <2>5 DEF Announcements
  <1>5. ASSUME NEW w \in Workers,
               BeginIngest(w) \/ AnswerRetry(w) \/ RefuseLocal(w) \/ UnlockReplicated(w)
        PROVE  Announcements'
    <2>1. UNCHANGED <<durable, announced>>
      BY <1>5 DEF BeginIngest, AnswerRetry, RefuseLocal, UnlockReplicated
    <2>2. \A v \in Workers : pc'[v] = "committed" => pc[v] = "committed" /\ result'[v] = result[v]
      BY <1>5 DEF BeginIngest, AnswerRetry, RefuseLocal, UnlockReplicated, Idle, Core, TypeOK
    <2>3. QED
      BY <2>1, <2>2 DEF Announcements, AnnouncedBehind, LocalAnnouncedInOrder, durable
  <1>6. Restart => Announcements'
    BY DEF Restart, Announcements, AnnouncedBehind, LocalAnnouncedInOrder
  <1>7. QED
    BY <1>1, <1>2, <1>3, <1>4, <1>5, <1>6 DEF Next

-----------------------------------------------------------------------------
(* The theorems. *)

\* The inductive invariant is kept by every step.
LEMMA StepInvariant == IInv /\ [Next]_vars => IInv'
  <1> SUFFICES ASSUME IInv, [Next]_vars PROVE IInv'
    OBVIOUS
  <1>1. CASE Next
    <2>1. Core' /\ AnswersAreStored' /\ Announcements'
      BY <1>1, CoreStep, AnswersStep, AnnouncementsStep DEF IInv, Announcements
    <2>2. UNCHANGED durable => ClockCoversStore' /\ ArrivalsStored'
      BY DEF durable, IInv, ClockCoversStore, ArrivalsStored, Stored
    <2>3. ClockCoversStore' /\ ArrivalsStored'
      BY <1>1, <2>2, StepWrites, WriteKeeps DEF IInv
    <2>4. QED
      BY <2>1, <2>3 DEF IInv, Announcements
  <1>2. CASE UNCHANGED vars
    BY <1>2 DEF vars, durable, IInv, Core, TypeOK, MutexHeld, HlcInSync, HandlersKnow,
                ClockCoversStore, AnswersAreStored, ArrivalsStored, Stored, AnnouncedBehind,
                LocalAnnouncedInOrder
  <1>3. QED
    BY <1>1, <1>2

\* The inductive invariant holds of every reachable state.
THEOREM Invariance == Spec => []IInv
  BY InitInvariant, StepInvariant, PTL DEF Spec

\* Every variable of the event store keeps its type; in particular no counter
\* leaves its width and no arrival number is used past the last one.
THEOREM TypeCorrect == Spec => []TypeOK
  <1>1. IInv => TypeOK
    BY DEF IInv, Core
  <1>2. QED
    BY <1>1, Invariance, PTL

\* The persisted clock covers the store at every moment a crash may strike.
THEOREM ClockAlwaysCovers == Spec => []ClockCoversStore
  <1>1. IInv => ClockCoversStore
    BY DEF IInv
  <1>2. QED
    BY <1>1, Invariance, PTL

\* No answer given to a local client is ever contradicted by the store.
THEOREM AnswersStand == Spec => []AnswersAreStored
  <1>1. IInv => AnswersAreStored
    BY DEF IInv
  <1>2. QED
    BY <1>1, Invariance, PTL

\* Live subscribers receive local events in arrival order.
THEOREM LocalOrder == Spec => []LocalAnnouncedInOrder
  <1>1. IInv => LocalAnnouncedInOrder
    BY DEF IInv
  <1>2. QED
    BY <1>1, Invariance, PTL

\* A locally created event is stamped after everything in the store.
THEOREM FreshStamps == Spec => FreshStampsDominate
  <1>1. ASSUME IInv, NEW w \in Workers, CommitLocal(w), NEW j \in Keys, NEW k \in Keys,
               Stored(j), ~Stored(k), Stored(k)'
        PROVE  Before(events[j].at, (events[k].at)')
    <2> DEFINE c == call[w]
    <2>1. /\ Writes(c.req.key, LocalEnvelope(c), NextLocal(c.wall))
          /\ LocalEnvelope(c).at = NextLocal(c.wall)
      BY <1>1, LocalWrites DEF IInv
    <2>2. /\ TypeOK /\ ~Stored(c.req.key) /\ c.req.key \in Keys
          /\ LocalEnvelope(c) \in Envelopes /\ NextLocal(c.wall) \in Stamps
          /\ Commit(c.req.key, LocalEnvelope(c), NextLocal(c.wall))
          /\ Before(clock, NextLocal(c.wall))
      BY <1>1, <2>1 DEF IInv, Core, Writes
    <2>3. /\ events'[c.req.key] = LocalEnvelope(c)
          /\ \A i \in Keys \ {c.req.key} : events'[i] = events[i]
      BY <2>2, CommitWrites
    <2>4. k = c.req.key
      BY <1>1, <2>3 DEF Stored
    <2>5. events'[k].at = NextLocal(c.wall)
      BY <2>1, <2>3, <2>4
    <2>6. events[j].at \in Stamps /\ clock \in Stamps
      BY <1>1, <2>2 DEF TypeOK, Stored, Envelopes
    <2>7. ~Before(clock, events[j].at)
      BY <1>1 DEF IInv, ClockCoversStore
    <2>8. Before(events[j].at, NextLocal(c.wall))
      BY <2>2, <2>6, <2>7, BeforeOrders
    <2>9. QED
      BY <2>5, <2>8
  <1> DEFINE Step == \A w \in Workers : CommitLocal(w) =>
                       \A j, k \in Keys : (Stored(j) /\ ~Stored(k) /\ Stored(k)')
                                           => Before(events[j].at, (events[k].at)')
  <1>2. IInv => Step
    BY <1>1
  <1>3. IInv /\ [Next]_vars => [Step]_vars
    BY <1>2
  <1> HIDE DEF Step
  <1>4. Spec => [][Step]_vars
    BY <1>3, Invariance, PTL DEF Spec
  <1>5. QED
    BY <1>4 DEF FreshStampsDominate, Step

\* One write appends one entry to the arrival log.
LEMMA WriteArrives ==
  ASSUME Core, ArrivalsStored, NEW k \in Keys, NEW e \in Envelopes, NEW stamp \in Stamps,
         Writes(k, e, stamp)
  PROVE  Log!Next
  <1> DEFINE entry == [key |-> k, envelope |-> e]
             n == Len(arrivals)
  <1>1. TypeOK /\ ~Stored(k) /\ Commit(k, e, stamp)
    BY DEF Core, Writes
  <1>2. /\ events'[k] = e
        /\ \A j \in Keys : Stored(j) => events'[j] = events[j]
        /\ Len(arrivals') = n + 1 /\ n \in Nat
        /\ arrivals'[n + 1] = k
        /\ \A s \in 1..n : arrivals'[s] = arrivals[s]
    BY <1>1, CommitWrites
  <1>3. \A s \in 1..n : arrivals[s] \in Keys /\ events[arrivals[s]] \in Envelopes
    BY <1>1 DEF TypeOK, ArrivalsStored, Stored
  <1>4. \A s \in 1..n : arrivals[s] # k
    BY <1>1 DEF ArrivalsStored
  <1>5. ArrivalLog \in Seq(Log!Entries) /\ Len(ArrivalLog) = n
    <2>1. \A s \in 1..n : [key |-> arrivals[s], envelope |-> events[arrivals[s]]] \in Log!Entries
      BY <1>3 DEF Log!Entries
    <2>2. QED
      BY <1>2, <2>1 DEF ArrivalLog
  <1>6. \A s \in 1..Len(ArrivalLog) : ArrivalLog[s].key # entry.key
    BY <1>4, <1>5 DEF ArrivalLog
  <1>7. \A s \in 1..n : events'[arrivals'[s]] = events[arrivals[s]]
    BY <1>2, <1>3 DEF ArrivalsStored
  <1>8. ArrivalLog' = [s \in 1..(n + 1) |-> IF s = n + 1 THEN entry ELSE ArrivalLog[s]]
    BY <1>2, <1>7 DEF ArrivalLog
  <1>9. Append(ArrivalLog, entry)
          = [s \in 1..(n + 1) |-> IF s = n + 1 THEN entry ELSE ArrivalLog[s]]
    BY <1>5
  <1>10. Log!Arrive(entry)
    BY <1>6, <1>8, <1>9 DEF Log!Arrive
  <1>11. QED
    BY <1>10 DEF Log!Next, Log!Entries

\* The event store implements the append-only log.
THEOREM Refinement == Spec => ImplementsEventLog
  <1>1. Init => Log!Init
    BY DEF Init, Log!Init, ArrivalLog
  <1>2. IInv /\ [Next]_vars => [Log!Next]_ArrivalLog
    <2> SUFFICES ASSUME IInv, [Next]_vars PROVE [Log!Next]_ArrivalLog
      OBVIOUS
    <2>1. UNCHANGED durable => UNCHANGED ArrivalLog
      BY DEF durable, ArrivalLog
    <2>2. UNCHANGED vars => UNCHANGED durable
      BY DEF vars, durable
    <2>3. QED
      BY <2>1, <2>2, StepWrites, WriteArrives DEF IInv
  <1>3. QED
    BY <1>1, <1>2, Invariance, PTL DEF Spec, ImplementsEventLog, Log!Spec
=============================================================================
