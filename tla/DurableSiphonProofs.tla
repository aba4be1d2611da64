------------------------- MODULE DurableSiphonProofs -------------------------
(***************************************************************************)
(* Theorems about DurableSiphon, for any log, streams, consumers, limits   *)
(* and bounds: delivery leaves no gap, the cursor never moves back, and a  *)
(* poll asleep has missed nothing.                                         *)
(***************************************************************************)
EXTENDS DurableSiphon, TLAPS, FiniteSetTheorems, WellFoundedInduction

\* What there is between the cursor and the end of the outstanding batch is in the
\* batch, of this siphon's creation, or not for delivery.
Outstanding ==
  siphon # NoSiphon /\ siphon.pending # NoBatch =>
    LET batch == siphon.pending IN
    /\ batch.of = creates /\ siphon.cursor <= batch.through
    /\ \A s \in batch.seqs : s > siphon.cursor
    /\ \A s \in siphon.cursor + 1 .. batch.through :
         Selected(s) => s \in batch.seqs \/ Superseded(s)

\* Siphons are made by Create.
Created == siphon # NoSiphon => creates > 0

\* A consumer acknowledges what it has processed; a delivery ID names one batch.
Honest ==
  \A c \in Consumers :
    /\ pc[c] = "acking" => held[c] \in handled
    /\ pc[c] \in {"working", "acking"} /\ Confirms(held[c]) => held[c] = siphon.pending

\* A poll that came back empty and was not woken has missed nothing.
Alert ==
  \A c \in Consumers :
    pc[c] \in {"empty", "waiting"} /\ ~woken[c] /\ unsignalled = 0 /\ siphon # NoSiphon
      => \A s \in Matches(siphon.cursor) : s <= backlog

\* The inductive invariant.
IInv == TypeOK /\ Created /\ Outstanding /\ Honest /\ Alert /\ NothingSkipped

-----------------------------------------------------------------------------
\* Sets of sequence numbers have a smallest and a largest element.
LEMMA Smallest ==
  ASSUME NEW T \in SUBSET Nat, T # {}
  PROVE  \E x \in T : \A y \in T : x <= y
  <1>1. PICK x \in T : \A y \in T : <<y, x>> \notin OpToRel(<, Nat)
    BY NatLessThanWellFounded, WFMin
  <1>2. \A y \in T : ~(y < x)
    BY <1>1 DEF OpToRel
  <1>3. QED
    BY <1>2

\* Max is their largest element, below a bound.
LEMMA Largest ==
  ASSUME NEW n \in Nat, NEW T \in SUBSET (0..n), T # {}
  PROVE  Max(T) \in T /\ \A t \in T : t <= Max(T)
  <1> DEFINE U == {n - t : t \in T}
  <1>1. U \in SUBSET Nat /\ U # {}
    <2>1. \A t \in T : n - t \in Nat
      OBVIOUS
    <2>2. PICK t \in T : TRUE
      OBVIOUS
    <2>3. n - t \in U
      OBVIOUS
    <2>4. QED
      BY <2>1, <2>3
  <1>2. PICK u \in U : \A y \in U : u <= y
    BY <1>1, Smallest
  <1>3. PICK x \in T : u = n - x
    BY <1>2
  <1>4. \A t \in T : n - x <= n - t
    BY <1>2, <1>3
  <1>5. \A t \in T : x >= t
    BY <1>4
  <1>6. \E y \in T : \A t \in T : y >= t
    BY <1>5
  <1>7. Max(T) \in T /\ \A t \in T : Max(T) >= t
    BY <1>6 DEF Max
  <1>8. QED
    BY <1>7

\* What a scan of the index collects: some match, and every match up to where it stops
\* (prepareDurableDelivery).
LEMMA Scan ==
  ASSUME Len(log) \in Nat, NEW cursor \in 0..Len(log), NEW limit \in Limits, Found(cursor)
  PROVE  /\ FirstMatches(cursor, limit) \subseteq Matches(cursor)
         /\ FirstMatches(cursor, limit) # {}
         /\ Through(cursor, limit) \in cursor + 1 .. Len(log)
         /\ \A s \in FirstMatches(cursor, limit) : s <= Through(cursor, limit)
         /\ \A s \in Matches(cursor) :
              s <= Through(cursor, limit) => s \in FirstMatches(cursor, limit)
  <1> DEFINE M == Matches(cursor)
             F == FirstMatches(cursor, limit)
             UpTo(s) == {t \in M : t <= s}
  <1>1. M \subseteq cursor + 1 .. Len(log) /\ M # {} /\ M \subseteq Unread(cursor)
        /\ Unread(cursor) \subseteq cursor + 1 .. Len(log)
    BY DEF Matches, Unread, Found
  <1>2. IsFiniteSet(M) /\ Cardinality(M) \in Nat
    <2>1. IsFiniteSet(cursor + 1 .. Len(log))
      BY FS_Interval
    <2>2. QED
      BY <1>1, <2>1, FS_Subset, FS_CardinalityType
  <1>3. limit \in Nat \ {0}
    BY LimitsAssumption
  <1>4. F = {s \in M : Cardinality(UpTo(s)) <= limit}
    BY DEF FirstMatches
  <1>5. \A s \in M : /\ IsFiniteSet(UpTo(s)) /\ Cardinality(UpTo(s)) \in Nat
                     /\ Cardinality(UpTo(s)) <= Cardinality(M)
    <2>1. \A s \in M : UpTo(s) \in SUBSET M
      OBVIOUS
    <2>2. QED
      BY <1>2, <2>1, FS_Subset, FS_CardinalityType
  <1>6. \A s, t \in M : s <= t => Cardinality(UpTo(s)) <= Cardinality(UpTo(t))
    <2>1. \A s, t \in M : s <= t => UpTo(s) \in SUBSET UpTo(t)
      BY <1>1
    <2>2. QED
      BY <1>5, <2>1, FS_Subset
  <1>7. F # {}
    <2>1. PICK x \in M : \A y \in M : x <= y
      BY <1>1, Smallest
    <2>2. UpTo(x) = {x}
      BY <1>1, <2>1
    <2>3. Cardinality(UpTo(x)) = 1
      BY <2>2, FS_Singleton
    <2>4. QED
      BY <1>3, <1>4, <2>1, <2>3
  <1>8. F \in SUBSET (0..Len(log)) /\ Unread(cursor) \cup {cursor} \in SUBSET (0..Len(log))
    BY <1>1, <1>4
  <1>9. /\ Max(F) \in F /\ \A s \in F : s <= Max(F)
        /\ Max(Unread(cursor) \cup {cursor}) \in Unread(cursor) \cup {cursor}
        /\ \A s \in Unread(cursor) \cup {cursor} : s <= Max(Unread(cursor) \cup {cursor})
    BY <1>7, <1>8, Largest
  <1> HIDE DEF M, F, UpTo
  <1>10. CASE Cardinality(M) >= limit
    <2>1. Through(cursor, limit) = Max(F)
      BY <1>10 DEF Through, M, F
    <2>2. Max(F) \in M /\ Cardinality(UpTo(Max(F))) <= limit
      BY <1>4, <1>9
    <2>3. ASSUME NEW s \in M, s <= Max(F) PROVE s \in F
      <3>1. /\ Cardinality(UpTo(s)) <= Cardinality(UpTo(Max(F)))
            /\ Cardinality(UpTo(s)) \in Nat /\ Cardinality(UpTo(Max(F))) \in Nat
        BY <1>5, <1>6, <2>2, <2>3
      <3>2. Cardinality(UpTo(s)) <= limit
        BY <1>3, <2>2, <3>1
      <3>3. QED
        BY <1>4, <3>2
    <2>4. QED
      BY <1>1, <1>4, <1>7, <1>9, <2>1, <2>2, <2>3 DEF M, F
  <1>11. CASE ~(Cardinality(M) >= limit)
    <2>1. Through(cursor, limit) = Max(Unread(cursor) \cup {cursor})
      BY <1>11 DEF Through, M, F
    <2>2. F = M
      <3>1. \A s \in M : Cardinality(UpTo(s)) <= limit
        BY <1>2, <1>3, <1>5, <1>11
      <3>2. QED
        BY <1>4, <3>1
    <2>3. Through(cursor, limit) \in cursor + 1 .. Len(log)
      <3>1. PICK m \in M : m \in Unread(cursor) /\ m \in cursor + 1 .. Len(log)
        BY <1>1
      <3>2. m <= Max(Unread(cursor) \cup {cursor})
        BY <1>9, <3>1
      <3>3. Max(Unread(cursor) \cup {cursor}) \in 0..Len(log)
        BY <1>8, <1>9
      <3>4. QED
        BY <2>1, <3>1, <3>2, <3>3
    <2>4. QED
      BY <1>1, <1>7, <1>9, <2>1, <2>2, <2>3 DEF M, F
  <1>12. QED
    BY <1>10, <1>11

\* When nothing is found, the scan passes the whole index.
LEMMA ScanAll ==
  ASSUME Len(log) \in Nat, NEW cursor \in 0..Len(log)
  PROVE  /\ Max(Unread(cursor) \cup {cursor}) \in cursor .. Len(log)
         /\ Matches(cursor) \subseteq cursor + 1 .. Len(log)
  <1>1. Unread(cursor) \cup {cursor} \in SUBSET (0..Len(log))
    BY DEF Unread
  <1>2. /\ Max(Unread(cursor) \cup {cursor}) \in 0..Len(log)
        /\ cursor <= Max(Unread(cursor) \cup {cursor})
    BY <1>1, Largest
  <1>3. QED
    BY <1>2 DEF Matches, Unread

-----------------------------------------------------------------------------
\* What the arrival of an event leaves as it was.
LEMMA LogGrows ==
  ASSUME TypeOK, Arrive
  PROVE  /\ log' \in Seq(Arrivals) /\ Len(log') = Len(log) + 1 /\ Len(log) \in Nat
         /\ \A s \in 1..Len(log) : log'[s] = log[s]
  <1>1. PICK e \in Arrivals : log' = Append(log, e)
    BY DEF Arrive, Store!Arrive
  <1>2. QED
    BY <1>1 DEF TypeOK

\* The events there are stay selected, and superseded if they are.
LEMMA ViewGrows ==
  ASSUME TypeOK, Arrive \/ UNCHANGED log
  PROVE  /\ \A s \in 1..Len(log) : Selected(s)' <=> Selected(s)
         /\ \A s \in 1..Len(log) : Superseded(s) => Superseded(s)'
  <1>1. CASE UNCHANGED log
    BY <1>1 DEF Selected, Superseded, InNetwork
  <1>2. CASE Arrive
    BY <1>2, LogGrows DEF Selected, Superseded, InNetwork
  <1>3. QED
    BY <1>1, <1>2

\* Types, by what the steps touch.
LEMMA BatchesGrow ==
  ASSUME TypeOK, log' \in Seq(Arrivals), Len(log) <= Len(log'),
         issued' \in Nat, issued <= issued', creates' \in 0..MaxCreates, creates <= creates'
  PROVE  /\ Batches \subseteq Batches'
         /\ held \in [Consumers -> Batches' \cup {NoBatch}]
         /\ siphon \in [cursor : 0..Len(log'), pending : Batches' \cup {NoBatch}] \cup {NoSiphon}
         /\ \A c \in Consumers : pc[c] \in {"working", "acking"} => held[c] \in Batches'
         /\ handled \subseteq Batches'
  <1>1. Len(log) \in Nat /\ Len(log') \in Nat /\ issued \in Nat /\ creates \in Nat
    BY LimitsAssumption DEF TypeOK
  <1>2. Batches \subseteq Batches'
    BY <1>1, LimitsAssumption DEF Batches
  <1>3. 0..Len(log) \subseteq 0..Len(log')
    BY <1>1
  <1> HIDE DEF Batches
  <1>4. QED
    BY <1>2, <1>3 DEF TypeOK

\* A scan gives a batch (prepareDurableDelivery).
LEMMA PrepareWrites ==
  ASSUME TypeOK, Created, NEW c \in Consumers, Prepare(c)
  PROVE  /\ siphon # NoSiphon /\ siphon.pending = NoBatch /\ issued' = issued + 1
         /\ \E batch \in Batches' :
              /\ siphon' = [siphon EXCEPT !.pending = batch]
              /\ held' = [held EXCEPT ![c] = batch]
              /\ batch.id = issued + 1 /\ batch.of = creates
              /\ siphon.cursor <= batch.through
              /\ \A s \in batch.seqs : s > siphon.cursor
              /\ \A s \in siphon.cursor + 1 .. batch.through :
                   Selected(s) => s \in batch.seqs \/ Superseded(s)
  <1> DEFINE cursor == siphon.cursor
  <1>1. PICK limit \in Limits :
          LET batch == [id |-> issued + 1, of |-> creates, through |-> Through(cursor, limit),
                        seqs |-> FirstMatches(cursor, limit)]
          IN  siphon' = [siphon EXCEPT !.pending = batch] /\ held' = [held EXCEPT ![c] = batch]
    BY DEF Prepare, Given
  <1> DEFINE batch == [id |-> issued + 1, of |-> creates, through |-> Through(cursor, limit),
                       seqs |-> FirstMatches(cursor, limit)]
  <1>2. /\ siphon # NoSiphon /\ siphon.pending = NoBatch /\ issued' = issued + 1
        /\ Found(cursor) /\ UNCHANGED <<log, creates>>
    BY DEF Prepare, arriving, creation
  <1>3. cursor \in 0..Len(log) /\ Len(log) \in Nat /\ issued \in Nat /\ creates \in 0..MaxCreates
    BY <1>2 DEF TypeOK
  <1>4. /\ Through(cursor, limit) \in cursor + 1 .. Len(log)
        /\ FirstMatches(cursor, limit) \subseteq Matches(cursor)
        /\ FirstMatches(cursor, limit) # {}
        /\ \A s \in Matches(cursor) :
             s <= Through(cursor, limit) => s \in FirstMatches(cursor, limit)
    BY <1>2, <1>3, Scan
  <1>5. Matches(cursor) \subseteq cursor + 1 .. Len(log)
    BY <1>3, ScanAll
  <1>6. \A s \in cursor + 1 .. Through(cursor, limit) :
          Selected(s) => s \in FirstMatches(cursor, limit) \/ Superseded(s)
    BY <1>3, <1>4 DEF Matches, Unread, Selected
  <1>7. creates \in 1..creates
    BY <1>2, <1>3, LimitsAssumption DEF Created
  <1>8. batch \in Batches'
    <2>1. issued + 1 \in 1..issued' /\ Through(cursor, limit) \in 1..Len(log)
      BY <1>2, <1>3, <1>4
    <2>2. FirstMatches(cursor, limit) \in (SUBSET (1..Len(log))) \ {{}}
      BY <1>3, <1>4, <1>5
    <2>3. log' = log /\ creates' = creates
      BY <1>2
    <2>4. batch \in [id : 1..issued', of : 1..creates', through : 1..Len(log'),
                     seqs : (SUBSET (1..Len(log'))) \ {{}}]
      BY <1>7, <2>1, <2>2, <2>3
    <2> HIDE DEF batch
    <2>5. QED
      BY <2>4 DEF Batches
  <1>9. /\ batch.id = issued + 1 /\ batch.of = creates /\ batch.through = Through(cursor, limit)
        /\ batch.seqs = FirstMatches(cursor, limit)
    OBVIOUS
  <1>10. siphon' = [siphon EXCEPT !.pending = batch] /\ held' = [held EXCEPT ![c] = batch]
    BY <1>1
  <1>11. cursor <= Through(cursor, limit) /\ \A s \in FirstMatches(cursor, limit) : s > cursor
    BY <1>3, <1>4, <1>5
  <1> HIDE DEF batch
  <1>12. QED
    BY <1>2, <1>6, <1>8, <1>9, <1>10, <1>11

\* The invariant holds before anything arrived.
LEMMA InitInvariant == Init => IInv
  <1> SUFFICES ASSUME Init PROVE IInv
    OBVIOUS
  <1>1. log = <<>> /\ Len(log) = 0
    BY DEF Init, Store!Init
  <1>2. TypeOK
    BY <1>1, LimitsAssumption DEF Init, TypeOK
  <1>3. Created /\ Outstanding /\ Honest /\ Alert /\ NothingSkipped
    BY DEF Init, Created, Outstanding, Honest, Alert, NothingSkipped
  <1>4. QED
    BY <1>2, <1>3 DEF IInv

\* The steps that change neither the log nor the siphon.
Frame == UNCHANGED <<log, siphon, creation, issued>>

\* A step keeps the types.
LEMMA TypeStep == TypeOK /\ Created /\ [Next]_vars => TypeOK' /\ Created'
  <1> SUFFICES ASSUME TypeOK, Created, [Next]_vars PROVE TypeOK' /\ Created'
    OBVIOUS
  <1>0. /\ MaxCreates \in Nat /\ MaxFailures \in Nat
        /\ Len(log) \in Nat /\ creates \in 0..MaxCreates /\ issued \in Nat
    BY LimitsAssumption DEF TypeOK
  <1>1. ASSUME Frame PROVE Batches' = Batches /\ Created'
    BY <1>1 DEF Frame, Batches, Created, creation
  <1>2. CASE UNCHANGED vars
    BY <1>1, <1>2 DEF vars, TypeOK, Frame, creation
  <1>3. CASE Arrive
    <2>1. log' \in Seq(Arrivals) /\ Len(log') = Len(log) + 1
      BY <1>3, LogGrows
    <2>2. UNCHANGED <<siphon, creation, issued, consumers, handled, failures>>
      BY <1>3 DEF Arrive
    <2>3. /\ siphon \in [cursor : 0..Len(log'), pending : Batches' \cup {NoBatch}] \cup {NoSiphon}
          /\ held \in [Consumers -> Batches' \cup {NoBatch}]
          /\ \A c \in Consumers : pc[c] \in {"working", "acking"} => held[c] \in Batches'
          /\ handled \subseteq Batches'
      BY <1>0, <2>1, <2>2, BatchesGrow DEF creation
    <2>4. /\ unsignalled' \in 0..Len(log') /\ backlog \in 0..Len(log') /\ begin \in {0, backlog}
      BY <1>0, <1>3, <2>1 DEF Arrive, TypeOK
    <2>5. QED
      BY <2>1, <2>2, <2>3, <2>4 DEF TypeOK, Created, creation, consumers
  <1>4. CASE Signal
    BY <1>0, <1>1, <1>4 DEF Signal, TypeOK, Frame, creation
  <1>5. CASE Create
    <2>1. creates' = creates + 1 /\ creates' \in 0..MaxCreates /\ UNCHANGED <<log, issued>>
      BY <1>0, <1>5 DEF Create, arriving
    <2>2. /\ held \in [Consumers -> Batches' \cup {NoBatch}]
          /\ \A c \in Consumers : pc[c] \in {"working", "acking"} => held[c] \in Batches'
          /\ handled \subseteq Batches'
      BY <1>0, <2>1, BatchesGrow DEF TypeOK
    <2>3. /\ siphon' \in [cursor : 0..Len(log'), pending : Batches' \cup {NoBatch}] \cup {NoSiphon}
          /\ backlog' \in 0..Len(log') /\ begin' \in {0, backlog'}
      BY <1>0, <1>5, <2>1 DEF Create
    <2>4. creates' > 0
      BY <1>0, <2>1
    <2>5. QED
      BY <1>5, <2>1, <2>2, <2>3, <2>4 DEF Create, TypeOK, Created, arriving, consumers
  <1>6. CASE Delete
    <2>1. Batches' = Batches
      BY <1>6 DEF Delete, Batches, arriving, creation
    <2>2. QED
      BY <1>6, <2>1 DEF Delete, TypeOK, Created, arriving, creation, consumers
  <1>7. CASE Restart
    BY <1>0, <1>1, <1>7 DEF Restart, TypeOK, Frame, creation
  <1>8. ASSUME NEW c \in Consumers,
               \/ TakeWake(c) \/ PollRefused(c) \/ Sleep(c) \/ Wake(c) \/ Deadline(c)
        PROVE  TypeOK' /\ Created'
    <2>1. Frame /\ Batches' = Batches
      BY <1>1, <1>8 DEF TakeWake, PollRefused, Sleep, Wake, Deadline, Frame, arriving
    <2>2. QED
      BY <1>8, <2>1, <1>1
        DEF TakeWake, PollRefused, Sleep, Wake, Deadline, Goes, Returns, TypeOK, Frame, arriving,
            creation
  <1>9. ASSUME NEW c \in Consumers, Replay(c) PROVE TypeOK' /\ Created'
    <2>1. Frame /\ Batches' = Batches /\ siphon.pending \in Batches
      BY <1>1, <1>9 DEF Replay, Frame, arriving, TypeOK
    <2>2. QED
      BY <1>9, <2>1, <1>1 DEF Replay, Given, Goes, Returns, TypeOK, Frame, arriving, creation
  <1>10. ASSUME NEW c \in Consumers, Prepare(c) PROVE TypeOK' /\ Created'
    <2>1. PICK batch \in Batches' : /\ siphon' = [siphon EXCEPT !.pending = batch]
                                    /\ held' = [held EXCEPT ![c] = batch]
      BY <1>10, PrepareWrites
    <2>2. /\ siphon # NoSiphon /\ issued' = issued + 1
          /\ UNCHANGED <<arriving, creation, handled, failures>>
      BY <1>10 DEF Prepare
    <2>3. /\ siphon \in [cursor : 0..Len(log'), pending : Batches' \cup {NoBatch}]
          /\ held \in [Consumers -> Batches' \cup {NoBatch}]
          /\ \A x \in Consumers : pc[x] \in {"working", "acking"} => held[x] \in Batches'
          /\ handled \subseteq Batches'
      BY <1>0, <2>2, BatchesGrow DEF TypeOK, arriving, creation
    <2>4. siphon' \in [cursor : 0..Len(log'), pending : Batches' \cup {NoBatch}]
      BY <2>1, <2>3
    <2>5. /\ pc' = [pc EXCEPT ![c] = "working"] /\ woken' = [woken EXCEPT ![c] = FALSE]
      BY <1>10 DEF Prepare, Given, Returns, Goes
    <2>6. /\ held' \in [Consumers -> Batches' \cup {NoBatch}]
          /\ \A x \in Consumers : IF pc'[x] \in {"working", "acking"} THEN held'[x] \in Batches'
                                                                      ELSE held'[x] = NoBatch
      BY <2>1, <2>3, <2>5 DEF TypeOK
    <2>7. issued' \in Nat /\ log' = log
      BY <1>0, <2>2 DEF arriving
    <2>8. /\ pc' \in [Consumers -> {"idle", "watching", "empty", "waiting", "working", "acking"}]
          /\ woken' \in [Consumers -> BOOLEAN]
      BY <2>5 DEF TypeOK
    <2>9. TypeOK'
      BY <2>2, <2>3, <2>4, <2>6, <2>7, <2>8 DEF TypeOK, arriving, creation
    <2>10. QED
      BY <2>2, <2>9 DEF Created, creation
  <1>11. ASSUME NEW c \in Consumers, FindNothing(c) PROVE TypeOK' /\ Created'
    <2>1. /\ siphon \in [cursor : 0..Len(log), pending : Batches \cup {NoBatch}]
          /\ UNCHANGED <<arriving, creation, issued, woken, held, handled, failures>>
          /\ pc' = [pc EXCEPT ![c] = "empty"] /\ pc[c] = "watching"
      BY <1>11 DEF FindNothing, Goes, TypeOK
    <2>2. Batches' = Batches
      BY <2>1 DEF Batches, arriving, creation
    <2>3. Max(Unread(siphon.cursor) \cup {siphon.cursor}) \in 0..Len(log)
      BY <1>0, <2>1, ScanAll
    <2>4. siphon' \in [cursor : 0..Len(log), pending : Batches \cup {NoBatch}]
      BY <1>11, <2>1, <2>3 DEF FindNothing
    <2>5. siphon # NoSiphon
      BY <1>11 DEF FindNothing
    <2>6. QED
      BY <2>1, <2>2, <2>4, <2>5 DEF TypeOK, Created, arriving, creation
  <1>12. ASSUME NEW c \in Consumers, Process(c) PROVE TypeOK' /\ Created'
    <2>1. Frame /\ Batches' = Batches /\ held[c] \in Batches
      BY <1>1, <1>12 DEF Process, Frame, arriving, TypeOK
    <2>2. QED
      BY <1>12, <2>1, <1>1 DEF Process, Goes, TypeOK, Frame, arriving, creation
  <1>13. ASSUME NEW c \in Consumers, Acknowledge(c) PROVE TypeOK' /\ Created'
    <2>1. UNCHANGED <<arriving, creation, issued, woken, handled, failures>> /\ Batches' = Batches
      BY <1>13 DEF Acknowledge, Batches, arriving, creation
    <2>2. /\ siphon' \in [cursor : 0..Len(log), pending : Batches \cup {NoBatch}] \cup {NoSiphon}
          /\ siphon = NoSiphon => siphon' = NoSiphon
      <3>1. CASE Confirms(held[c])
        <4>1. siphon # NoSiphon /\ siphon.pending \in Batches
          BY <3>1 DEF Confirms, TypeOK
        <4>2. siphon.pending.through \in 0..Len(log)
          BY <1>0, <4>1 DEF Batches
        <4>3. siphon' = [cursor |-> siphon.pending.through, pending |-> NoBatch]
          BY <1>13, <3>1 DEF Acknowledge, Acknowledged
        <4>4. QED
          BY <4>1, <4>2, <4>3
      <3>2. CASE ~Confirms(held[c])
        BY <1>13, <3>2 DEF Acknowledge, TypeOK
      <3>3. QED
        BY <3>1, <3>2
    <2>3. /\ pc' = [pc EXCEPT ![c] = "idle"] /\ held' = [held EXCEPT ![c] = NoBatch]
      BY <1>13 DEF Acknowledge, Goes
    <2>4. QED
      BY <1>0, <2>1, <2>2, <2>3 DEF TypeOK, Created, arriving, creation
  <1>14. ASSUME NEW c \in Consumers, Fail(c) PROVE TypeOK' /\ Created'
    <2>1. Frame /\ Batches' = Batches /\ failures' \in 0..MaxFailures
      BY <1>0, <1>1, <1>14 DEF Fail, Frame, arriving, TypeOK
    <2>2. QED
      BY <1>14, <2>1, <1>1 DEF Fail, Goes, Returns, TypeOK, Frame, arriving, creation
  <1>15. QED
    BY <1>2, <1>3, <1>4, <1>5, <1>6, <1>7, <1>8, <1>9, <1>10, <1>11, <1>12, <1>13, <1>14
      DEF Next, Poll

-----------------------------------------------------------------------------
\* What an acknowledgement does to the siphon (acknowledgeDurableSiphon).
LEMMA AcknowledgeWrites ==
  ASSUME TypeOK, NEW c \in Consumers, Acknowledge(c)
  PROVE  \/ ~Confirms(held[c]) /\ siphon' = siphon
         \/ /\ Confirms(held[c]) /\ siphon # NoSiphon /\ siphon.pending # NoBatch
            /\ siphon.pending \in Batches
            /\ siphon'.cursor = siphon.pending.through /\ siphon'.pending = NoBatch
  BY DEF Acknowledge, Acknowledged, Confirms, TypeOK

\* What a scan that finds nothing does to the siphon (prepareDurableDelivery).
LEMMA FindNothingWrites ==
  ASSUME TypeOK, NEW c \in Consumers, FindNothing(c)
  PROVE  /\ siphon # NoSiphon /\ siphon.pending = NoBatch
         /\ Matches(siphon.cursor) = {}
         /\ siphon.cursor \in 0..Len(log) /\ Len(log) \in Nat
         /\ siphon'.cursor \in siphon.cursor .. Len(log) /\ siphon'.pending = NoBatch
  <1>1. /\ siphon # NoSiphon /\ siphon.pending = NoBatch /\ Matches(siphon.cursor) = {}
        /\ siphon' = [siphon EXCEPT !.cursor = Max(Unread(siphon.cursor) \cup {siphon.cursor})]
    BY DEF FindNothing, Found
  <1>2. siphon \in [cursor : 0..Len(log), pending : Batches \cup {NoBatch}] /\ Len(log) \in Nat
    BY <1>1 DEF TypeOK
  <1>3. Max(Unread(siphon.cursor) \cup {siphon.cursor}) \in siphon.cursor .. Len(log)
    BY <1>2, ScanAll
  <1>4. QED
    BY <1>1, <1>2, <1>3

\* The steps at which the siphon and its log rest.
Rests ==
  \/ Signal \/ Restart \/ UNCHANGED vars
  \/ \E c \in Consumers : TakeWake(c) \/ Replay(c) \/ PollRefused(c) \/ Sleep(c) \/ Wake(c)
                          \/ Deadline(c) \/ Process(c) \/ Fail(c)

\* Steps at rest keep log and siphon, and forget no batch that was processed.
LEMMA RestsFrame == Rests => Frame /\ handled \subseteq handled'
  BY DEF Rests, Frame, Signal, Restart, TakeWake, Replay, PollRefused, Sleep, Wake, Deadline,
         Process, Fail, arriving, creation, consumers, vars

\* Every step is one at rest or one of the others.
LEMMA Steps ==
  [Next]_vars => \/ Rests \/ Arrive \/ Create \/ Delete
                 \/ \E c \in Consumers : Prepare(c) \/ FindNothing(c) \/ Acknowledge(c)
  BY DEF Next, Poll, Rests

\* The outstanding batch holds what a scan found, however the log grows.
LEMMA OutstandingStep == TypeOK /\ Created /\ Outstanding /\ [Next]_vars => Outstanding'
  <1> SUFFICES ASSUME TypeOK, Created, Outstanding, [Next]_vars PROVE Outstanding'
    OBVIOUS
  <1>1. CASE Rests
    BY <1>1, RestsFrame DEF Frame, Outstanding, creation, Selected, Superseded, InNetwork
  <1>2. CASE Arrive
    <2>1. /\ siphon' = siphon /\ creates' = creates
      BY <1>2 DEF Arrive, creation
    <2>2. siphon # NoSiphon /\ siphon.pending # NoBatch =>
            \A s \in siphon.cursor + 1 .. siphon.pending.through : s \in 1..Len(log)
      BY LogGrows, <1>2 DEF TypeOK, Batches
    <2>3. QED
      BY <1>2, <2>1, <2>2, ViewGrows DEF Outstanding
  <1>3. CASE Create \/ Delete
    BY <1>3 DEF Create, Delete, Outstanding
  <1>4. ASSUME NEW c \in Consumers, Prepare(c) PROVE Outstanding'
    <2>1. PICK batch \in Batches' :
              /\ siphon' = [siphon EXCEPT !.pending = batch]
              /\ batch.of = creates /\ siphon.cursor <= batch.through
              /\ \A s \in batch.seqs : s > siphon.cursor
              /\ \A s \in siphon.cursor + 1 .. batch.through :
                   Selected(s) => s \in batch.seqs \/ Superseded(s)
      BY <1>4, PrepareWrites
    <2>2. siphon'.pending = batch /\ siphon'.cursor = siphon.cursor
      BY <1>4, <2>1 DEF Prepare, TypeOK
    <2>3. log' = log /\ creates' = creates
      BY <1>4 DEF Prepare, arriving, creation
    <2>4. \A s \in 1..Len(log) : (Selected(s)' <=> Selected(s)) /\ (Superseded(s) => Superseded(s)')
      BY <2>3, ViewGrows
    <2>5. \A s \in siphon.cursor + 1 .. batch.through : s \in 1..Len(log)
      BY <1>4, <2>1, <2>3 DEF Prepare, TypeOK, Batches
    <2>6. QED
      BY <2>1, <2>2, <2>3, <2>4, <2>5 DEF Outstanding
  <1>5. ASSUME NEW c \in Consumers, FindNothing(c) PROVE Outstanding'
    BY <1>5, FindNothingWrites DEF Outstanding
  <1>6. ASSUME NEW c \in Consumers, Acknowledge(c) PROVE Outstanding'
    <2>1. UNCHANGED <<log, creates>>
      BY <1>6 DEF Acknowledge, arriving, creation
    <2>2. QED
      BY <1>6, <2>1, AcknowledgeWrites DEF Outstanding, Selected, Superseded, InNetwork
  <1>7. QED
    BY <1>1, <1>2, <1>3, <1>4, <1>5, <1>6, Steps

\* A delivery ID is used once, and acknowledged by those who processed its batch.
LEMMA HonestStep == TypeOK /\ Created /\ Honest /\ [Next]_vars => Honest'
  <1> SUFFICES ASSUME TypeOK, Created, Honest, [Next]_vars PROVE Honest'
    OBVIOUS
  <1>1. CASE \/ Signal \/ Restart \/ UNCHANGED vars \/ Arrive
             \/ \E c \in Consumers : TakeWake(c) \/ PollRefused(c) \/ Sleep(c) \/ Wake(c)
                                     \/ Deadline(c) \/ Fail(c)
    <2>1. UNCHANGED <<siphon, handled>>
      BY <1>1 DEF Signal, Restart, Arrive, TakeWake, PollRefused, Sleep, Wake, Deadline, Fail, vars
    <2>2. \A c \in Consumers : pc'[c] \in {"working", "acking"} => pc'[c] = pc[c] /\ held'[c] = held[c]
      BY <1>1 DEF Signal, Restart, Arrive, TakeWake, PollRefused, Sleep, Wake, Deadline, Fail, Goes,
                  Returns, consumers, vars, TypeOK
    <2>3. QED
      BY <2>1, <2>2 DEF Honest, Confirms
  <1>2. CASE Create \/ Delete
    BY <1>2 DEF Create, Delete, Honest, Confirms, consumers
  <1>3. ASSUME NEW c \in Consumers, Replay(c) PROVE Honest'
    BY <1>3 DEF Replay, Given, Returns, Goes, Honest, Confirms, TypeOK
  <1>4. ASSUME NEW c \in Consumers, Prepare(c) PROVE Honest'
    <2>1. PICK batch \in Batches' :
              /\ siphon' = [siphon EXCEPT !.pending = batch]
              /\ held' = [held EXCEPT ![c] = batch] /\ batch.id = issued + 1
      BY <1>4, PrepareWrites
    <2>2. siphon'.pending = batch /\ held'[c] = batch /\ \A x \in Consumers \ {c} : held'[x] = held[x]
      BY <1>4, <2>1 DEF Prepare, TypeOK
    <2>3. pc' = [pc EXCEPT ![c] = "working"] /\ handled' = handled
      BY <1>4 DEF Prepare, Given, Returns, Goes
    <2>4. \A x \in Consumers : pc[x] \in {"working", "acking"} => held[x].id # issued + 1
      BY DEF TypeOK, Batches
    <2>5. QED
      BY <2>1, <2>2, <2>3, <2>4 DEF Honest, Confirms, TypeOK
  <1>5. ASSUME NEW c \in Consumers, FindNothing(c) PROVE Honest'
    <2>1. siphon'.pending = NoBatch
      BY <1>5, FindNothingWrites
    <2>2. QED
      BY <1>5, <2>1 DEF FindNothing, Goes, Honest, Confirms, TypeOK
  <1>6. ASSUME NEW c \in Consumers, Process(c) PROVE Honest'
    BY <1>6 DEF Process, Goes, Honest, Confirms, TypeOK
  <1>7. ASSUME NEW c \in Consumers, Acknowledge(c) PROVE Honest'
    <2>1. siphon' = siphon \/ siphon'.pending = NoBatch
      BY <1>7, AcknowledgeWrites
    <2>2. \A x \in Consumers : pc'[x] \in {"working", "acking"} => pc'[x] = pc[x] /\ held'[x] = held[x]
      BY <1>7 DEF Acknowledge, Goes, TypeOK
    <2>3. handled' = handled
      BY <1>7 DEF Acknowledge
    <2>4. QED
      BY <2>1, <2>2, <2>3 DEF Honest, Confirms
  <1>8. QED
    BY <1>1, <1>2, <1>3, <1>4, <1>5, <1>6, <1>7 DEF Next, Poll

\* The cursor moves over what was processed, and over what is not for delivery.
LEMMA SkippedStep ==
  TypeOK /\ Created /\ Outstanding /\ Honest /\ NothingSkipped /\ [Next]_vars => NothingSkipped'
  <1> SUFFICES ASSUME TypeOK, Created, Outstanding, Honest, NothingSkipped, [Next]_vars,
                      siphon' # NoSiphon, NEW s \in begin' + 1 .. siphon'.cursor, Selected(s)'
               PROVE  Handled(s)' \/ Superseded(s)'
    BY DEF NothingSkipped
  <1>1. ASSUME siphon # NoSiphon, UNCHANGED creation, handled \subseteq handled',
               s <= siphon.cursor, Arrive \/ UNCHANGED log
        PROVE  Handled(s)' \/ Superseded(s)'
    <2>1. siphon.cursor \in 0..Len(log) /\ Len(log) \in Nat /\ begin \in Nat
      BY <1>1 DEF TypeOK
    <2>2. s \in begin + 1 .. siphon.cursor /\ s \in 1..Len(log)
      BY <1>1, <2>1 DEF creation
    <2>3. Selected(s) /\ (Superseded(s) => Superseded(s)')
      BY <1>1, <2>2, ViewGrows
    <2>4. Handled(s) => Handled(s)'
      BY <1>1 DEF Handled, creation
    <2>5. QED
      BY <1>1, <2>2, <2>3, <2>4 DEF NothingSkipped
  <1>2. CASE Rests
    BY <1>1, <1>2, RestsFrame DEF Frame, creation, TypeOK
  <1>3. CASE Arrive
    BY <1>1, <1>3 DEF Arrive, creation, TypeOK
  <1>4. CASE Create
    <2>1. siphon'.cursor = begin' /\ begin' \in Nat
      BY <1>4 DEF Create, TypeOK
    <2>2. \A n \in Nat : s \notin n + 1 .. n
      OBVIOUS
    <2>3. s \in begin' + 1 .. begin'
      BY <2>1
    <2>4. QED
      BY <2>1, <2>2, <2>3
  <1>5. CASE Delete
    BY <1>5 DEF Delete
  <1>6. ASSUME NEW c \in Consumers, Prepare(c) PROVE Handled(s)' \/ Superseded(s)'
    <2>1. siphon'.cursor = siphon.cursor /\ siphon # NoSiphon
      BY <1>6, PrepareWrites DEF TypeOK
    <2>2. QED
      BY <1>1, <1>6, <2>1 DEF Prepare, arriving, creation, TypeOK
  <1>7. ASSUME NEW c \in Consumers, FindNothing(c) PROVE Handled(s)' \/ Superseded(s)'
    <2>1. /\ siphon # NoSiphon /\ Matches(siphon.cursor) = {}
          /\ siphon.cursor \in Nat /\ Len(log) \in Nat
          /\ siphon'.cursor \in siphon.cursor .. Len(log)
      BY <1>7, FindNothingWrites
    <2>2. UNCHANGED <<log, creation, handled>>
      BY <1>7 DEF FindNothing, arriving
    <2>3. CASE s > siphon.cursor
      <3>1. Selected(s) /\ s \in 1..Len(log)
        BY <2>1, <2>2, <2>3 DEF Selected, InNetwork, TypeOK
      <3>2. Superseded(s)
        BY <2>1, <2>3, <3>1 DEF Matches, Unread, Selected
      <3>3. QED
        BY <2>2, <3>2 DEF Superseded, InNetwork
    <2>4. CASE ~(s > siphon.cursor)
      BY <1>1, <2>1, <2>2, <2>4 DEF creation, TypeOK
    <2>5. QED
      BY <2>3, <2>4
  <1>8. ASSUME NEW c \in Consumers, Acknowledge(c) PROVE Handled(s)' \/ Superseded(s)'
    <2>1. UNCHANGED <<log, creation, handled>> /\ pc[c] = "acking"
      BY <1>8 DEF Acknowledge, arriving
    <2>2. CASE siphon' = siphon
      BY <1>1, <2>1, <2>2 DEF TypeOK
    <2>3. CASE /\ Confirms(held[c]) /\ siphon # NoSiphon /\ siphon.pending # NoBatch
               /\ siphon.pending \in Batches /\ siphon'.cursor = siphon.pending.through
      <3>1. siphon.pending \in handled /\ siphon.pending.of = creates
        BY <2>1, <2>3 DEF Honest, Outstanding
      <3>2. CASE s > siphon.cursor
        <4>1. s \in siphon.cursor + 1 .. siphon.pending.through /\ Selected(s)
          <5>1. siphon.cursor \in Nat /\ siphon.pending.through \in Nat /\ begin \in Nat
            BY <2>3 DEF TypeOK, Batches
          <5>2. s \in begin + 1 .. siphon.pending.through
            BY <2>1, <2>3 DEF creation
          <5>3. s \in siphon.cursor + 1 .. siphon.pending.through
            BY <3>2, <5>1, <5>2
          <5>4. Selected(s)
            BY <2>1 DEF Selected, InNetwork
          <5>5. QED
            BY <5>3, <5>4
        <4>2. s \in siphon.pending.seqs \/ Superseded(s)
          BY <2>3, <4>1 DEF Outstanding
        <4>3. QED
          BY <2>1, <3>1, <4>2 DEF Handled, Superseded, InNetwork, creation
      <3>3. CASE ~(s > siphon.cursor)
        BY <1>1, <2>1, <2>3, <3>3 DEF TypeOK
      <3>4. QED
        BY <3>2, <3>3
    <2>4. QED
      BY <1>8, <2>2, <2>3, AcknowledgeWrites
  <1>9. QED
    BY <1>2, <1>3, <1>4, <1>5, <1>6, <1>7, <1>8, Steps

\* A poll takes its channel before it looks, so every arrival it missed wakes it.
LEMMA AlertStep == TypeOK /\ Created /\ Outstanding /\ Alert /\ [Next]_vars => Alert'
  <1> SUFFICES ASSUME TypeOK, Created, Outstanding, Alert, [Next]_vars,
                      NEW x \in Consumers, pc'[x] \in {"empty", "waiting"}, ~woken'[x],
                      unsignalled' = 0, siphon' # NoSiphon,
                      NEW s \in Matches(siphon.cursor)'
               PROVE  s <= backlog'
    BY DEF Alert
  <1>0. s \in 1..Len(log') /\ s > siphon'.cursor
    BY DEF Matches, Unread
  <1>1. ASSUME UNCHANGED <<log, creation, unsignalled>>, siphon # NoSiphon,
               pc[x] \in {"empty", "waiting"}, ~woken[x], siphon.cursor <= siphon'.cursor,
               siphon'.cursor \in Nat
        PROVE  s <= backlog'
    <2>1. siphon.cursor \in Nat /\ Len(log) \in Nat
      BY <1>1 DEF TypeOK
    <2>2. s \in Matches(siphon.cursor)
      BY <1>0, <1>1, <2>1 DEF Matches, Unread, Selected, Superseded, InNetwork
    <2>3. QED
      BY <1>1, <2>2 DEF Alert, creation
  <1>2. CASE UNCHANGED vars
    BY <1>1, <1>2 DEF vars, creation, TypeOK
  <1>3. CASE Signal \/ Restart \/ Arrive \/ Delete
    <2>1. CASE Signal
      BY <2>1 DEF Signal
    <2>2. CASE Restart
      <3>1. pc'[x] \notin {"empty", "waiting"}
        BY <2>2 DEF Restart
      <3>2. QED
        BY <3>1
    <2>3. CASE Arrive
      BY <2>3 DEF Arrive, TypeOK
    <2>4. CASE Delete
      BY <2>4 DEF Delete
    <2>5. QED
      BY <1>3, <2>1, <2>2, <2>3, <2>4
  <1>4. CASE Create
    BY <1>0, <1>4 DEF Create, TypeOK, arriving
  <1>5. ASSUME NEW c \in Consumers,
               \/ TakeWake(c) \/ Replay(c) \/ PollRefused(c) \/ Sleep(c) \/ Wake(c)
               \/ Deadline(c) \/ Process(c) \/ Fail(c)
        PROVE  s <= backlog'
    <2>1. UNCHANGED <<log, siphon, creation, unsignalled>>
      BY <1>5 DEF TakeWake, Replay, PollRefused, Sleep, Wake, Deadline, Process, Fail, arriving
    <2>2. pc[x] \in {"empty", "waiting"} /\ ~woken[x]
      BY <1>5 DEF TakeWake, Replay, Given, PollRefused, Sleep, Wake, Deadline, Process, Fail, Goes,
                  Returns, TypeOK
    <2>3. siphon.cursor \in Nat
      BY <2>1 DEF TypeOK
    <2>4. QED
      BY <1>1, <2>1, <2>2, <2>3
  <1>6. ASSUME NEW c \in Consumers, Prepare(c) PROVE s <= backlog'
    <2>1. siphon # NoSiphon /\ siphon'.cursor = siphon.cursor /\ siphon.cursor \in Nat
      BY <1>6, PrepareWrites DEF TypeOK
    <2>2. pc[x] \in {"empty", "waiting"} /\ ~woken[x] /\ UNCHANGED <<log, creation, unsignalled>>
      BY <1>6 DEF Prepare, Given, Goes, Returns, TypeOK, arriving
    <2>3. QED
      BY <1>1, <2>1, <2>2
  <1>7. ASSUME NEW c \in Consumers, FindNothing(c) PROVE s <= backlog'
    <2>1. /\ siphon # NoSiphon /\ Matches(siphon.cursor) = {}
          /\ siphon.cursor \in Nat /\ siphon'.cursor \in Nat /\ siphon.cursor <= siphon'.cursor
      BY <1>7, FindNothingWrites
    <2>2. UNCHANGED <<log, creation, unsignalled, woken>>
      BY <1>7 DEF FindNothing, arriving
    <2>3. CASE x = c
      <3>1. s \in Matches(siphon.cursor)
        BY <1>0, <2>1, <2>2 DEF Matches, Unread, Selected, Superseded, InNetwork
      <3>2. QED
        BY <2>1, <3>1
    <2>4. CASE x # c
      <3>1. pc[x] = pc'[x]
        BY <1>7, <2>4 DEF FindNothing, Goes, TypeOK
      <3>2. QED
        BY <1>1, <2>1, <2>2, <3>1
    <2>5. QED
      BY <2>3, <2>4
  <1>8. ASSUME NEW c \in Consumers, Acknowledge(c) PROVE s <= backlog'
    <2>1. UNCHANGED <<log, creation, unsignalled, woken>> /\ pc[x] \in {"empty", "waiting"}
      BY <1>8 DEF Acknowledge, Goes, arriving, TypeOK
    <2>2. siphon # NoSiphon /\ siphon'.cursor \in Nat /\ siphon.cursor <= siphon'.cursor
      <3>1. CASE siphon' = siphon
        BY <3>1 DEF TypeOK
      <3>2. CASE /\ siphon # NoSiphon /\ siphon.pending # NoBatch /\ siphon.pending \in Batches
                 /\ siphon'.cursor = siphon.pending.through
        BY <3>2 DEF Outstanding, Batches, TypeOK
      <3>3. QED
        BY <1>8, <3>1, <3>2, AcknowledgeWrites
    <2>3. QED
      BY <1>1, <2>1, <2>2
  <1>9. QED
    BY <1>2, <1>3, <1>4, <1>5, <1>6, <1>7, <1>8 DEF Next, Poll

\* The invariant is inductive.
LEMMA StepInvariant == IInv /\ [Next]_vars => IInv'
  BY TypeStep, OutstandingStep, HonestStep, AlertStep, SkippedStep DEF IInv

-----------------------------------------------------------------------------
\* The inductive invariant holds at every step of a siphon and its consumers.
THEOREM SiphonInvariance == Spec => []IInv
  <1>1. Init => IInv
    BY InitInvariant
  <1>2. IInv /\ [Next]_vars => IInv'
    BY StepInvariant
  <1>3. QED
    BY <1>1, <1>2, PTL DEF Spec

\* Batches, deliveries and the cursor stay within the log.
THEOREM SiphonTypes == Spec => []TypeOK
  <1>1. IInv => TypeOK
    BY DEF IInv
  <1>2. QED
    BY <1>1, SiphonInvariance, PTL

\* The cursor passes no event of the siphon's streams that nobody processed,
\* whatever limits, failures, late acknowledgements and restarts there are.
THEOREM ReplayLeavesNoGap == Spec => []NothingSkipped
  <1>1. IInv => NothingSkipped
    BY DEF IInv
  <1>2. QED
    BY <1>1, SiphonInvariance, PTL

\* A poll asleep that nothing is about to wake has missed no event.
THEOREM WakeupsArrive == Spec => []NoLostWakeup
  <1>1. IInv => NoLostWakeup
    BY DEF IInv, Alert, NoLostWakeup
  <1>2. QED
    BY <1>1, SiphonInvariance, PTL

\* The cursor of a living siphon never moves back, and what is outstanding lies
\* behind it.
THEOREM CursorAdvances == Spec => AcknowledgedStaysDone
  <1> DEFINE Step == siphon # NoSiphon /\ siphon' # NoSiphon =>
                       /\ siphon'.cursor >= siphon.cursor
                       /\ siphon'.pending # NoBatch =>
                            \A s \in siphon'.pending.seqs : s > siphon.cursor
  <1>1. ASSUME IInv, IInv', [Next]_vars, siphon # NoSiphon, siphon' # NoSiphon PROVE Step
    <2>1. siphon.cursor \in Nat /\ siphon'.cursor \in Nat
      BY <1>1 DEF IInv, TypeOK
    <2>2. siphon'.cursor >= siphon.cursor
      <3>1. CASE Rests \/ Arrive \/ Create \/ Delete
        BY <1>1, <2>1, <3>1, RestsFrame DEF Frame, Arrive, Create, Delete
      <3>2. ASSUME NEW c \in Consumers, Prepare(c) PROVE siphon'.cursor >= siphon.cursor
        <4>1. siphon' = [siphon EXCEPT !.pending = siphon'.pending]
          BY <1>1, <3>2 DEF Prepare, IInv, TypeOK
        <4>2. siphon \in [cursor : 0..Len(log), pending : Batches \cup {NoBatch}]
          BY <1>1 DEF IInv, TypeOK
        <4>3. siphon'.cursor = siphon.cursor
          BY <4>1, <4>2
        <4>4. QED
          BY <2>1, <4>3
      <3>3. ASSUME NEW c \in Consumers, FindNothing(c) PROVE siphon'.cursor >= siphon.cursor
        BY <1>1, <2>1, <3>3, FindNothingWrites DEF IInv
      <3>4. ASSUME NEW c \in Consumers, Acknowledge(c) PROVE siphon'.cursor >= siphon.cursor
        BY <1>1, <2>1, <3>4, AcknowledgeWrites DEF IInv, Outstanding, Batches
      <3>5. QED
        BY <1>1, <3>1, <3>2, <3>3, <3>4, Steps
    <2>3. ASSUME siphon'.pending # NoBatch, NEW s \in siphon'.pending.seqs
          PROVE  s > siphon.cursor
      <3>1. s > siphon'.cursor
        BY <1>1, <2>3 DEF IInv, Outstanding
      <3>2. siphon'.pending \in Batches'
        BY <1>1, <2>3 DEF IInv, TypeOK
      <3>3. s \in Nat
        BY <2>3, <3>2 DEF Batches
      <3>4. QED
        BY <2>1, <2>2, <3>1, <3>3
    <2>4. QED
      BY <2>2, <2>3
  <1>2. IInv /\ IInv' /\ [Next]_vars => [Step]_vars
    BY <1>1
  <1>3. Spec => [][Step]_vars
    BY <1>2, SiphonInvariance, PTL DEF Spec
  <1>4. QED
    BY <1>3 DEF AcknowledgedStaysDone
=============================================================================
