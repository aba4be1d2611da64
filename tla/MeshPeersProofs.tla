--------------------------- MODULE MeshPeersProofs ---------------------------
(***************************************************************************)
(* Theorems about MeshPeers, for any peers, clients, handshakes and        *)
(* bounds: synchronization respects a leave, and no wake-up is lost.       *)
(***************************************************************************)
EXTENDS MeshPeers, TLAPS

\* What synchronizeKnownPeer may rely on: a leave and a session exclude each other
\* (meshLeaving, meshSyncing), so that the membership of a session stays, and with
\* it the record it began with. Nobody who rests has anything left to do.
Excluded ==
  \A s \in Syncers :
    /\ syncer[s].peer # NoPeer <=> syncer[s].at \in {"gated", "talking", "recorded"}
    /\ leaving # "no" => syncer[s].peer = NoPeer
    /\ syncer[s].at = "talking" => mounted # 0
    /\ syncer[s].known => syncer[s].peer \in Remembered
    /\ syncer[s].at \in {"idle", "woken"} => syncer[s].todo = {}

\* A handshake that proved a membership has one.
Proved == \A h \in Handshakes : shake[h].at = "proved" => shake[h].peer \in Peers /\ shake[h].cred # 0

\* The event loop is going to load the records.
Signalled ==
  \/ ingesting = "committed"
  \/ wakeNetwork /\ (ingesting = "marked" \/ wakeToken \/ syncer[EventLoop].at = "woken")

\* The event loop is going to try p, or talks to p and has missed nothing.
InLoop(p) ==
  LET loop == syncer[EventLoop] IN
  \/ p \in loop.todo /\ (connected[p] \/ p \notin loop.shaky)
  \/ loop.peer = p /\ loop.at \in {"gated", "talking"} /\ ~loop.missed

\* Events are owed to remembered peers; what is promised soon is under way.
Promised ==
  \A p \in Peers :
    /\ owed[p] # "no" => p \in Remembered
    /\ owed[p] = "soon" => /\ connected[p] \/ ~record[p].failing
                           /\ Signalled \/ InLoop(p)

\* The inductive invariant.
IInv == TypeOK /\ Excluded /\ Proved /\ Promised /\ SyncsRespectLeave

\* What a syncer and a handshake may be doing.
SyncStates == [at : {"idle", "woken", "listed", "gated", "talking", "recorded"},
               todo : SUBSET Peers, shaky : SUBSET Peers, peer : Peers \cup {NoPeer},
               known : BOOLEAN, missed : BOOLEAN]
ShakeStates == [at : {"idle", "proved"}, peer : Peers \cup {NoPeer}, cred : 0..MaxMounts]

\* What is known of one syncer.
LEMMA SyncTyped ==
  ASSUME TypeOK, NEW s \in Syncers
  PROVE  syncer \in [Syncers -> SyncStates] /\ syncer[s] \in SyncStates
  BY DEF TypeOK, SyncStates

\* The two loops and the clients are different.
LEMMA Loops ==
  /\ EventLoop \in Syncers /\ RetryLoop \in Syncers /\ EventLoop # RetryLoop
  /\ \A c \in Clients : c \in Syncers /\ c # EventLoop
  /\ NoPeer \notin Peers
  BY NamesAssumption DEF Syncers

\* Records are what the remembered peers have.
LEMMA RecordTyped ==
  ASSUME TypeOK
  PROVE  /\ Remembered \subseteq Peers
         /\ \A p \in Peers : p \in Remembered <=> record[p] \in Records
         /\ \A p \in Peers : p \notin Remembered <=> record[p] = NoRecord
         /\ \A f, d \in BOOLEAN : [failing |-> f, due |-> d] \in Records
  BY NamesAssumption DEF TypeOK, Remembered, Records

\* Only syncer s moves.
Moves(s, e) == e \in SyncStates /\ syncer' = [syncer EXCEPT ![s] = e]

\* A move keeps the other syncers as they are.
LEMMA MovesTyped ==
  ASSUME TypeOK, NEW s \in Syncers, NEW e, Moves(s, e)
  PROVE  /\ syncer' \in [Syncers -> SyncStates] /\ syncer'[s] = e
         /\ \A z \in Syncers \ {s} : syncer'[z] = syncer[z]
  BY SyncTyped DEF Moves

\* A syncer that starts over with a list of peers.
LEMMA LoadsMoves ==
  ASSUME TypeOK, NEW s \in Syncers, NEW peers \in SUBSET Peers, Loads(s, peers)
  PROVE  \E e : /\ Moves(s, e) /\ e.at = "listed" /\ e.todo = peers /\ e.peer = NoPeer
                /\ \A p \in e.shaky : record[p].failing
                /\ ~e.known
  <1> DEFINE shaky == {p \in peers \cap Remembered : record[p].failing}
             e == [Resting EXCEPT !.at = "listed", !.todo = peers, !.shaky = shaky]
  <1>1. shaky \in SUBSET Peers
    OBVIOUS
  <1> HIDE DEF shaky
  <1>2. e \in SyncStates
    BY <1>1 DEF Resting, SyncStates
  <1>3. /\ e.at = "listed" /\ e.todo = peers /\ e.peer = NoPeer /\ e.shaky = shaky
        /\ ~e.known
    BY DEF Resting
  <1>4. Moves(s, e)
    BY <1>2 DEF Loads, Moves, shaky
  <1> HIDE DEF e
  <1>5. QED
    BY <1>3, <1>4 DEF shaky

\* What each step of a syncer does to it.
LEMMA WakeUpMoves ==
  ASSUME TypeOK, WakeUp
  PROVE  \E e : /\ Moves(EventLoop, e) /\ e.at = "woken" /\ e.todo = syncer[EventLoop].todo
                /\ e.peer = syncer[EventLoop].peer /\ e.known = syncer[EventLoop].known
  <1> DEFINE e == [syncer[EventLoop] EXCEPT !.at = "woken"]
  <1>1. syncer[EventLoop] \in SyncStates
    BY SyncTyped, Loops
  <1>2. e \in SyncStates
    BY <1>1 DEF SyncStates
  <1>3. QED
    BY <1>1, <1>2 DEF WakeUp, Moves, SyncStates

\* Skip and Refuse: p is off the list.
LEMMA PassMoves ==
  ASSUME TypeOK, NEW s \in Syncers, NEW p \in Peers, Skip(s, p) \/ Refuse(s, p)
  PROVE  \E e : /\ Moves(s, e) /\ e.at = "listed" /\ e.todo = syncer[s].todo \ {p}
                /\ e.shaky = syncer[s].shaky /\ e.peer = syncer[s].peer
                /\ e.known = syncer[s].known
  <1> DEFINE e == [syncer[s] EXCEPT !.todo = syncer[s].todo \ {p}]
  <1>1. syncer[s] \in SyncStates /\ syncer[s].at = "listed"
    BY SyncTyped DEF Skip, Refuse
  <1>2. e \in SyncStates
    BY <1>1 DEF SyncStates
  <1>3. QED
    BY <1>1, <1>2 DEF Skip, Refuse, Moves, SyncStates

\* Begin: the syncer is at its gate with p, off its list.
LEMMA BeginMoves ==
  ASSUME TypeOK, NEW s \in Syncers, NEW p \in Peers, Begin(s, p)
  PROVE  \E e : /\ Moves(s, e) /\ e.at = "gated" /\ e.todo = syncer[s].todo \ {p}
                /\ e.shaky = syncer[s].shaky /\ e.peer = p
                /\ (e.known => p \in Remembered) /\ ~e.missed
  <1> DEFINE known == p \in Remembered
             e == [syncer[s] EXCEPT !.at = "gated", !.todo = syncer[s].todo \ {p}, !.peer = p,
                                    !.known = known, !.missed = FALSE]
  <1>1. syncer[s] \in SyncStates
    BY SyncTyped
  <1>2. known \in BOOLEAN
    OBVIOUS
  <1>3. syncer' = [syncer EXCEPT ![s] = e]
    BY DEF Begin
  <1> HIDE DEF known
  <1>4. e \in SyncStates
    BY <1>1, <1>2 DEF SyncStates
  <1>5. /\ e.at = "gated" /\ e.todo = syncer[s].todo \ {p} /\ e.shaky = syncer[s].shaky
        /\ e.peer = p /\ e.known = known /\ e.missed = FALSE
    BY <1>1 DEF SyncStates
  <1> HIDE DEF e
  <1>6. QED
    BY <1>3, <1>4, <1>5 DEF Moves, known

\* Converse, Succeed and Fail: the session goes on or ends.
LEMMA SessionMoves ==
  ASSUME TypeOK, NEW s \in Syncers, Converse(s) \/ Succeed(s) \/ Fail(s)
  PROVE  /\ syncer[s].at \in {"gated", "talking"}
         /\ \E e : /\ Moves(s, e) /\ e.at = IF Converse(s) THEN "talking" ELSE "recorded"
                   /\ e.todo = syncer[s].todo /\ e.shaky = syncer[s].shaky
                   /\ e.peer = syncer[s].peer /\ e.known = syncer[s].known
                   /\ e.missed = syncer[s].missed
  <1> DEFINE e(at) == [syncer[s] EXCEPT !.at = at]
  <1>1. syncer[s] \in SyncStates
    BY SyncTyped
  <1>2. e("talking") \in SyncStates /\ e("recorded") \in SyncStates
    BY <1>1 DEF SyncStates
  <1>3. CASE Converse(s)
    BY <1>1, <1>2, <1>3 DEF Converse, Moves, SyncStates
  <1>4. CASE ~Converse(s) /\ (Succeed(s) \/ Fail(s))
    BY <1>1, <1>2, <1>4 DEF Succeed, Fail, Moves, SyncStates
  <1>5. QED
    BY <1>3, <1>4

\* Finish: the syncer goes on with its list.
LEMMA FinishMoves ==
  ASSUME TypeOK, NEW s \in Syncers, Finish(s)
  PROVE  \E e : /\ Moves(s, e) /\ e.at = "listed" /\ e.todo = syncer[s].todo
                /\ e.shaky = syncer[s].shaky /\ e.peer = NoPeer /\ e.known = FALSE
  <1> DEFINE e == [syncer[s] EXCEPT !.at = "listed", !.peer = NoPeer, !.known = FALSE, !.missed = FALSE]
  <1>1. syncer[s] \in SyncStates
    BY SyncTyped
  <1>2. e \in SyncStates
    BY <1>1 DEF SyncStates
  <1>3. QED
    BY <1>1, <1>2 DEF Finish, Moves, SyncStates

\* Rest: the syncer starts over.
LEMMA RestMoves ==
  ASSUME TypeOK, NEW s \in Syncers, Rest(s)
  PROVE  Moves(s, Resting)
  BY DEF Rest, Moves, Resting, SyncStates

\* Syncers while an event is stored: those that talk miss it.
LEMMA IngestMoves ==
  ASSUME TypeOK, Ingest
  PROVE  /\ syncer' \in [Syncers -> SyncStates]
         /\ \A s \in Syncers :
              /\ syncer'[s].at = syncer[s].at /\ syncer'[s].todo = syncer[s].todo
              /\ syncer'[s].peer = syncer[s].peer /\ syncer'[s].known = syncer[s].known
  <1>1. \A s \in Syncers : [syncer[s] EXCEPT !.missed = (syncer[s].at = "talking")] \in SyncStates
    BY SyncTyped DEF SyncStates
  <1>2. QED
    BY <1>1, SyncTyped DEF Ingest, SyncStates

\* The invariant holds before anybody connects.
LEMMA InitInvariant == Init => IInv
  <1> SUFFICES ASSUME Init PROVE IInv
    OBVIOUS
  <1>1. TypeOK
    <2>1. Resting \in SyncStates /\ NoShake \in ShakeStates
      BY BoundsAssumption DEF Resting, NoShake, SyncStates, ShakeStates
    <2>2. syncer \in [Syncers -> SyncStates] /\ shake \in [Handshakes -> ShakeStates]
      BY <2>1 DEF Init
    <2>3. /\ mounts \in 0..MaxMounts /\ mounted \in 0..mounts
          /\ events \in 0..MaxEvents /\ failures \in 0..MaxFailures
      BY BoundsAssumption DEF Init
    <2>4. QED
      BY <2>2, <2>3 DEF Init, TypeOK, SyncStates, ShakeStates
  <1>2. Remembered = {}
    BY DEF Init, Remembered
  <1>3. Excluded /\ Proved
    BY <1>2 DEF Init, Excluded, Proved, Resting, NoShake
  <1>4. Promised /\ SyncsRespectLeave
    BY <1>2 DEF Init, Promised, SyncsRespectLeave
  <1>5. QED
    BY <1>1, <1>3, <1>4 DEF IInv

\* Only the record of p changes.
Writes(p, e) == e \in Records /\ record' = [record EXCEPT ![p] = e]

\* Writing one record leaves the others and forgets nobody.
LEMMA WritesTyped ==
  ASSUME TypeOK, NEW p \in Peers, NEW e, Writes(p, e)
  PROVE  /\ record' \in [Peers -> Records \cup {NoRecord}]
         /\ record'[p] = e /\ Remembered' = Remembered \cup {p}
         /\ \A q \in Peers \ {p} : record'[q] = record[q]
  BY NamesAssumption DEF TypeOK, Writes, Remembered

\* A handshake makes a record, where there was none.
LEMMA RememberWrites ==
  ASSUME TypeOK, Proved, NEW h \in Handshakes, Remember(h)
  PROVE  /\ shake[h].peer \in Peers /\ shake[h].cred # 0
         /\ \E e : /\ Writes(shake[h].peer, e)
                   /\ shake[h].peer \in Remembered => e = record[shake[h].peer]
  <1> DEFINE p == shake[h].peer
             e == IF record[p] = NoRecord THEN [failing |-> FALSE, due |-> TRUE] ELSE record[p]
  <1>1. p \in Peers /\ shake[h].cred # 0
    BY DEF Remember, Proved
  <1>2. e \in Records
    BY <1>1, RecordTyped
  <1>3. record' = [record EXCEPT ![p] = e]
    BY DEF Remember
  <1>4. p \in Remembered => e = record[p]
    BY <1>1, RecordTyped DEF Remembered
  <1> HIDE DEF e
  <1>5. QED
    BY <1>1, <1>2, <1>3, <1>4 DEF Writes

\* Begin and BecomeDue: the record is due, and otherwise as before.
LEMMA DueWrites ==
  ASSUME TypeOK, NEW p \in Remembered, record' = [record EXCEPT ![p].due = TRUE]
  PROVE  \E e : Writes(p, e) /\ e.failing = record[p].failing
  <1> DEFINE e == [record[p] EXCEPT !.due = TRUE]
  <1>1. record[p] \in Records
    BY RecordTyped
  <1>2. e \in Records /\ e.failing = record[p].failing
    BY <1>1 DEF Records
  <1>3. record' = [record EXCEPT ![p] = e]
    OBVIOUS
  <1> HIDE DEF e
  <1>4. QED
    BY <1>2, <1>3 DEF Writes

\* Begin writes the record of a remembered peer only.
LEMMA BeginWrites ==
  ASSUME TypeOK, NEW s \in Syncers, NEW p \in Peers, Begin(s, p)
  PROVE  \/ p \notin Remembered /\ record' = record
         \/ p \in Remembered /\ \E e : Writes(p, e) /\ e.failing = record[p].failing
  BY DueWrites DEF Begin

\* Success writes a sound record.
LEMMA SucceedWrites ==
  ASSUME TypeOK, Excluded, NEW s \in Syncers, Succeed(s)
  PROVE  /\ syncer[s].peer \in Peers
         /\ \E e : Writes(syncer[s].peer, e) /\ e.failing = FALSE
  <1>1. syncer[s].peer \in Peers
    BY SyncTyped DEF Succeed, Excluded, SyncStates
  <1> DEFINE e == [failing |-> FALSE, due |-> FALSE]
  <1>2. e \in Records /\ e.failing = FALSE
    BY DEF Records
  <1>3. record' = [record EXCEPT ![syncer[s].peer] = e]
    BY DEF Succeed
  <1> HIDE DEF e
  <1>4. QED
    BY <1>1, <1>2, <1>3 DEF Writes

\* Failure writes the record of a peer that was known, if it writes.
LEMMA FailWrites ==
  ASSUME TypeOK, Excluded, NEW s \in Syncers, Fail(s)
  PROVE  /\ syncer[s].peer \in Peers
         /\ \/ record' = record
            \/ syncer[s].known /\ \E e : Writes(syncer[s].peer, e)
  <1>1. syncer[s].peer \in Peers
    BY SyncTyped DEF Fail, Excluded, SyncStates
  <1>2. [failing |-> TRUE, due |-> FALSE] \in Records
    BY DEF Records
  <1>3. QED
    BY <1>1, <1>2 DEF Fail, Writes

\* A step keeps the types.
LEMMA TypeStep == TypeOK /\ Excluded /\ Proved /\ [Next]_vars => TypeOK'
  <1> SUFFICES ASSUME TypeOK, Excluded, Proved, [Next]_vars PROVE TypeOK'
    OBVIOUS
  <1>0. MaxMounts \in Nat /\ MaxEvents \in Nat /\ MaxFailures \in Nat
    BY BoundsAssumption
  <1>1. CASE UNCHANGED vars
    BY <1>1 DEF vars, TypeOK
  <1>2. CASE Mount
    BY <1>0, <1>2 DEF Mount, TypeOK, wake, input
  <1>3. CASE StartLeave \/ LeaveRefused \/ Unmount
    BY <1>0, <1>3 DEF StartLeave, LeaveRefused, Unmount, Fails, TypeOK, wake, input, history
  <1>4. CASE RemovePeers \/ RemovalFails
    BY <1>0, <1>4, RecordTyped
      DEF RemovePeers, RemovalFails, LeftBehind, Fails, TypeOK, wake, input, history
  <1>5. ASSUME NEW h \in Handshakes, NEW p \in Peers, Admit(h, p) PROVE TypeOK'
    <2>1. [at |-> "proved", peer |-> p, cred |-> mounted] \in ShakeStates
      BY <1>0 DEF TypeOK, ShakeStates
    <2>2. shake' \in [Handshakes -> ShakeStates] /\ connected' \in [Peers -> BOOLEAN]
      BY <1>5, <2>1 DEF Admit, TypeOK, ShakeStates
    <2>3. QED
      BY <1>5, <2>2 DEF Admit, TypeOK, ShakeStates, network, wake, input, history
  <1>6. ASSUME NEW h \in Handshakes, Remember(h) PROVE TypeOK'
    <2>1. NoShake \in ShakeStates
      BY <1>0 DEF NoShake, ShakeStates
    <2>2. shake' \in [Handshakes -> ShakeStates]
      BY <1>6, <2>1 DEF Remember, TypeOK, ShakeStates
    <2>3. record' \in [Peers -> Records \cup {NoRecord}] /\ shake[h].peer \in Peers
      BY <1>6, RememberWrites, WritesTyped
    <2>4. strays' \subseteq Peers
      BY <1>6, <2>3 DEF Remember, TypeOK
    <2>5. QED
      BY <1>6, <2>2, <2>3, <2>4 DEF Remember, TypeOK, ShakeStates, network, wake, input
  <1>7. CASE Ingest
    <2>1. syncer' \in [Syncers -> SyncStates]
      BY <1>7, IngestMoves
    <2>2. owed' \in [Peers -> {"no", "soon", "later"}]
      BY <1>7 DEF Ingest, Promise, TypeOK
    <2>3. events' \in 0..MaxEvents
      BY <1>0, <1>7 DEF Ingest, TypeOK
    <2>4. QED
      BY <1>7, <2>1, <2>2, <2>3 DEF Ingest, TypeOK, SyncStates, network, wake
  <1>8. CASE SignalNetwork \/ SignalToken
    BY <1>8 DEF SignalNetwork, SignalToken, TypeOK, network, history
  <1>9. CASE WakeUp
    BY <1>9, WakeUpMoves, MovesTyped, Loops
      DEF WakeUp, TypeOK, SyncStates, network, input, history
  <1>10. CASE TakeNetworks
    <2>1. syncer' \in [Syncers -> SyncStates]
      BY <1>10, LoadsMoves, MovesTyped, Loops, RecordTyped DEF TakeNetworks
    <2>2. QED
      BY <1>10, <2>1 DEF TakeNetworks, TypeOK, SyncStates, network, input, history
  <1>11. CASE Tick
    <2>1. DuePeers \subseteq Peers
      BY RecordTyped DEF DuePeers
    <2>2. syncer' \in [Syncers -> SyncStates]
      BY <1>11, <2>1, LoadsMoves, MovesTyped, Loops DEF Tick
    <2>3. QED
      BY <1>11, <2>2 DEF Tick, TypeOK, SyncStates, network, wake, input, history
  <1>12. ASSUME NEW c \in Clients, NEW p \in Peers, Request(c, p) PROVE TypeOK'
    <2>1. PICK e : Moves(c, e)
      BY <1>12, LoadsMoves, Loops, {p} \in SUBSET Peers DEF Request
    <2>2. QED
      BY <1>12, <2>1, MovesTyped, Loops
        DEF Request, TypeOK, SyncStates, network, wake, input, history
  <1>13. ASSUME NEW s \in Syncers, NEW p \in Peers, Skip(s, p) \/ Refuse(s, p) PROVE TypeOK'
    <2>1. syncer' \in [Syncers -> SyncStates]
      BY <1>13, PassMoves, MovesTyped
    <2>2. wakeNetwork' \in BOOLEAN /\ wakeToken' \in BOOLEAN
      BY <1>13 DEF Skip, Refuse, TypeOK, wake
    <2>3. QED
      BY <1>13, <2>1, <2>2 DEF Skip, Refuse, TypeOK, SyncStates, network, input, history
  <1>14. ASSUME NEW s \in Syncers, NEW p \in Peers, Begin(s, p) PROVE TypeOK'
    <2>1. syncer' \in [Syncers -> SyncStates]
      BY <1>14, BeginMoves, MovesTyped
    <2>2. record' \in [Peers -> Records \cup {NoRecord}]
      BY <1>14, BeginWrites, WritesTyped DEF TypeOK
    <2>3. QED
      BY <1>14, <2>1, <2>2 DEF Begin, TypeOK, SyncStates, network, wake, input, history
  <1>15. ASSUME NEW s \in Syncers, Converse(s) \/ Succeed(s) \/ Fail(s) PROVE TypeOK'
    <2>1. syncer' \in [Syncers -> SyncStates]
      BY <1>15, SessionMoves, MovesTyped
    <2>2. record' \in [Peers -> Records \cup {NoRecord}]
      <3>1. CASE Converse(s)
        BY <3>1 DEF Converse, TypeOK
      <3>2. CASE Succeed(s) \/ Fail(s)
        BY <3>2, SucceedWrites, FailWrites, WritesTyped DEF TypeOK
      <3>3. QED
        BY <1>15, <3>1, <3>2
    <2>3. connected' \in [Peers -> BOOLEAN]
      BY <1>15 DEF Converse, Succeed, Fail, TypeOK
    <2>4. failures' \in 0..MaxFailures
      BY <1>0, <1>15 DEF Converse, Succeed, Fail, Fails, TypeOK
    <2>5. owed' \in [Peers -> {"no", "soon", "later"}]
      BY <1>15 DEF Converse, Succeed, Fail, Later, TypeOK, history
    <2>6. QED
      BY <1>15, <2>1, <2>2, <2>3, <2>4, <2>5
        DEF Converse, Succeed, Fail, TypeOK, SyncStates, network, wake, input, history
  <1>16. ASSUME NEW s \in Syncers, Finish(s) \/ Rest(s) PROVE TypeOK'
    <2>1. syncer' \in [Syncers -> SyncStates]
      BY <1>16, FinishMoves, RestMoves, MovesTyped
    <2>2. QED
      BY <1>16, <2>1 DEF Finish, Rest, TypeOK, SyncStates, network, wake, input, history
  <1>17. ASSUME NEW p \in Peers, BecomeDue(p) \/ Disconnect(p) PROVE TypeOK'
    <2>1. CASE BecomeDue(p)
      BY <2>1, DueWrites, WritesTyped DEF BecomeDue, TypeOK, network, wake, input, history
    <2>2. CASE Disconnect(p)
      BY <1>0, <2>2 DEF Disconnect, Fails, Later, TypeOK, network, wake, input
    <2>3. QED
      BY <1>17, <2>1, <2>2
  <1>18. CASE Restart
    <2>1. Resting \in SyncStates /\ NoShake \in ShakeStates
      BY <1>0 DEF Resting, NoShake, SyncStates, ShakeStates
    <2>2. syncer' \in [Syncers -> SyncStates] /\ shake' \in [Handshakes -> ShakeStates]
      BY <1>18, <2>1 DEF Restart
    <2>3. owed' \in [Peers -> {"no", "soon", "later"}] /\ strays' \subseteq Peers
      BY <1>18, RecordTyped DEF Restart, Later, LeftBehind, TypeOK
    <2>4. failures' \in 0..MaxFailures
      BY <1>0, <1>18 DEF Restart, Fails, TypeOK
    <2>5. QED
      BY <1>18, <2>2, <2>3, <2>4 DEF Restart, TypeOK, SyncStates, ShakeStates
  <1>19. QED
    BY <1>1, <1>2, <1>3, <1>4, <1>5, <1>6, <1>7, <1>8, <1>9, <1>10, <1>11, <1>12, <1>13, <1>14,
       <1>15, <1>16, <1>17, <1>18 DEF Next, Step

\* No syncer moves, or one does that keeps the rules.
LEMMA ExcludedFrame ==
  ASSUME Excluded, UNCHANGED syncer, Remembered \subseteq Remembered',
         leaving' # "no" => leaving # "no", mounted # 0 => mounted' # 0
  PROVE  Excluded'
  BY DEF Excluded

\* One syncer moves, and its new state keeps the rules.
LEMMA ExcludedMove ==
  ASSUME TypeOK, Excluded, UNCHANGED <<mounted, leaving>>, Remembered \subseteq Remembered',
         NEW s \in Syncers, NEW e, Moves(s, e),
         e.peer # NoPeer <=> e.at \in {"gated", "talking", "recorded"},
         leaving # "no" => e.peer = NoPeer,
         e.at = "talking" => mounted # 0,
         e.known => e.peer \in Remembered',
         e.at \in {"idle", "woken"} => e.todo = {}
  PROVE  Excluded'
  BY MovesTyped DEF Excluded

\* While nobody synchronizes, a leave may begin; while it lasts, nobody does.
LEMMA ExcludedStep == TypeOK /\ Excluded /\ Proved /\ [Next]_vars => Excluded'
  <1> SUFFICES ASSUME TypeOK, Excluded, Proved, [Next]_vars PROVE Excluded'
    OBVIOUS
  <1>1. CASE UNCHANGED vars
    BY <1>1, ExcludedFrame DEF vars, Remembered
  <1>2. CASE Mount
    BY <1>2, BoundsAssumption, ExcludedFrame DEF Mount, TypeOK, Remembered
  <1>3. CASE StartLeave
    BY <1>3 DEF StartLeave, Excluded, Syncing, network, Remembered
  <1>4. CASE LeaveRefused \/ RemovalFails
    BY <1>4, ExcludedFrame DEF LeaveRefused, RemovalFails, Remembered
  <1>5. CASE Unmount \/ RemovePeers
    <2>1. \A s \in Syncers : syncer[s].peer = NoPeer
      BY <1>5 DEF Unmount, RemovePeers, Excluded
    <2>2. \A s \in Syncers : syncer[s].at # "talking" /\ ~syncer[s].known
      BY <2>1, Loops, RecordTyped DEF Excluded
    <2>3. QED
      BY <1>5, <2>1, <2>2 DEF Unmount, RemovePeers, Excluded
  <1>6. ASSUME NEW h \in Handshakes, NEW p \in Peers, Admit(h, p) PROVE Excluded'
    BY <1>6, ExcludedFrame DEF Admit, network, Remembered
  <1>7. ASSUME NEW h \in Handshakes, Remember(h) PROVE Excluded'
    BY <1>7, ExcludedFrame, RememberWrites, WritesTyped DEF Remember, network
  <1>8. CASE Ingest
    BY <1>8, IngestMoves DEF Ingest, Excluded, network, Remembered
  <1>9. CASE SignalNetwork \/ SignalToken
    BY <1>9, ExcludedFrame DEF SignalNetwork, SignalToken, network, Remembered
  <1>10. CASE WakeUp
    BY <1>10, WakeUpMoves, ExcludedMove, Loops DEF WakeUp, Excluded, network, Remembered
  <1>11. ASSUME NEW s \in Syncers, NEW peers \in SUBSET Peers, Loads(s, peers),
                UNCHANGED <<network, record>>
         PROVE  Excluded'
    BY <1>11, LoadsMoves, ExcludedMove DEF network, Remembered
  <1>12. CASE TakeNetworks
    BY <1>11, <1>12, Loops, RecordTyped DEF TakeNetworks
  <1>13. CASE Tick
    BY <1>11, <1>13, Loops, RecordTyped DEF Tick, DuePeers
  <1>14. ASSUME NEW c \in Clients, NEW p \in Peers, Request(c, p) PROVE Excluded'
    BY <1>11, <1>14, Loops, {p} \in SUBSET Peers DEF Request
  <1>15. ASSUME NEW s \in Syncers, NEW p \in Peers, Skip(s, p) \/ Refuse(s, p) PROVE Excluded'
    <2>1. syncer[s].at = "listed" /\ Remembered' = Remembered /\ UNCHANGED <<mounted, leaving>>
      BY <1>15 DEF Skip, Refuse, network, Remembered
    <2>2. QED
      BY <1>15, <2>1, PassMoves, ExcludedMove DEF Excluded
  <1>16. ASSUME NEW s \in Syncers, NEW p \in Peers, Begin(s, p) PROVE Excluded'
    <2>1. leaving = "no" /\ UNCHANGED <<mounted, leaving>>
      BY <1>16 DEF Begin, MayStart, network
    <2>2. Remembered \subseteq Remembered'
      BY <1>16, BeginWrites, WritesTyped DEF Remembered
    <2>3. PICK e : /\ Moves(s, e) /\ e.at = "gated" /\ e.peer = p
                   /\ e.known => p \in Remembered
      BY <1>16, BeginMoves
    <2>4. QED
      BY <2>1, <2>2, <2>3, ExcludedMove, Loops
  <1>17. ASSUME NEW s \in Syncers, Converse(s) \/ Succeed(s) \/ Fail(s) PROVE Excluded'
    <2>1. /\ UNCHANGED <<mounted, leaving>>
          /\ Converse(s) => mounted # 0
      BY <1>17 DEF Converse, Succeed, Fail, network
    <2>2. Remembered \subseteq Remembered'
      <3>1. CASE Converse(s)
        BY <3>1 DEF Converse, Remembered
      <3>2. CASE Succeed(s)
        BY <3>2, SucceedWrites, WritesTyped
      <3>3. CASE Fail(s)
        BY <3>3, FailWrites, WritesTyped DEF Remembered
      <3>4. QED
        BY <1>17, <3>1, <3>2, <3>3
    <2>3. QED
      BY <1>17, <2>1, <2>2, SessionMoves, ExcludedMove DEF Excluded
  <1>18. ASSUME NEW s \in Syncers, Finish(s) \/ Rest(s) PROVE Excluded'
    BY <1>18, FinishMoves, RestMoves, ExcludedMove
      DEF Finish, Rest, Resting, network, Remembered
  <1>19. ASSUME NEW p \in Peers, BecomeDue(p) \/ Disconnect(p) PROVE Excluded'
    <2>1. Remembered \subseteq Remembered'
      BY <1>19, DueWrites, WritesTyped DEF BecomeDue, Disconnect, Remembered
    <2>2. QED
      BY <1>19, <2>1, ExcludedFrame DEF BecomeDue, Disconnect, network
  <1>20. CASE Restart
    BY <1>20, Loops DEF Restart, Excluded, Resting
  <1>21. QED
    BY <1>1, <1>2, <1>3, <1>4, <1>5, <1>6, <1>7, <1>8, <1>9, <1>10, <1>12, <1>13, <1>14, <1>15,
       <1>16, <1>17, <1>18, <1>19, <1>20 DEF Next, Step

\* A handshake that proved a membership keeps what it proved.
LEMMA ProvedStep == TypeOK /\ Proved /\ [Next]_vars => Proved'
  <1> SUFFICES ASSUME TypeOK, Proved, [Next]_vars PROVE Proved'
    OBVIOUS
  <1>1. CASE UNCHANGED shake
    BY <1>1 DEF Proved
  <1>2. ASSUME NEW h \in Handshakes, NEW p \in Peers, Admit(h, p) PROVE Proved'
    BY <1>2 DEF Admit, Proved, TypeOK
  <1>3. ASSUME NEW h \in Handshakes, Remember(h) PROVE Proved'
    BY <1>3 DEF Remember, Proved, TypeOK, NoShake
  <1>4. CASE Restart
    BY <1>4 DEF Restart, Proved, NoShake
  <1>5. QED
    BY <1>1, <1>2, <1>3, <1>4
      DEF Next, Step, Mount, StartLeave, LeaveRefused, Unmount, RemovePeers, RemovalFails, Ingest,
          SignalNetwork, SignalToken, WakeUp, TakeNetworks, Tick, Request, Skip, Refuse, Begin,
          Converse, Succeed, Fail, Finish, Rest, BecomeDue, Disconnect, vars

\* A session has a membership, and only a handshake that outlives it, a crash or a
\* failed removal leaves a record behind.
LEMMA LeaveStep ==
  TypeOK /\ Excluded /\ Proved /\ SyncsRespectLeave /\ [Next]_vars => SyncsRespectLeave'
  <1> SUFFICES ASSUME TypeOK, Excluded, Proved, SyncsRespectLeave, [Next]_vars,
                      mounted' = 0, leaving' # "unmounted"
               PROVE  Remembered' \subseteq strays'
    BY DEF SyncsRespectLeave
  <1>1. CASE UNCHANGED <<mounted, leaving, record, strays>>
    BY <1>1 DEF SyncsRespectLeave, Remembered
  <1>2. CASE Mount
    BY <1>2, BoundsAssumption DEF Mount, TypeOK
  <1>3. CASE StartLeave \/ LeaveRefused \/ Unmount
    BY <1>3 DEF StartLeave, LeaveRefused, Unmount, SyncsRespectLeave, Remembered, history
  <1>4. CASE RemovePeers
    BY <1>4 DEF RemovePeers, Remembered
  <1>5. CASE RemovalFails \/ Restart
    BY <1>5 DEF RemovalFails, Restart, LeftBehind, SyncsRespectLeave, Remembered
  <1>6. ASSUME NEW h \in Handshakes, Remember(h) PROVE Remembered' \subseteq strays'
    <2>1. Remembered' = Remembered \cup {shake[h].peer} /\ shake[h].cred # 0
      BY <1>6, RememberWrites, WritesTyped
    <2>2. QED
      BY <1>6, <2>1 DEF Remember, network, SyncsRespectLeave
  <1>7. ASSUME NEW s \in Syncers, NEW p \in Peers, Begin(s, p)
        PROVE  Remembered' \subseteq strays'
    <2>1. Remembered' = Remembered
      BY <1>7, BeginWrites, WritesTyped DEF Remembered
    <2>2. QED
      BY <1>7, <2>1 DEF Begin, network, history, SyncsRespectLeave
  <1>8. ASSUME NEW s \in Syncers, Succeed(s) PROVE FALSE
    BY <1>8 DEF Succeed, Excluded, network
  <1>9. ASSUME NEW s \in Syncers, Fail(s) PROVE Remembered' \subseteq strays'
    <2>1. Remembered' = Remembered
      BY <1>9, FailWrites, WritesTyped DEF Excluded, Remembered
    <2>2. QED
      BY <1>9, <2>1 DEF Fail, network, SyncsRespectLeave
  <1>10. ASSUME NEW p \in Peers, BecomeDue(p) PROVE Remembered' \subseteq strays'
    <2>1. p \in Remembered /\ \E e : Writes(p, e)
      BY <1>10, DueWrites DEF BecomeDue
    <2>2. Remembered' = Remembered
      BY <2>1, WritesTyped
    <2>3. QED
      BY <1>10, <2>2 DEF BecomeDue, network, history, SyncsRespectLeave
  <1>11. QED
    BY <1>1, <1>2, <1>3, <1>4, <1>5, <1>6, <1>7, <1>8, <1>9, <1>10
      DEF Next, Step, Admit, Ingest, SignalNetwork, SignalToken, WakeUp, TakeNetworks, Tick,
          Request, Skip, Refuse, Converse, Finish, Rest, Disconnect, network, history, vars

\* A promise lasts while its peer is remembered, well, and sure to be tried.
LEMMA PromisedKeep ==
  ASSUME Promised, Remembered \subseteq Remembered',
         \A p \in Peers :
           /\ owed'[p] # "no" => owed[p] # "no"
           /\ owed'[p] = "soon" => /\ owed[p] = "soon"
                                   /\ connected[p] => connected'[p]
                                   /\ record'[p].failing => record[p].failing
                                   /\ Signalled' \/ InLoop(p)'
  PROVE  Promised'
  BY DEF Promised

\* That is so if the event loop rests and no signal is taken.
LEMMA PromisedFrame ==
  ASSUME Promised, Remembered \subseteq Remembered',
         syncer'[EventLoop] = syncer[EventLoop], Signalled => Signalled',
         \A p \in Peers :
           /\ owed'[p] # "no" => owed[p] # "no"
           /\ owed'[p] = "soon" => /\ owed[p] = "soon"
                                   /\ connected[p] => connected'[p]
                                   /\ record'[p].failing => record[p].failing
  PROVE  Promised'
  <1>1. \A p \in Peers : owed'[p] = "soon" => Signalled' \/ InLoop(p)'
    BY DEF Promised, InLoop
  <1>2. QED
    BY <1>1, PromisedKeep

\* A record that is there is not made worse but by a failure.
LEMMA RecordsLast ==
  ASSUME TypeOK, Excluded, Proved,
         \/ UNCHANGED record
         \/ \E h \in Handshakes : Remember(h)
         \/ \E s \in Syncers, p \in Peers : Begin(s, p)
         \/ \E s \in Syncers : Succeed(s)
         \/ \E p \in Peers : BecomeDue(p)
  PROVE  /\ Remembered \subseteq Remembered'
         /\ \A p \in Remembered : record'[p].failing => record[p].failing
  <1>1. CASE UNCHANGED record
    BY <1>1 DEF Remembered
  <1>2. ASSUME NEW p \in Peers, NEW e, Writes(p, e),
               p \in Remembered => e.failing = record[p].failing \/ e.failing = FALSE
        PROVE  /\ Remembered \subseteq Remembered'
               /\ \A q \in Remembered : record'[q].failing => record[q].failing
    BY <1>2, WritesTyped, RecordTyped
  <1>3. ASSUME NEW h \in Handshakes, Remember(h)
        PROVE  \E p \in Peers : \E e :
                 Writes(p, e) /\ (p \in Remembered => e.failing = record[p].failing)
    BY <1>3, RememberWrites
  <1>4. ASSUME NEW s \in Syncers, NEW p \in Peers, Begin(s, p)
        PROVE  UNCHANGED record \/ \E e : Writes(p, e) /\ e.failing = record[p].failing
    BY <1>4, BeginWrites
  <1>5. ASSUME NEW s \in Syncers, Succeed(s)
        PROVE  \E p \in Peers : \E e : Writes(p, e) /\ e.failing = FALSE
    BY <1>5, SucceedWrites
  <1>6. ASSUME NEW p \in Peers, BecomeDue(p)
        PROVE  \E e : Writes(p, e) /\ e.failing = record[p].failing
    BY <1>6, DueWrites DEF BecomeDue
  <1>7. CASE \E h \in Handshakes : Remember(h)
    BY <1>2, <1>3, <1>7
  <1>8. CASE \E s \in Syncers, p \in Peers : Begin(s, p)
    BY <1>1, <1>2, <1>4, <1>8
  <1>9. CASE \E s \in Syncers : Succeed(s)
    BY <1>2, <1>5, <1>9
  <1>10. CASE \E p \in Peers : BecomeDue(p)
    BY <1>2, <1>6, <1>10
  <1>11. QED
    BY <1>1, <1>7, <1>8, <1>9, <1>10

\* Steps of the retry loop and of clients.
LEMMA OthersPromised ==
  ASSUME TypeOK, Excluded, Proved, Promised, NEW s \in Syncers \ {EventLoop}, Step(s)
  PROVE  Promised'
  <1>1. /\ \E e : Moves(s, e)
        /\ UNCHANGED <<wake, ingesting>>
        /\ \A p \in Peers : connected[p] => connected'[p]
    <2>1. ASSUME NEW p \in Peers, Skip(s, p) \/ Refuse(s, p) \/ Begin(s, p)
          PROVE  /\ \E e : Moves(s, e)
                 /\ UNCHANGED <<wake, ingesting>> /\ UNCHANGED connected
      BY <2>1, PassMoves, BeginMoves DEF Skip, Refuse, Begin, wake, input, TypeOK
    <2>2. CASE Converse(s) \/ Succeed(s) \/ Fail(s)
      BY <2>2, SessionMoves DEF Converse, Succeed, Fail, wake, input, TypeOK
    <2>3. CASE Finish(s) \/ Rest(s)
      BY <2>3, FinishMoves, RestMoves DEF Finish, Rest, wake, input
    <2>4. QED
      BY <2>1, <2>2, <2>3 DEF Step
  <1>2. syncer'[EventLoop] = syncer[EventLoop]
    BY <1>1, MovesTyped, Loops
  <1>3. Signalled => Signalled'
    BY <1>1, <1>2 DEF Signalled, wake
  <1>4. CASE Fail(s)
    <2>1. Remembered \subseteq Remembered'
      BY <1>4, FailWrites, WritesTyped DEF Remembered
    <2>2. \A p \in Peers :
            /\ owed'[p] # "no" => owed[p] # "no"
            /\ owed'[p] = "soon" => owed[p] = "soon" /\ p # syncer[s].peer
      BY <1>4, FailWrites DEF Fail, Later, TypeOK
    <2>3. \A p \in Peers : p # syncer[s].peer => record'[p] = record[p]
      BY <1>4, FailWrites, WritesTyped
    <2>4. QED
      BY <1>1, <1>2, <1>3, <2>1, <2>2, <2>3, PromisedFrame
  <1>5. CASE ~Fail(s)
    <2>1. /\ Remembered \subseteq Remembered'
          /\ \A p \in Remembered : record'[p].failing => record[p].failing
      BY <1>5, RecordsLast DEF Step, Skip, Refuse, Converse, Finish, Rest
    <2>2. \A p \in Peers : owed'[p] \in {owed[p], "no"}
      BY <1>5 DEF Step, Skip, Refuse, Begin, Converse, Succeed, Finish, Rest, history, TypeOK
    <2>3. QED
      BY <1>1, <1>2, <1>3, <2>1, <2>2, PromisedFrame DEF Promised
  <1>6. QED
    BY <1>4, <1>5

\* Steps of the event loop: who is on its list is tried, left to the retry loop only
\* after a failure that the promise takes account of, or signalled again.
LEMMA LoopPromised ==
  ASSUME TypeOK, Excluded, Proved, Promised, Step(EventLoop)
  PROVE  Promised'
  <1> DEFINE loop == syncer[EventLoop]
  <1>0. EventLoop \in Syncers /\ loop.at \notin {"idle", "woken"}
    BY Loops DEF Step, Skip, Refuse, Begin, Converse, Succeed, Fail, Finish, Rest
  <1>1. ASSUME UNCHANGED <<wake, ingesting>> PROVE Signalled => Signalled'
    BY <1>0, <1>1 DEF Signalled, wake
  <1>2. ASSUME NEW q \in Peers, Skip(EventLoop, q) PROVE Promised'
    <2>1. PICK e : /\ Moves(EventLoop, e) /\ e.at = "listed" /\ e.todo = loop.todo \ {q}
                   /\ e.shaky = loop.shaky
      BY <1>0, <1>2, PassMoves
    <2>2. /\ UNCHANGED <<record, connected, owed, ingesting, wake>>
          /\ loop.at = "listed" /\ (~connected[q] /\ q \in loop.shaky)
      BY <1>2, Loops DEF Skip, PassesOver, history, wake, input
    <2>3. \A p \in Peers : InLoop(p) => InLoop(p)'
      BY <1>0, <2>1, <2>2, MovesTyped DEF InLoop
    <2>4. QED
      BY <1>1, <2>2, <2>3, PromisedKeep DEF Promised, Remembered
  <1>3. ASSUME NEW q \in Peers, Refuse(EventLoop, q) PROVE Promised'
    <2>1. Signalled' /\ UNCHANGED <<record, connected, owed>>
      BY <1>3 DEF Refuse, Signalled, history
    <2>2. QED
      BY <2>1, PromisedKeep DEF Remembered
  <1>4. ASSUME NEW q \in Peers, Begin(EventLoop, q) PROVE Promised'
    <2>1. PICK e : /\ Moves(EventLoop, e) /\ e.at = "gated" /\ e.todo = loop.todo \ {q}
                   /\ e.shaky = loop.shaky /\ e.peer = q /\ ~e.missed
      BY <1>0, <1>4, BeginMoves
    <2>2. UNCHANGED <<connected, owed, ingesting, wake>> /\ loop.at = "listed"
      BY <1>4 DEF Begin, history, wake, input
    <2>3. \A p \in Peers : InLoop(p) => InLoop(p)'
      BY <1>0, <2>1, <2>2, MovesTyped DEF InLoop
    <2>4. /\ Remembered \subseteq Remembered'
          /\ \A p \in Remembered : record'[p].failing => record[p].failing
      BY <1>0, <1>4, RecordsLast
    <2>5. QED
      BY <1>1, <2>2, <2>3, <2>4, PromisedKeep DEF Promised
  <1>5. CASE Converse(EventLoop)
    <2>1. PICK e : /\ Moves(EventLoop, e) /\ e.at = "talking" /\ e.todo = loop.todo
                   /\ e.shaky = loop.shaky /\ e.peer = loop.peer /\ e.missed = loop.missed
      BY <1>0, <1>5, SessionMoves
    <2>2. /\ UNCHANGED <<record, owed, ingesting, wake>>
          /\ \A p \in Peers : connected[p] => connected'[p]
      BY <1>5 DEF Converse, history, wake, input, TypeOK
    <2>3. \A p \in Peers : InLoop(p) => InLoop(p)'
      BY <1>0, <2>1, <2>2, MovesTyped DEF InLoop
    <2>4. QED
      BY <1>1, <2>2, <2>3, PromisedKeep DEF Promised, Remembered
  <1>6. CASE Succeed(EventLoop)
    <2>1. PICK e : /\ Moves(EventLoop, e) /\ e.todo = loop.todo /\ e.shaky = loop.shaky
      BY <1>0, <1>6, SessionMoves
    <2>2. /\ UNCHANGED <<connected, ingesting, wake>>
          /\ \A p \in Peers :
               owed'[p] = IF p = loop.peer /\ ~loop.missed THEN "no" ELSE owed[p]
      BY <1>6 DEF Succeed, wake, input, TypeOK
    <2>3. \A p \in Peers : InLoop(p) => InLoop(p)' \/ (p = loop.peer /\ ~loop.missed)
      BY <1>0, <2>1, <2>2, MovesTyped DEF InLoop
    <2>4. /\ Remembered \subseteq Remembered'
          /\ \A p \in Remembered : record'[p].failing => record[p].failing
      BY <1>0, <1>6, RecordsLast
    <2>5. QED
      BY <1>1, <2>2, <2>3, <2>4, PromisedKeep DEF Promised
  <1>7. CASE Fail(EventLoop)
    <2>1. PICK e : /\ Moves(EventLoop, e) /\ e.todo = loop.todo /\ e.shaky = loop.shaky
      BY <1>0, <1>7, SessionMoves
    <2>2. /\ UNCHANGED <<ingesting, wake>>
          /\ \A p \in Peers :
               /\ connected[p] => connected'[p]
               /\ owed'[p] # "no" => owed[p] # "no"
               /\ owed'[p] = "soon" => owed[p] = "soon" /\ p # loop.peer
      BY <1>7 DEF Fail, Later, wake, input, TypeOK
    <2>3. \A p \in Peers : InLoop(p) => InLoop(p)' \/ p = loop.peer
      BY <1>0, <2>1, <2>2, MovesTyped DEF InLoop
    <2>4. /\ Remembered \subseteq Remembered'
          /\ \A p \in Peers : p # loop.peer => record'[p] = record[p]
      BY <1>0, <1>7, FailWrites, WritesTyped DEF Remembered
    <2>5. QED
      BY <1>1, <2>2, <2>3, <2>4, PromisedKeep DEF Promised
  <1>8. CASE Finish(EventLoop)
    <2>1. PICK e : /\ Moves(EventLoop, e) /\ e.todo = loop.todo /\ e.shaky = loop.shaky
      BY <1>0, <1>8, FinishMoves
    <2>2. UNCHANGED <<record, connected, owed, ingesting, wake>> /\ loop.at = "recorded"
      BY <1>8 DEF Finish, history, wake, input
    <2>3. \A p \in Peers : InLoop(p) => InLoop(p)'
      BY <1>0, <2>1, <2>2, MovesTyped DEF InLoop
    <2>4. QED
      BY <1>1, <2>2, <2>3, PromisedKeep DEF Promised, Remembered
  <1>9. CASE Rest(EventLoop)
    <2>1. /\ UNCHANGED <<record, connected, owed, ingesting, wake>>
          /\ loop.at = "listed" /\ loop.todo = {}
      BY <1>9 DEF Rest, history, wake, input
    <2>2. \A p \in Peers : ~InLoop(p)
      BY <2>1 DEF InLoop
    <2>3. QED
      BY <1>1, <2>1, <2>2, PromisedKeep DEF Promised, Remembered
  <1>10. QED
    BY <1>2, <1>3, <1>4, <1>5, <1>6, <1>7, <1>8, <1>9 DEF Step

\* What is promised of an event is under way, whatever is going on.
LEMMA PromisedStep == TypeOK /\ Excluded /\ Proved /\ Promised /\ [Next]_vars => Promised'
  <1> SUFFICES ASSUME TypeOK, Excluded, Proved, Promised, [Next]_vars PROVE Promised'
    OBVIOUS
  <1>1. CASE \/ Mount \/ StartLeave \/ LeaveRefused \/ RemovalFails \/ UNCHANGED vars
             \/ SignalNetwork \/ SignalToken
    BY <1>1, PromisedFrame
      DEF Mount, StartLeave, LeaveRefused, RemovalFails, SignalNetwork, SignalToken, vars, wake,
          input, history, Signalled, Remembered
  <1>2. CASE Unmount \/ RemovePeers
    BY <1>2 DEF Unmount, RemovePeers, Promised
  <1>3. ASSUME NEW h \in Handshakes, NEW p \in Peers, Admit(h, p) PROVE Promised'
    <2>1. \A q \in Peers : connected[q] => connected'[q]
      BY <1>3 DEF Admit, TypeOK
    <2>2. QED
      BY <1>3, <2>1, PromisedFrame DEF Admit, wake, input, history, Signalled, Remembered
  <1>4. ASSUME NEW h \in Handshakes, Remember(h) PROVE Promised'
    <2>1. /\ Remembered \subseteq Remembered'
          /\ \A p \in Remembered : record'[p].failing => record[p].failing
      BY <1>4, RecordsLast
    <2>2. QED
      BY <1>4, <2>1, PromisedFrame DEF Remember, wake, input, Signalled, Promised
  <1>5. CASE Ingest
    <2>1. Signalled' /\ UNCHANGED <<record, connected>> /\ Remembered' = Remembered
      BY <1>5 DEF Ingest, Signalled, Remembered
    <2>2. \A p \in Peers : owed'[p] = IF mounted # 0 /\ p \in Remembered THEN Promise(p) ELSE owed[p]
      BY <1>5 DEF Ingest
    <2>3. \A p \in Peers : Promise(p) = "soon" => connected[p] \/ ~record[p].failing
      BY DEF Promise
    <2>4. QED
      BY <2>1, <2>2, <2>3 DEF Promised
  <1>6. CASE WakeUp
    <2>1. PICK e : Moves(EventLoop, e) /\ e.at = "woken"
      BY <1>6, WakeUpMoves
    <2>2. syncer'[EventLoop].at = "woken"
      BY <2>1, MovesTyped, Loops
    <2>3. Signalled => Signalled'
      BY <1>6, <2>2 DEF WakeUp, Signalled, input
    <2>4. \A p \in Peers : ~InLoop(p)
      BY <1>6, Loops DEF WakeUp, InLoop, Excluded
    <2>5. UNCHANGED <<record, connected, owed>>
      BY <1>6 DEF WakeUp, history
    <2>6. QED
      BY <2>3, <2>4, <2>5, PromisedKeep DEF Promised, Remembered
  <1>7. CASE TakeNetworks
    <2> DEFINE peers == IF wakeNetwork THEN Remembered ELSE {}
    <2>0. peers \in SUBSET Peers /\ Loads(EventLoop, peers)
      BY <1>7, RecordTyped DEF TakeNetworks
    <2>1. PICK e : /\ Moves(EventLoop, e) /\ e.todo = peers
                   /\ \A p \in e.shaky : record[p].failing
      BY <2>0, LoadsMoves, Loops
    <2>2. syncer'[EventLoop] = e
      BY <2>1, MovesTyped, Loops
    <2>3. UNCHANGED <<record, connected, owed, ingesting>>
      BY <1>7 DEF TakeNetworks, input, history
    <2>4. \A p \in Peers : ~InLoop(p)
      BY <1>7, Loops DEF TakeNetworks, InLoop, Excluded
    <2>5. \A p \in Peers : owed[p] = "soon" => Signalled' \/ InLoop(p)'
      BY <2>1, <2>2, <2>3, <2>4 DEF Promised, Signalled, InLoop
    <2>6. QED
      BY <2>3, <2>5, PromisedKeep DEF Remembered
  <1>8. ASSUME NEW s \in Syncers \ {EventLoop}, NEW peers \in SUBSET Peers, Loads(s, peers),
               UNCHANGED <<record, connected, wake, ingesting, owed>>
        PROVE  Promised'
    <2>1. PICK e : Moves(s, e)
      BY <1>8, LoadsMoves
    <2>2. syncer'[EventLoop] = syncer[EventLoop]
      BY <2>1, MovesTyped, Loops
    <2>3. QED
      BY <1>8, <2>2, PromisedFrame DEF wake, Signalled, Remembered
  <1>9. CASE Tick
    BY <1>8, <1>9, Loops, RecordTyped DEF Tick, DuePeers, input, history
  <1>10. ASSUME NEW c \in Clients, NEW p \in Peers, Request(c, p) PROVE Promised'
    BY <1>8, <1>10, Loops, {p} \in SUBSET Peers DEF Request, input, history
  <1>11. ASSUME NEW p \in Peers, BecomeDue(p) PROVE Promised'
    <2>1. /\ Remembered \subseteq Remembered'
          /\ \A q \in Remembered : record'[q].failing => record[q].failing
      BY <1>11, RecordsLast
    <2>2. QED
      BY <1>11, <2>1, PromisedFrame DEF BecomeDue, wake, input, history, Signalled, Promised
  <1>12. ASSUME NEW p \in Peers, Disconnect(p) PROVE Promised'
    <2>1. \A q \in Peers :
            /\ owed'[q] # "no" => owed[q] # "no"
            /\ owed'[q] = "soon" => owed[q] = "soon" /\ (connected[q] => connected'[q])
      BY <1>12 DEF Disconnect, Later, TypeOK
    <2>2. QED
      BY <1>12, <2>1, PromisedFrame DEF Disconnect, wake, input, Signalled, Remembered
  <1>13. CASE Restart
    <2>1. \A p \in Peers : owed'[p] # "soon" /\ (owed'[p] # "no" => owed[p] # "no")
      BY <1>13 DEF Restart, Later
    <2>2. QED
      BY <1>13, <2>1, PromisedKeep DEF Restart, Remembered
  <1>14. QED
    BY <1>1, <1>2, <1>3, <1>4, <1>5, <1>6, <1>7, <1>9, <1>10, <1>11, <1>12, <1>13, OthersPromised,
       LoopPromised DEF Next

\* The invariant is inductive.
LEMMA StepInvariant == IInv /\ [Next]_vars => IInv'
  BY TypeStep, ExcludedStep, ProvedStep, PromisedStep, LeaveStep DEF IInv

\* The invariant holds in every behaviour: leaves and sessions exclude each other, and
\* every promise to a peer is under way (startMeshNetworkLeave, startMeshPeerSync,
\* signalMeshSync, meshEventSyncLoop).
THEOREM PeersInvariance == Spec => []IInv
  BY InitInvariant, StepInvariant, PTL DEF Spec

\* The states of the loops, the records and the handshakes have their types.
THEOREM PeersTypes == Spec => []TypeOK
  <1>1. IInv => TypeOK
    BY DEF IInv
  <1>2. QED
    BY <1>1, PeersInvariance, PTL

\* With any number of clients and peers, no synchronization brings back the record of
\* a network that was left (startMeshNetworkLeave, startMeshPeerSync).
THEOREM LeaveIsRespected == Spec => []SyncsRespectLeave
  <1>1. IInv => SyncsRespectLeave
    BY DEF IInv
  <1>2. QED
    BY <1>1, PeersInvariance, PTL

\* No wake-up is lost between the set of networks, the token and sessions of others
\* that are in the way (signalMeshSync, meshEventSyncLoop).
THEOREM WakesAreKept == Spec => []NoLostWake
  <1>1. IInv => NoLostWake
    BY DEF IInv, Promised, Signalled, InLoop, NoLostWake
  <1>2. QED
    BY <1>1, PeersInvariance, PTL
=============================================================================
