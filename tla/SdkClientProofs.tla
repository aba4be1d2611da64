--------------------------- MODULE SdkClientProofs ---------------------------
(***************************************************************************)
(* Theorems about SdkClient, for any calls, connections and bounds: its    *)
(* types, that an ingest call stores its event once, that a siphon misses  *)
(* no event unnoticed, and that its callback is silent after stop().       *)
(***************************************************************************)
EXTENDS SdkClient, FiniteSetTheorems, SequenceTheorems, WellFoundedInduction, TLAPS

-----------------------------------------------------------------------------
(* The shapes of what is on its way. *)

RequestIDs == Calls \X {1, 2}

Requests ==
  {r \in [id     : RequestIDs,
          action : {"event_ingest", "siphon_register", "siphon_unregister"},
          about  : (Ingests \X {1}) \cup Handles] :
     IF r.action = "event_ingest"
     THEN r.id[1] \in Ingests /\ r.about = EventID(r.id[1])
     ELSE r.id[1] \in Handles /\ r.about = r.id[1]}

Responses == [id : RequestIDs, result : {"ok", "refused", "busy"}]
Pushes  == [sub : Handles, event : Nat]
Lines   == [part : {"whole", "rest"}, message : Responses \cup Pushes] \cup {Fragment}
Results == {"opened", "lost", "ok", "refused", "busy", "stop"}
JobSet  == [call : Calls, result : Results]

ServerTyped ==
  /\ daemon \in {"up", "closing", "down"}
  /\ conn \in [Connections -> {"none", "open", "shut", "done"}]
  /\ peer \in [Connections -> {"none", "open", "half", "gone"}]
  /\ inbox \in [Connections -> Seq(Requests)]
  /\ reply \in [Connections -> Responses \cup {None}]
  /\ mute \in [Connections -> BOOLEAN]
  /\ wire \in [Connections -> Seq(Lines)]
  /\ store \subseteq Ingests \X {1} /\ published \in Nat
  /\ sub \in [Handles -> {"none", "on", "off"}]
  /\ home \in [Handles -> Connections \cup {None}]
  /\ queue \in [Handles -> Seq(Nat)]
  /\ noticed \in [Handles -> SUBSET Broadcasters]
  /\ since \in [Handles -> Nat]
  /\ missed \in [Handles -> BOOLEAN]
  /\ \A h \in Handles : Len(queue[h]) <= QueueSize /\ (sub[h] # "none" => home[h] # None)

SocketTyped ==
  /\ sock \in [Connections -> {"free", "opening", "cancelled", "open", "ending", "dying",
                               "refused", "closed"}]
  /\ socket \in Connections \cup {None} /\ connecting = socket
  /\ buffer \in Connections \cup {None} /\ reading \in Connections \cup {None}

CallTyped ==
  /\ waiting \in [Connections -> Seq(Calls)]
  /\ pending \in Seq(Calls)
  /\ jobs \in Seq(JobSet)
  /\ phase \in [Calls -> {"idle", "connecting", "sent", "answered", "done", "failed"}]
  /\ step \in [Calls -> {1, 2}]
  /\ stopped \subseteq Handles

SiphonTyped ==
  /\ handlers \subseteq Handles
  /\ early \in [Handles -> Seq(Nat)]
  /\ handled \in [Handles -> Seq(Nat)]
  /\ spilled \in [Handles -> BOOLEAN]
  /\ garbled \in BOOLEAN
  /\ \A h \in Handles : Len(early[h]) <= EarlyLimit

Typed == ServerTyped /\ SocketTyped /\ CallTyped /\ SiphonTyped

-----------------------------------------------------------------------------
(* The two ends of a connection. *)

\* A connection that was not accepted carries nothing, the ends of one that was
\* agree on who has closed what, and a line is cut short only as the last one.
SocketsOK ==
  /\ socket # None => sock[socket] \in {"opening", "open", "dying", "refused"}
  /\ \A s \in Connections :
       /\ sock[s] \in {"free", "opening", "cancelled", "refused"}
            => conn[s] = "none" /\ peer[s] = "none" /\ wire[s] = <<>>
       /\ sock[s] = "open" => peer[s] = "open"
       /\ sock[s] = "ending" => peer[s] = "half"
       /\ waiting[s] # <<>> => sock[s] \in {"opening", "cancelled"}
       /\ Len(wire[s]) <= WireSize + 1
       /\ Writable(s) => Len(wire[s]) <= WireSize

\* The requests begun so far; each has opened at most one connection.
Begun == {r \in RequestIDs : r[2] < step[r[1]] \/ (r[2] = step[r[1]] /\ phase[r[1]] # "idle")}
Used  == {s \in Connections : sock[s] # "free"}
SocketsSuffice == Cardinality(Used) <= Cardinality(Begun)

-----------------------------------------------------------------------------
(* A call has one continuation: it awaits a promise, or an answer, or has a job due. *)

Fits(job) ==
  /\ job.result = "opened" => phase[job.call] = "connecting"
  /\ job.result = "lost" => phase[job.call] \in {"connecting", "answered"}
  /\ job.result \in {"ok", "refused", "busy"} => phase[job.call] = "answered"
  /\ job.result = "stop" => /\ job.call \in stopped
                            /\ phase[job.call] = "done" /\ step[job.call] = 1

HasJob(js, c) == \E job \in Range(js) : job.call = c
OneEach(js)   == \A i, j \in 1..Len(js) : js[i].call = js[j].call => i = j

JobsOK ==
  /\ \A job \in Range(jobs) : Fits(job)
  /\ OneEach(jobs)
  /\ \A c \in Calls : phase[c] = "answered" => HasJob(jobs, c)

WaitingOK ==
  \A s \in Connections :
    /\ IsInjective(waiting[s])
    /\ \A c \in Range(waiting[s]) :
         /\ phase[c] = "connecting" /\ ~HasJob(jobs, c)
         /\ \A t \in Connections \ {s} : c \notin Range(waiting[t])

PendingOK ==
  /\ IsInjective(pending)
  /\ Range(pending) = {c \in Calls : phase[c] = "sent"}

-----------------------------------------------------------------------------
(* What an ingest call is told. *)

StoredIfOk(c, result) == c \in Ingests /\ result = "ok" => EventID(c) \in store

AnswersTrue ==
  /\ \A s \in Connections :
       /\ reply[s] # None => StoredIfOk(reply[s].id[1], reply[s].result)
       /\ \A i \in 1..Len(wire[s]) : LET m == wire[s][i].message IN
            wire[s][i].part # "begin" /\ m \in Responses => StoredIfOk(m.id[1], m.result)
  /\ \A job \in Range(jobs) : StoredIfOk(job.call, job.result)
  /\ \A c \in Ingests : phase[c] = "done" => EventID(c) \in store

-----------------------------------------------------------------------------
(* A siphon is registered at most once. *)

\* Its registration has not been written.
Unwritten(h) == step[h] = 1 /\ phase[h] \in {"idle", "connecting"}

IsPush(line, h) == line.part # "begin" /\ line.message \in Pushes /\ line.message.sub = h

\* The request at position i of s registers h.
Asks(s, i, h) == inbox[s][i].action = "siphon_register" /\ inbox[s][i].about = h

RegisteredOnce ==
  /\ \A h \in Handles, s \in Connections : \A i \in 1..Len(inbox[s]) : Asks(s, i, h) =>
       /\ sub[h] = "none" /\ ~Unwritten(h)
       /\ \A t \in Connections : \A j \in 1..Len(inbox[t]) : Asks(t, j, h) => s = t /\ i = j
  /\ \A h \in Handles : Unwritten(h) => sub[h] = "none"
  /\ \A h \in Handles : sub[h] = "none" => queue[h] = <<>> /\ handled[h] = <<>> /\ early[h] = <<>>

\* Events of a siphon come on the connection that registered it.
PushesAtHome ==
  \A h \in Handles, s \in Connections : \A i \in 1..Len(wire[s]) :
    IsPush(wire[s][i], h) => sub[h] # "none" /\ home[h] = s

\* Only stop() makes the second request of a siphon, and it forgets the handler first.
Silenced == \A h \in Handles : step[h] = 2 => h \in stopped /\ h \notin handlers

-----------------------------------------------------------------------------
(* The way of the events, from the broadcast to the callback. *)

\* The events of h among the lines w are b+1 to q, in their order.
Carries(w, h, b, q) ==
  /\ b <= q
  /\ \A i \in 1..Len(w) : IsPush(w[i], h) => w[i].message.event \in (b + 1)..q
  /\ \A e \in (b + 1)..q : \E i \in 1..Len(w) : IsPush(w[i], h) /\ w[i].message.event = e
  /\ \A i, j \in 1..Len(w) :
       i < j /\ IsPush(w[i], h) /\ IsPush(w[j], h) => w[i].message.event < w[j].message.event

\* The events after q wait in the queue, up to the last one broadcast.
Queued(h, q) ==
  /\ \A i \in 1..Len(queue[h]) : queue[h][i] = q + i
  /\ sub[h] = "on" => q + Len(queue[h]) = published

Received(h) == since[h] + Len(handled[h]) + Len(early[h])
Clean(h)    == ~missed[h] /\ ~spilled[h] /\ ~garbled

\* As long as the siphon is not stopped: what its callback was given, what is
\* kept for it, what is on the wire and what waits in the queue are consecutive.
Unbroken(h) ==
  /\ \A i \in 1..Len(early[h]) : early[h][i] = since[h] + Len(handled[h]) + i
  /\ h \in handlers => early[h] = <<>>
  /\ sub[h] # "none" /\ peer[home[h]] # "gone" =>
       \E q \in Nat : Queued(h, q) /\ Carries(wire[home[h]], h, Received(h), q)

Chain ==
  \A h \in Handles : Clean(h) =>
    /\ \A i \in 1..Len(handled[h]) : handled[h][i] = since[h] + i
    /\ step[h] = 1 => Unbroken(h)

IInv ==
  /\ Typed /\ SocketsOK /\ SocketsSuffice
  /\ JobsOK /\ WaitingOK /\ PendingOK
  /\ AnswersTrue
  /\ RegisteredOnce /\ PushesAtHome /\ Silenced
  /\ Chain
-----------------------------------------------------------------------------
(* Sequences. *)

\* A sequence and what is appended to it.
LEMMA AppendSeq ==
  ASSUME NEW S, NEW s \in Seq(S), NEW e \in S
  PROVE  /\ Append(s, e) \in Seq(S) /\ Len(Append(s, e)) = Len(s) + 1
         /\ Append(s, e) # <<>> /\ Append(s, e)[Len(s) + 1] = e
         /\ \A i \in 1..Len(s) : Append(s, e)[i] = s[i]
  OBVIOUS

\* A sequence and what is left behind its first element.
LEMMA TailSeq ==
  ASSUME NEW S, NEW s \in Seq(S), s # <<>>
  PROVE  /\ Tail(s) \in Seq(S) /\ Len(Tail(s)) = Len(s) - 1 /\ Len(s) >= 1
         /\ Head(s) = s[1] /\ Head(s) \in S
         /\ \A i \in 1..Len(Tail(s)) : i + 1 \in 1..Len(s) /\ Tail(s)[i] = s[i + 1]
  OBVIOUS

\* One sequence after another.
LEMMA ConcatSeq ==
  ASSUME NEW S, NEW s \in Seq(S), NEW t \in Seq(S)
  PROVE  /\ s \o t \in Seq(S) /\ Len(s \o t) = Len(s) + Len(t)
         /\ \A i \in 1..Len(s) : (s \o t)[i] = s[i]
         /\ \A i \in 1..Len(t) : (s \o t)[Len(s) + i] = t[i]
         /\ \A i \in 1..Len(s \o t) : i \in 1..Len(s) \/ (i - Len(s) \in 1..Len(t)
                                                          /\ (s \o t)[i] = t[i - Len(s)])
  OBVIOUS

\* A sequence without the element at one position.
LEMMA RemoveSeq ==
  ASSUME NEW S, NEW s \in Seq(S), NEW i \in 1..Len(s)
  PROVE  /\ RemoveAt(s, i) \in Seq(S) /\ Len(RemoveAt(s, i)) = Len(s) - 1
         /\ \A j \in 1..Len(RemoveAt(s, i)) : RemoveAt(s, i)[j] = IF j < i THEN s[j] ELSE s[j + 1]
  <1>1. /\ SubSeq(s, 1, i - 1) \in Seq(S) /\ Len(SubSeq(s, 1, i - 1)) = i - 1
        /\ \A j \in 1..(i - 1) : SubSeq(s, 1, i - 1)[j] = s[j]
    OBVIOUS
  <1>2. /\ SubSeq(s, i + 1, Len(s)) \in Seq(S) /\ Len(SubSeq(s, i + 1, Len(s))) = Len(s) - i
        /\ \A j \in 1..(Len(s) - i) : SubSeq(s, i + 1, Len(s))[j] = s[i + j]
    OBVIOUS
  <1>3. ASSUME NEW a \in Seq(S), Len(a) = i - 1, \A j \in 1..(i - 1) : a[j] = s[j],
               NEW b \in Seq(S), Len(b) = Len(s) - i, \A j \in 1..(Len(s) - i) : b[j] = s[i + j]
        PROVE  /\ a \o b \in Seq(S) /\ Len(a \o b) = Len(s) - 1
               /\ \A j \in 1..Len(a \o b) : (a \o b)[j] = IF j < i THEN s[j] ELSE s[j + 1]
    <2>1. a \o b \in Seq(S) /\ Len(a \o b) = Len(s) - 1
      BY <1>3
    <2>2. ASSUME NEW j \in 1..Len(a \o b) PROVE (a \o b)[j] = IF j < i THEN s[j] ELSE s[j + 1]
      <3>1. CASE j < i
        BY <1>3, <3>1
      <3>2. CASE ~(j < i)
        <4>1. j - (i - 1) \in 1..(Len(s) - i) /\ (a \o b)[j] = b[j - (i - 1)]
          BY <1>3, <2>1, <3>2
        <4>2. QED
          BY <1>3, <3>2, <4>1
      <3>3. QED
        BY <3>1, <3>2
    <2>3. QED
      BY <2>1, <2>2
  <1>4. QED
    BY <1>1, <1>2, <1>3 DEF RemoveAt

\* The jobs of several calls.
LEMMA JobsSeq ==
  ASSUME NEW cs \in Seq(Calls), NEW result \in Results
  PROVE  /\ Jobs(cs, result) \in Seq(JobSet)
         /\ Len(Jobs(cs, result)) = Len(cs)
         /\ \A i \in 1..Len(cs) : /\ Jobs(cs, result)[i].call = cs[i]
                                  /\ Jobs(cs, result)[i].result = result
  <1>1. Len(cs) \in Nat /\ \A i \in 1..Len(cs) : cs[i] \in Calls
    OBVIOUS
  <1>2. \A i \in 1..Len(cs) : Job(cs[i], result) \in JobSet
    BY <1>1 DEF Job, JobSet
  <1>3. Jobs(cs, result) \in Seq(JobSet) /\ Len(Jobs(cs, result)) = Len(cs)
    BY <1>1, <1>2 DEF Jobs
  <1>4. \A i \in 1..Len(cs) : Jobs(cs, result)[i] = Job(cs[i], result)
    BY <1>1 DEF Jobs
  <1>5. \A c \in Calls : Job(c, result).call = c /\ Job(c, result).result = result
    BY DEF Job
  <1>6. QED
    BY <1>1, <1>3, <1>4, <1>5

\* The elements of a sequence.
LEMMA RangeOf ==
  ASSUME NEW S, NEW s \in Seq(S)
  PROVE  /\ Range(s) \in SUBSET S /\ \A e : e \in Range(s) <=> \E i \in 1..Len(s) : s[i] = e
         /\ IsInjective(s) <=> \A i, j \in 1..Len(s) : s[i] = s[j] => i = j
  <1>1. DOMAIN s = 1..Len(s) /\ \A i \in 1..Len(s) : s[i] \in S
    OBVIOUS
  <1>2. QED
    BY <1>1 DEF Range, IsInjective

LEMMA RangeAppend ==
  ASSUME NEW S, NEW s \in Seq(S), NEW e \in S
  PROVE  /\ Range(Append(s, e)) = Range(s) \cup {e}
         /\ IsInjective(s) /\ e \notin Range(s) => IsInjective(Append(s, e))
  <1>1. /\ Append(s, e) \in Seq(S) /\ Len(Append(s, e)) = Len(s) + 1 /\ Len(s) \in Nat
        /\ Append(s, e)[Len(s) + 1] = e /\ \A i \in 1..Len(s) : Append(s, e)[i] = s[i]
        /\ \A i \in 1..(Len(s) + 1) : i \in 1..Len(s) \/ i = Len(s) + 1
        /\ \A i \in 1..Len(s) : i \in 1..(Len(s) + 1)
        /\ Len(s) + 1 \in 1..(Len(s) + 1)
    OBVIOUS
  <1> DEFINE r == Append(s, e)
  <1>2. /\ \A x : x \in Range(r) <=> \E i \in 1..Len(r) : r[i] = x
        /\ IsInjective(r) <=> \A i, j \in 1..Len(r) : r[i] = r[j] => i = j
    BY <1>1, RangeOf
  <1>3. /\ \A x : x \in Range(s) <=> \E i \in 1..Len(s) : s[i] = x
        /\ IsInjective(s) <=> \A i, j \in 1..Len(s) : s[i] = s[j] => i = j
    BY RangeOf
  <1> HIDE DEF r
  <1>4. Range(r) = Range(s) \cup {e}
    <2>1. ASSUME NEW x \in Range(r) PROVE x \in Range(s) \cup {e}
      BY <1>1, <1>2, <1>3 DEF r
    <2>2. ASSUME NEW x \in Range(s) \cup {e} PROVE x \in Range(r)
      BY <1>1, <1>2, <1>3 DEF r
    <2>3. QED
      BY <2>1, <2>2
  <1>5. ASSUME IsInjective(s), e \notin Range(s) PROVE IsInjective(r)
    BY <1>1, <1>2, <1>3, <1>5 DEF r
  <1>6. QED
    BY <1>4, <1>5 DEF r

LEMMA RangeTail ==
  ASSUME NEW S, NEW s \in Seq(S), s # <<>>
  PROVE  Range(s) = Range(Tail(s)) \cup {Head(s)}
  <1>1. /\ Tail(s) \in Seq(S) /\ Len(Tail(s)) = Len(s) - 1 /\ Head(s) = s[1] /\ 1 \in 1..Len(s)
        /\ \A i \in 1..Len(Tail(s)) : i + 1 \in 1..Len(s) /\ Tail(s)[i] = s[i + 1]
        /\ \A i \in 1..Len(s) : i # 1 => i - 1 \in 1..Len(Tail(s)) /\ Tail(s)[i - 1] = s[i]
    OBVIOUS
  <1> DEFINE r == Tail(s)
  <1>2. \A x : x \in Range(r) <=> \E i \in 1..Len(r) : r[i] = x
    BY <1>1, RangeOf
  <1>3. \A x : x \in Range(s) <=> \E i \in 1..Len(s) : s[i] = x
    BY RangeOf
  <1> HIDE DEF r
  <1>4. ASSUME NEW x \in Range(s) PROVE x \in Range(r) \cup {Head(s)}
    BY <1>1, <1>2, <1>3 DEF r
  <1>5. ASSUME NEW x \in Range(r) \cup {Head(s)} PROVE x \in Range(s)
    BY <1>1, <1>2, <1>3 DEF r
  <1>6. QED
    BY <1>4, <1>5 DEF r

LEMMA RangeConcat ==
  ASSUME NEW S, NEW s \in Seq(S), NEW t \in Seq(S)
  PROVE  Range(s \o t) = Range(s) \cup Range(t)
  <1>1. \A i \in 1..Len(t) : Len(s) + i \in 1..Len(s \o t)
    BY ConcatSeq
  <1>2. \A i \in 1..Len(s) : i \in 1..Len(s \o t)
    BY ConcatSeq
  <1> DEFINE r == s \o t
  <1>3. /\ r \in Seq(S) /\ \A i \in 1..Len(s) : r[i] = s[i]
        /\ \A i \in 1..Len(t) : r[Len(s) + i] = t[i]
        /\ \A i \in 1..Len(r) : i \in 1..Len(s) \/ (i - Len(s) \in 1..Len(t) /\ r[i] = t[i - Len(s)])
    BY ConcatSeq
  <1>4. \A x : x \in Range(r) <=> \E i \in 1..Len(r) : r[i] = x
    BY <1>3, RangeOf
  <1>5. /\ \A x : x \in Range(s) <=> \E i \in 1..Len(s) : s[i] = x
        /\ \A x : x \in Range(t) <=> \E i \in 1..Len(t) : t[i] = x
    BY RangeOf
  <1> HIDE DEF r
  <1>6. ASSUME NEW x \in Range(r) PROVE x \in Range(s) \cup Range(t)
    BY <1>3, <1>4, <1>5
  <1>7. ASSUME NEW x \in Range(s) \cup Range(t) PROVE x \in Range(r)
    BY <1>1, <1>2, <1>3, <1>4, <1>5 DEF r
  <1>8. QED
    BY <1>6, <1>7 DEF r

LEMMA RangeRemove ==
  ASSUME NEW S, NEW s \in Seq(S), NEW i \in 1..Len(s), IsInjective(s)
  PROVE  IsInjective(RemoveAt(s, i)) /\ Range(RemoveAt(s, i)) = Range(s) \ {s[i]}
  <1> DEFINE r == RemoveAt(s, i)
  <1>1. /\ r \in Seq(S) /\ Len(r) = Len(s) - 1 /\ Len(s) \in Nat
        /\ \A j \in 1..Len(r) : r[j] = IF j < i THEN s[j] ELSE s[j + 1]
    BY RemoveSeq
  <1> HIDE DEF r
  <1>2. \A j, k \in 1..Len(s) : s[j] = s[k] => j = k
    BY RangeOf
  <1>3. \A j \in 1..Len(r) : j \in 1..Len(s) /\ j + 1 \in 1..Len(s)
    BY <1>1
  <1>4. \A j, k \in 1..Len(r) : r[j] = r[k] => j = k
    BY <1>1, <1>2, <1>3
  <1>5. \A j \in 1..Len(r) : r[j] \in Range(s) /\ r[j] # s[i]
    BY <1>1, <1>2, <1>3, RangeOf
  <1>6. ASSUME NEW j \in 1..Len(s), j # i PROVE \E k \in 1..Len(r) : r[k] = s[j]
    <2>1. CASE j < i
      <3>1. j \in 1..Len(r) /\ r[j] = s[j]
        BY <1>1, <2>1
      <3>2. QED
        BY <3>1
    <2>2. CASE j > i
      <3>1. j - 1 \in 1..Len(r) /\ r[j - 1] = s[j]
        BY <1>1, <2>2
      <3>2. QED
        BY <3>1
    <2>3. QED
      BY <1>6, <2>1, <2>2
  <1>7. /\ \A x : x \in Range(r) <=> \E k \in 1..Len(r) : r[k] = x
        /\ IsInjective(r) <=> \A j, k \in 1..Len(r) : r[j] = r[k] => j = k
    BY <1>1, RangeOf
  <1>8. \A x : x \in Range(s) <=> \E k \in 1..Len(s) : s[k] = x
    BY RangeOf
  <1>9. Range(r) = Range(s) \ {s[i]}
    <2>1. ASSUME NEW x \in Range(r) PROVE x \in Range(s) \ {s[i]}
      BY <1>5, <1>7
    <2>2. ASSUME NEW x \in Range(s) \ {s[i]} PROVE x \in Range(r)
      BY <1>6, <1>7, <1>8
    <2>3. QED
      BY <2>1, <2>2
  <1>10. QED
    BY <1>4, <1>7, <1>9 DEF r

\* The jobs behind the first one are of other calls.
LEMMA JobsTail ==
  ASSUME NEW js \in Seq(JobSet), js # <<>>, OneEach(js)
  PROVE  /\ Tail(js) \in Seq(JobSet) /\ OneEach(Tail(js)) /\ Head(js) \in Range(js)
         /\ Range(js) = Range(Tail(js)) \cup {Head(js)} /\ ~HasJob(Tail(js), Head(js).call)
  <1>1. /\ Tail(js) \in Seq(JobSet) /\ Head(js) = js[1] /\ 1 \in 1..Len(js) /\ Len(js) \in Nat
        /\ \A i \in 1..Len(Tail(js)) : i + 1 \in 1..Len(js) /\ Tail(js)[i] = js[i + 1] /\ i + 1 # 1
    OBVIOUS
  <1>2. Range(js) = Range(Tail(js)) \cup {Head(js)}
    BY RangeTail
  <1>3. OneEach(Tail(js))
    BY <1>1 DEF OneEach
  <1>4. \A i \in 1..Len(Tail(js)) : Tail(js)[i].call # Head(js).call
    BY <1>1 DEF OneEach
  <1> DEFINE t == Tail(js)
  <1>5. \A job \in Range(t) : \E i \in 1..Len(t) : t[i] = job
    <2>1. t \in Seq(JobSet)
      BY <1>1
    <2> HIDE DEF t
    <2>2. QED
      BY <2>1, RangeOf
  <1>6. QED
    BY <1>1, <1>2, <1>3, <1>4, <1>5 DEF HasJob

\* One job more.
LEMMA JobsAppend ==
  ASSUME NEW js \in Seq(JobSet), NEW c \in Calls, NEW result \in Results
  PROVE  /\ Append(js, Job(c, result)) \in Seq(JobSet)
         /\ Range(Append(js, Job(c, result))) = Range(js) \cup {Job(c, result)}
         /\ OneEach(js) /\ ~HasJob(js, c) => OneEach(Append(js, Job(c, result)))
         /\ Job(c, result).call = c /\ Job(c, result).result = result
  <1>1. Job(c, result) \in JobSet /\ Job(c, result).call = c /\ Job(c, result).result = result
    BY DEF Job, JobSet
  <1> DEFINE e == Job(c, result)
             r == Append(js, e)
  <1> HIDE DEF e
  <1>2. /\ r \in Seq(JobSet) /\ Len(r) = Len(js) + 1 /\ r[Len(js) + 1] = e /\ Len(js) \in Nat
        /\ \A i \in 1..Len(js) : r[i] = js[i]
        /\ \A i \in 1..Len(r) : i \in 1..Len(js) \/ i = Len(js) + 1
    BY <1>1 DEF e
  <1>3. Range(r) = Range(js) \cup {e}
    BY <1>1, RangeAppend DEF e
  <1>4. ASSUME OneEach(js), ~HasJob(js, c) PROVE OneEach(r)
    <2>1. \A i \in 1..Len(js) : js[i] \in Range(js)
      BY RangeOf
    <2>2. \A i \in 1..Len(js) : js[i].call # c
      BY <1>4, <2>1 DEF HasJob
    <2>3. \A i, j \in 1..Len(js) : js[i].call = js[j].call => i = j
      BY <1>4 DEF OneEach
    <2> HIDE DEF r
    <2>4. QED
      BY <1>1, <1>2, <2>2, <2>3 DEF OneEach, e
  <1>5. QED
    BY <1>1, <1>2, <1>3, <1>4 DEF e

\* The jobs of calls that had none.
LEMMA JobsConcat ==
  ASSUME NEW js \in Seq(JobSet), NEW cs \in Seq(Calls), NEW result \in Results
  PROVE  /\ js \o Jobs(cs, result) \in Seq(JobSet)
         /\ Range(js \o Jobs(cs, result)) = Range(js) \cup {Job(c, result) : c \in Range(cs)}
         /\ OneEach(js) /\ IsInjective(cs) /\ (\A c \in Range(cs) : ~HasJob(js, c))
              => OneEach(js \o Jobs(cs, result))
  <1> DEFINE ks == Jobs(cs, result)
             r == js \o ks
  <1>1. /\ ks \in Seq(JobSet) /\ Len(ks) = Len(cs) /\ Len(cs) \in Nat /\ Len(js) \in Nat
        /\ \A i \in 1..Len(cs) : ks[i].call = cs[i] /\ ks[i] = Job(cs[i], result)
    BY JobsSeq DEF Jobs
  <1>2. Range(ks) = {Job(c, result) : c \in Range(cs)}
    <2>1. /\ \A x : x \in Range(ks) <=> \E i \in 1..Len(ks) : ks[i] = x
          /\ \A x : x \in Range(cs) <=> \E i \in 1..Len(cs) : cs[i] = x
      BY <1>1, RangeOf
    <2> HIDE DEF ks
    <2>2. QED
      BY <1>1, <2>1
  <1>3. r \in Seq(JobSet) /\ Range(r) = Range(js) \cup Range(ks)
    BY <1>1, RangeConcat
  <1>4. ASSUME OneEach(js), IsInjective(cs), \A c \in Range(cs) : ~HasJob(js, c) PROVE OneEach(r)
    <2>1. \A i \in 1..Len(js) : js[i] \in Range(js)
      BY RangeOf
    <2>2. \A i \in 1..Len(cs) : cs[i] \in Range(cs)
      BY RangeOf
    <2>3. \A i \in 1..Len(js), j \in 1..Len(ks) : js[i].call # ks[j].call
      BY <1>1, <1>4, <2>1, <2>2 DEF HasJob
    <2>4. \A i, j \in 1..Len(ks) : ks[i].call = ks[j].call => i = j
      BY <1>1, <1>4, RangeOf
    <2> HIDE DEF ks
    <2>5. /\ Len(r) = Len(js) + Len(ks) /\ \A i \in 1..Len(js) : r[i] = js[i]
          /\ \A i \in 1..Len(r) : i \in 1..Len(js) \/ (i - Len(js) \in 1..Len(ks)
                                                       /\ r[i] = ks[i - Len(js)])
      <3>1. ks \in Seq(JobSet) /\ js \in Seq(JobSet)
        BY <1>1
      <3>2. QED
        BY <3>1, ConcatSeq, ZenonT(60)
    <2> HIDE DEF r
    <2>6. \A i, j \in 1..Len(js) : js[i].call = js[j].call => i = j
      BY <1>4 DEF OneEach
    <2>7. SUFFICES ASSUME NEW i \in 1..Len(r), NEW j \in 1..Len(r), r[i].call = r[j].call
                   PROVE  i = j
      BY DEF OneEach
    <2>8. CASE i \in 1..Len(js) /\ j \in 1..Len(js)
      BY <2>5, <2>6, <2>7, <2>8
    <2>9. CASE i \notin 1..Len(js) /\ j \notin 1..Len(js)
      <3>1. i - Len(js) = j - Len(js)
        BY <2>4, <2>5, <2>7, <2>9
      <3>2. QED
        BY <1>1, <3>1
    <2>10. CASE i \in 1..Len(js) /\ j \notin 1..Len(js)
      BY <2>3, <2>5, <2>7, <2>10
    <2>11. CASE i \notin 1..Len(js) /\ j \in 1..Len(js)
      BY <2>3, <2>5, <2>7, <2>11
    <2>12. QED
      BY <2>8, <2>9, <2>10, <2>11
  <1>5. QED
    BY <1>2, <1>3, <1>4

-----------------------------------------------------------------------------
(* Messages. *)

\* Answers and events are told apart by their fields.
LEMMA Messages ==
  /\ \A m \in Responses : "id" \in DOMAIN m /\ "sub" \notin DOMAIN m /\ m \notin Pushes
  /\ \A m \in Pushes : "sub" \in DOMAIN m /\ "id" \notin DOMAIN m /\ m \notin Responses
  <1>1. \A m \in Responses : m = [id |-> m.id, result |-> m.result]
    BY DEF Responses
  <1>2. \A m \in Responses : DOMAIN m = {"id", "result"}
    BY <1>1
  <1>3. \A m \in Pushes : m = [sub |-> m.sub, event |-> m.event]
    BY DEF Pushes
  <1>4. \A m \in Pushes : DOMAIN m = {"sub", "event"}
    BY <1>3
  <1>5. QED
    BY <1>2, <1>4

\* What the daemon writes are lines, and only the push of a siphon is one of its events.
LEMMA Written ==
  /\ \A m \in Responses : Whole(m) \in Lines /\ \A h \in Handles : ~IsPush(Whole(m), h)
  /\ \A h \in Handles, e \in Nat :
       LET line == Whole([sub |-> h, event |-> e]) IN
       /\ line \in Lines /\ line.message.event = e
       /\ \A g \in Handles : IsPush(line, g) <=> g = h
  /\ Fragment \in Lines /\ \A h \in Handles : ~IsPush(Fragment, h)
  <1>1. \A m \in Responses : Whole(m) \in Lines /\ \A h \in Handles : ~IsPush(Whole(m), h)
    BY Messages DEF Whole, Lines, IsPush
  <1>2. ASSUME NEW h \in Handles, NEW e \in Nat
        PROVE  LET line == Whole([sub |-> h, event |-> e]) IN
               /\ line \in Lines /\ line.message.event = e
               /\ \A g \in Handles : IsPush(line, g) <=> g = h
    <2>1. [sub |-> h, event |-> e] \in Pushes
      BY DEF Pushes
    <2>2. QED
      BY <2>1 DEF Whole, Lines, IsPush
  <1>3. QED
    BY <1>1, <1>2 DEF Fragment, Lines, IsPush

\* A line that is not a fragment is an answer or an event.
LEMMA LineKinds ==
  ASSUME NEW line \in Lines, line.part # "begin"
  PROVE  /\ line.message \in Responses \cup Pushes
         /\ "id" \in DOMAIN line.message => line.message \in Responses
         /\ "sub" \in DOMAIN line.message => line.message \in Pushes
  <1>1. line.message \in Responses \cup Pushes
    BY DEF Lines, Fragment
  <1>2. QED
    BY <1>1, Messages

\* The rest of a line holds what the line held.
LEMMA RestOfLine ==
  ASSUME NEW line \in Lines, line.part = "whole"
  PROVE  /\ [line EXCEPT !.part = "rest"] \in Lines
         /\ [line EXCEPT !.part = "rest"].message = line.message
         /\ [line EXCEPT !.part = "rest"].part = "rest"
  <1>1. line \in [part : {"whole", "rest"}, message : Responses \cup Pushes]
    BY DEF Lines, Fragment
  <1>2. QED
    BY <1>1 DEF Lines

-----------------------------------------------------------------------------
(* The events of a siphon among the lines of a connection. *)

\* A line without an event of h, or with the next one, is written behind the others.
LEMMA CarriesWritten ==
  ASSUME NEW h \in Handles, NEW w \in Seq(Lines), NEW line \in Lines, NEW b \in Nat, NEW q \in Nat,
         Carries(w, h, b, q)
  PROVE  /\ ~IsPush(line, h) => Carries(Append(w, line), h, b, q)
         /\ IsPush(line, h) /\ line.message.event = q + 1 => Carries(Append(w, line), h, b, q + 1)
  <1> DEFINE v == Append(w, line)
  <1>1. /\ v \in Seq(Lines) /\ Len(v) = Len(w) + 1 /\ v[Len(w) + 1] = line /\ Len(w) \in Nat
        /\ \A i \in 1..Len(w) : v[i] = w[i]
        /\ \A i \in 1..Len(v) : i \in 1..Len(w) \/ i = Len(w) + 1
    OBVIOUS
  <1> HIDE DEF v
  <1>2. ASSUME ~IsPush(line, h) PROVE Carries(v, h, b, q)
    <2>1. b <= q /\ \A i \in 1..Len(v) : IsPush(v[i], h) => v[i].message.event \in (b + 1)..q
      BY <1>1, <1>2 DEF Carries
    <2>2. ASSUME NEW e \in (b + 1)..q
          PROVE  \E i \in 1..Len(v) : IsPush(v[i], h) /\ v[i].message.event = e
      <3>1. PICK i \in 1..Len(w) : IsPush(w[i], h) /\ w[i].message.event = e
        BY DEF Carries
      <3>2. i \in 1..Len(v) /\ v[i] = w[i]
        BY <1>1
      <3>3. QED
        BY <3>1, <3>2
    <2>3. ASSUME NEW i \in 1..Len(v), NEW j \in 1..Len(v), i < j, IsPush(v[i], h), IsPush(v[j], h)
          PROVE  v[i].message.event < v[j].message.event
      <3>1. j \in 1..Len(w) /\ i \in 1..Len(w)
        BY <1>1, <1>2, <2>3
      <3>2. QED
        BY <1>1, <2>3, <3>1 DEF Carries
    <2>4. QED
      BY <2>1, <2>2, <2>3 DEF Carries
  <1>3. ASSUME IsPush(line, h), line.message.event = q + 1 PROVE Carries(v, h, b, q + 1)
    <2>1. b <= q + 1 /\ \A i \in 1..Len(v) : IsPush(v[i], h) => v[i].message.event \in (b + 1)..(q + 1)
      <3>1. ASSUME NEW i \in 1..Len(w), IsPush(w[i], h) PROVE w[i].message.event \in (b + 1)..(q + 1)
        <4>1. w[i].message.event \in (b + 1)..q
          BY <3>1 DEF Carries
        <4>2. QED
          BY <4>1
      <3>2. b <= q
        BY DEF Carries
      <3>3. QED
        BY <1>1, <1>3, <3>1, <3>2
    <2>2. ASSUME NEW e \in (b + 1)..(q + 1)
          PROVE  \E i \in 1..Len(v) : IsPush(v[i], h) /\ v[i].message.event = e
      <3>1. CASE e = q + 1
        BY <1>1, <1>3, <3>1
      <3>2. CASE e # q + 1
        <4>1. e \in (b + 1)..q
          BY <3>2
        <4>2. PICK i \in 1..Len(w) : IsPush(w[i], h) /\ w[i].message.event = e
          BY <4>1 DEF Carries
        <4>3. i \in 1..Len(v) /\ v[i] = w[i]
          BY <1>1
        <4>4. QED
          BY <4>2, <4>3
      <3>3. QED
        BY <3>1, <3>2
    <2>3. ASSUME NEW i \in 1..Len(v), NEW j \in 1..Len(v), i < j, IsPush(v[i], h), IsPush(v[j], h)
          PROVE  v[i].message.event < v[j].message.event
      <3>1. i \in 1..Len(w) /\ v[i] = w[i]
        BY <1>1, <2>3
      <3>2. w[i].message.event \in (b + 1)..q
        BY <2>3, <3>1 DEF Carries
      <3>3. CASE j \in 1..Len(w)
        <4>1. v[j] = w[j]
          BY <1>1, <3>3
        <4>2. QED
          BY <2>3, <3>1, <3>3, <4>1 DEF Carries
      <3>4. CASE j = Len(w) + 1
        BY <1>1, <1>3, <3>1, <3>2, <3>4
      <3>5. QED
        BY <1>1, <3>3, <3>4
    <2>4. QED
      BY <2>1, <2>2, <2>3 DEF Carries
  <1>4. QED
    BY <1>2, <1>3 DEF v

\* The first line is read: if it holds an event of h, that is the next one.
LEMMA CarriesRead ==
  ASSUME NEW h \in Handles, NEW w \in Seq(Lines), w # <<>>, NEW b \in Nat, NEW q \in Nat,
         Carries(w, h, b, q)
  PROVE  /\ ~IsPush(Head(w), h) => Carries(Tail(w), h, b, q)
         /\ IsPush(Head(w), h) => Head(w).message.event = b + 1 /\ Carries(Tail(w), h, b + 1, q)
  <1> DEFINE v == Tail(w)
  <1>1. /\ v \in Seq(Lines) /\ Len(v) = Len(w) - 1 /\ Head(w) = w[1] /\ Len(w) \in Nat /\ Len(w) >= 1
        /\ \A i \in 1..Len(v) : i + 1 \in 1..Len(w) /\ v[i] = w[i + 1]
        /\ \A i \in 1..Len(w) : i # 1 => i - 1 \in 1..Len(v) /\ v[i - 1] = w[i]
    OBVIOUS
  <1>2. 1 \in 1..Len(w) /\ \A i \in 1..Len(v) : 1 < i + 1
    BY <1>1
  <1> HIDE DEF v
  <1>3. ASSUME ~IsPush(w[1], h) PROVE Carries(v, h, b, q)
    <2>1. b <= q /\ \A i \in 1..Len(v) : IsPush(v[i], h) => v[i].message.event \in (b + 1)..q
      BY <1>1 DEF Carries
    <2>2. ASSUME NEW e \in (b + 1)..q
          PROVE  \E i \in 1..Len(v) : IsPush(v[i], h) /\ v[i].message.event = e
      <3>1. PICK i \in 1..Len(w) : IsPush(w[i], h) /\ w[i].message.event = e
        BY DEF Carries
      <3>2. i - 1 \in 1..Len(v) /\ v[i - 1] = w[i]
        BY <1>1, <1>3, <3>1
      <3>3. QED
        BY <3>1, <3>2
    <2>3. ASSUME NEW i \in 1..Len(v), NEW j \in 1..Len(v), i < j, IsPush(v[i], h), IsPush(v[j], h)
          PROVE  v[i].message.event < v[j].message.event
      <3>1. i + 1 \in 1..Len(w) /\ j + 1 \in 1..Len(w) /\ i + 1 < j + 1 /\ v[i] = w[i + 1] /\ v[j] = w[j + 1]
        BY <1>1, <2>3
      <3>2. QED
        BY <2>3, <3>1 DEF Carries
    <2>4. QED
      BY <2>1, <2>2, <2>3 DEF Carries
  <1>4. ASSUME IsPush(w[1], h) PROVE w[1].message.event = b + 1 /\ Carries(v, h, b + 1, q)
    <2>1. w[1].message.event \in (b + 1)..q /\ b + 1 <= q
      BY <1>2, <1>4 DEF Carries
    <2>2. PICK k \in 1..Len(w) : IsPush(w[k], h) /\ w[k].message.event = b + 1
      <3>1. b + 1 \in (b + 1)..q
        BY <2>1
      <3>2. QED
        BY <3>1 DEF Carries
    <2>3. k = 1
      <3>1. SUFFICES ASSUME k # 1 PROVE FALSE
        OBVIOUS
      <3>2. 1 < k
        BY <3>1, <1>1
      <3>3. w[1].message.event < w[k].message.event
        BY <1>2, <1>4, <2>2, <3>2 DEF Carries
      <3>4. QED
        BY <2>1, <2>2, <3>3
    <2>4. w[1].message.event = b + 1
      BY <2>2, <2>3
    <2>5. ASSUME NEW i \in 1..Len(v), IsPush(v[i], h) PROVE v[i].message.event \in (b + 2)..q
      <3>1. i + 1 \in 1..Len(w) /\ v[i] = w[i + 1] /\ 1 < i + 1
        BY <1>1, <1>2
      <3>2. w[1].message.event < w[i + 1].message.event /\ w[i + 1].message.event \in (b + 1)..q
        BY <1>2, <1>4, <2>5, <3>1 DEF Carries
      <3>3. QED
        BY <2>4, <3>1, <3>2
    <2>6. ASSUME NEW e \in (b + 2)..q
          PROVE  \E i \in 1..Len(v) : IsPush(v[i], h) /\ v[i].message.event = e
      <3>1. e \in (b + 1)..q /\ e # b + 1
        OBVIOUS
      <3>2. PICK i \in 1..Len(w) : IsPush(w[i], h) /\ w[i].message.event = e
        BY <3>1 DEF Carries
      <3>3. i - 1 \in 1..Len(v) /\ v[i - 1] = w[i]
        BY <1>1, <2>4, <3>1, <3>2
      <3>4. QED
        BY <3>2, <3>3
    <2>7. ASSUME NEW i \in 1..Len(v), NEW j \in 1..Len(v), i < j, IsPush(v[i], h), IsPush(v[j], h)
          PROVE  v[i].message.event < v[j].message.event
      <3>1. i + 1 \in 1..Len(w) /\ j + 1 \in 1..Len(w) /\ i + 1 < j + 1 /\ v[i] = w[i + 1] /\ v[j] = w[j + 1]
        BY <1>1, <2>7
      <3>2. QED
        BY <2>7, <3>1 DEF Carries
    <2>8. b + 1 + 1 = b + 2
      OBVIOUS
    <2>9. QED
      BY <2>1, <2>4, <2>5, <2>6, <2>7, <2>8 DEF Carries
  <1>5. QED
    BY <1>1, <1>3, <1>4 DEF v

\* Lines that hold the same events carry the same.
LEMMA CarriesSame ==
  ASSUME NEW h \in Handles, NEW w \in Seq(Lines), NEW v \in Seq(Lines), NEW b \in Nat, NEW q \in Nat,
         Carries(w, h, b, q), Len(v) = Len(w),
         \A i \in 1..Len(w) : /\ IsPush(v[i], h) <=> IsPush(w[i], h)
                              /\ v[i].message = w[i].message
  PROVE  Carries(v, h, b, q)
  BY DEF Carries

\* No event of h has been written.
LEMMA CarriesNone ==
  ASSUME NEW h \in Handles, NEW w \in Seq(Lines), NEW b \in Nat,
         \A i \in 1..Len(w) : ~IsPush(w[i], h)
  PROVE  Carries(w, h, b, b)
  BY DEF Carries

-----------------------------------------------------------------------------
(* Types. *)

\* The request taken from a connection, and those that are left.
LEMMA TakesTyped ==
  ASSUME Typed, NEW s \in Connections, Takes(s)
  PROVE  /\ Head(inbox[s]) \in Requests /\ inbox' \in [Connections -> Seq(Requests)]
         /\ Head(inbox[s]).id \in RequestIDs
  <1>1. inbox[s] \in Seq(Requests) /\ inbox[s] # <<>>
    BY DEF Typed, ServerTyped, Takes
  <1>2. Head(inbox[s]) \in Requests /\ Tail(inbox[s]) \in Seq(Requests)
    BY <1>1, TailSeq
  <1>3. QED
    BY <1>2 DEF Typed, ServerTyped, Takes, Requests

\* An answer to a request.
LEMMA RepliesTyped ==
  ASSUME Typed, NEW s \in Connections, NEW id \in RequestIDs,
         NEW result \in {"ok", "refused", "busy"}, Replies(s, id, result)
  PROVE  reply' \in [Connections -> Responses \cup {None}]
  BY DEF Typed, ServerTyped, Replies, Responses

\* A broadcast fills the queues of those who listen.
LEMMA BroadcastTyped ==
  ASSUME Typed, NEW who \in Broadcasters, Broadcast(who)
  PROVE  /\ published' = published + 1 /\ published' \in Nat
         /\ queue' \in [Handles -> Seq(Nat)] /\ noticed' \in [Handles -> SUBSET Broadcasters]
         /\ missed' \in [Handles -> BOOLEAN]
         /\ \A h \in Handles : Len(queue'[h]) <= QueueSize
  <1>1. published' = published + 1 /\ published' \in Nat
    BY DEF Typed, ServerTyped, Broadcast
  <1>2. \A h \in Handles : /\ queue[h] \in Seq(Nat) /\ Append(queue[h], published') \in Seq(Nat)
                           /\ Len(Append(queue[h], published')) = Len(queue[h]) + 1
                           /\ Len(queue[h]) \in Nat /\ Len(queue[h]) <= QueueSize
    BY <1>1 DEF Typed, ServerTyped
  <1>3. queue' \in [Handles -> Seq(Nat)] /\ \A h \in Handles : Len(queue'[h]) <= QueueSize
    BY <1>2, ServerAssumption DEF Broadcast, Full
  <1>4. noticed' \in [Handles -> SUBSET Broadcasters] /\ missed' \in [Handles -> BOOLEAN]
    BY DEF Typed, ServerTyped, Broadcast
  <1>5. QED
    BY <1>1, <1>3, <1>4

\* A line more on a connection.
LEMMA WireTyped ==
  ASSUME Typed, NEW s \in Connections, NEW line \in Lines
  PROVE  [wire EXCEPT ![s] = Append(@, line)] \in [Connections -> Seq(Lines)]
  <1>1. Append(wire[s], line) \in Seq(Lines)
    BY AppendSeq DEF Typed, ServerTyped
  <1>2. QED
    BY <1>1 DEF Typed, ServerTyped

\* The handler of a connection keeps the types.
LEMMA ServerStepTyped ==
  ASSUME Typed, NEW s \in Connections, ServerStep(s)
  PROVE  ServerTyped'
  <1> USE DEF Typed, ServerTyped
  <1>1. s \in Broadcasters
    BY DEF Broadcasters
  <1>2. CASE HandleIngest(s)
    <2> DEFINE r == Head(inbox[s])
    <2>1. r \in Requests /\ inbox' \in [Connections -> Seq(Requests)] /\ r.id \in RequestIDs
      BY <1>2, TakesTyped DEF HandleIngest
    <2>2. r.about \in Ingests \X {1}
      <3>1. r.action = "event_ingest"
        BY <1>2 DEF HandleIngest
      <3>2. r.id[1] \in Ingests /\ r.about = <<r.id[1], 1>>
        BY <2>1, <3>1 DEF Requests, EventID
      <3>3. \A c \in Ingests : <<c, 1>> \in Ingests \X {1}
        OBVIOUS
      <3>4. QED
        BY <3>2, <3>3
    <2>3. reply' \in [Connections -> Responses \cup {None}]
      BY <1>2, <2>1, RepliesTyped DEF HandleIngest
    <2>4. UNCHANGED <<daemon, conn, peer, mute, wire, sub, home, since>>
      BY <1>2 DEF HandleIngest, subscriptions
    <2>5. /\ published' \in Nat /\ queue' \in [Handles -> Seq(Nat)]
          /\ noticed' \in [Handles -> SUBSET Broadcasters] /\ missed' \in [Handles -> BOOLEAN]
          /\ \A h \in Handles : Len(queue'[h]) <= QueueSize
      BY <1>1, <1>2, BroadcastTyped DEF HandleIngest, subscriptions
    <2>6. store' \subseteq Ingests \X {1}
      BY <1>2, <2>2 DEF HandleIngest
    <2>7. QED
      BY <2>1, <2>3, <2>4, <2>5, <2>6
  <1>3. CASE HandleFails(s)
    <2>1. inbox' \in [Connections -> Seq(Requests)] /\ reply' \in [Connections -> Responses \cup {None}]
      BY <1>3, TakesTyped, RepliesTyped DEF HandleFails
    <2>2. QED
      BY <1>3, <2>1 DEF HandleFails, subscriptions
  <1>4. CASE HandleRegister(s)
    <2> DEFINE r == Head(inbox[s])
    <2>1. r \in Requests /\ inbox' \in [Connections -> Seq(Requests)] /\ r.id \in RequestIDs
      BY <1>4, TakesTyped DEF HandleRegister
    <2>2. r.about \in Handles /\ reply' \in [Connections -> Responses \cup {None}]
      BY <1>4, <2>1, RepliesTyped, ClientAssumption DEF HandleRegister, Requests
    <2>3. s # None
      BY ServerAssumption
    <2> HIDE DEF r
    <2>4. /\ sub' = [sub EXCEPT ![r.about] = "on"] /\ home' = [home EXCEPT ![r.about] = s]
          /\ since' = [since EXCEPT ![r.about] = published]
          /\ UNCHANGED <<daemon, conn, peer, mute, wire, store, published, queue, noticed, missed>>
      BY <1>4 DEF HandleRegister, r
    <2>5. QED
      BY <2>1, <2>2, <2>3, <2>4
  <1>5. CASE HandleUnregister(s)
    <2>1. inbox' \in [Connections -> Seq(Requests)] /\ reply' \in [Connections -> Responses \cup {None}]
      BY <1>5, TakesTyped, RepliesTyped DEF HandleUnregister
    <2>2. QED
      BY <1>5, <2>1 DEF HandleUnregister, Removed
  <1>6. CASE Answer(s)
    <2>1. Whole(reply[s]) \in Lines
      BY <1>6, Written DEF Answer, Answers
    <2>2. wire' \in [Connections -> Seq(Lines)]
      BY <1>6, <2>1, WireTyped DEF Answer
    <2>3. QED
      BY <1>6, <2>2 DEF Answer, Answers, subscriptions
  <1>7. CASE AnswerExpires(s)
    <2>1. wire' \in [Connections -> Seq(Lines)]
      <3>1. [wire EXCEPT ![s] = Append(@, Fragment)] \in [Connections -> Seq(Lines)]
        BY Written, WireTyped
      <3>2. QED
        BY <1>7, <3>1 DEF AnswerExpires
    <2>2. QED
      BY <1>7, <2>1 DEF AnswerExpires, Answers, subscriptions
  <1>8. CASE HandlerEnds(s)
    BY <1>8 DEF HandlerEnds, Leaves, Removed
  <1>9. CASE IdleOut(s)
    BY <1>9 DEF IdleOut, Leaves, Removed
  <1>10. QED
    BY <1>2, <1>3, <1>4, <1>5, <1>6, <1>7, <1>8, <1>9 DEF ServerStep

\* So does everything else in the daemon.
LEMMA ServerNextTyped ==
  ASSUME Typed, RegisteredOnce, ServerNext
  PROVE  ServerTyped'
  <1> USE DEF Typed, ServerTyped
  <1>1. CASE MeshEvent
    <2>1. Mesh \in Broadcasters
      BY DEF Broadcasters
    <2>2. QED
      BY <1>1, <2>1, BroadcastTyped DEF MeshEvent, connections
  <1>2. CASE Shutdown
    BY <1>2 DEF Shutdown, subscriptions
  <1>3. CASE Closed \/ Start
    BY <1>3 DEF Closed, Start, connections, subscriptions
  <1>4. CASE Crash
    <2>1. wire' \in [Connections -> Seq(Lines)]
      <3>1. \A t \in Connections : Append(wire[t], Fragment) \in Seq(Lines)
        BY AppendSeq, Written
      <3>2. QED
        BY <1>4, <3>1 DEF Crash
    <2>2. /\ daemon' = "down" /\ conn' \in [Connections -> {"none", "open", "shut", "done"}]
          /\ sub' \in [Handles -> {"none", "on", "off"}]
          /\ \A h \in Handles : sub'[h] # "none" => sub[h] # "none"
      BY <1>4 DEF Crash, Removed
    <2>3. /\ inbox' \in [Connections -> Seq(Requests)] /\ reply' \in [Connections -> Responses \cup {None}]
          /\ mute' \in [Connections -> BOOLEAN] /\ noticed' \in [Handles -> SUBSET Broadcasters]
      BY <1>4 DEF Crash
    <2>4. queue' \in [Handles -> Seq(Nat)] /\ \A h \in Handles : Len(queue'[h]) <= QueueSize
      BY <1>4, ServerAssumption DEF Crash
    <2>5. UNCHANGED <<peer, store, published, home, since, missed>>
      BY <1>4 DEF Crash
    <2>6. QED
      BY <2>1, <2>2, <2>3, <2>4, <2>5
  <1>5. CASE \E s \in Connections : ServerStep(s)
    BY <1>5, ServerStepTyped
  <1>6. ASSUME NEW h \in Handles, Deliver(h) PROVE ServerTyped'
    <2>1. queue[h] \in Seq(Nat) /\ queue[h] # <<>>
      BY <1>6 DEF Deliver
    <2>2. /\ Tail(queue[h]) \in Seq(Nat) /\ Len(Tail(queue[h])) <= QueueSize
          /\ Head(queue[h]) \in Nat
      <3>1. Len(queue[h]) <= QueueSize /\ QueueSize \in Nat
        BY ServerAssumption
      <3>2. QED
        BY <2>1, <3>1
    <2>3. wire' \in [Connections -> Seq(Lines)]
      <3>1. Whole([sub |-> h, event |-> Head(queue[h])]) \in Lines
        BY <2>2, Written
      <3>2. QED
        BY <1>6, <3>1, WireTyped DEF Deliver
    <2>4. QED
      BY <1>6, <2>2, <2>3 DEF Deliver
  <1>7. ASSUME NEW h \in Handles, DeliverFails(h) PROVE ServerTyped'
    <2>1. Len(<<>>) <= QueueSize /\ <<>> \in Seq(Nat)
      BY ServerAssumption
    <2>2. sub[h] # "none"
      BY <1>7 DEF DeliverFails, RegisteredOnce
    <2>3. QED
      BY <1>7, <2>1, <2>2 DEF DeliverFails, Shut
  <1>8. ASSUME NEW h \in Handles, NEW who \in Broadcasters, Disconnect(h, who) PROVE ServerTyped'
    BY <1>8 DEF Disconnect, Removed, Shut
  <1>9. QED
    BY <1>1, <1>2, <1>3, <1>4, <1>5, <1>6, <1>7, <1>8 DEF ServerNext, SubscriptionStep

-----------------------------------------------------------------------------
(* Connections are opened on demand. *)

\* Sets of numbers have a smallest element.
LEMMA Smallest ==
  ASSUME NEW T \in SUBSET Nat, T # {}
  PROVE  \E x \in T : \A y \in T : x <= y
  <1>1. PICK x \in T : \A y \in T : <<y, x>> \notin OpToRel(<, Nat)
    BY NatLessThanWellFounded, WFMin
  <1>2. \A y \in T : ~(y < x)
    BY <1>1 DEF OpToRel
  <1>3. QED
    BY <1>2

\* There are as many connections as requests.
LEMMA AsManyAsRequests ==
  /\ IsFiniteSet(RequestIDs) /\ IsFiniteSet(Connections)
  /\ Cardinality(RequestIDs) \in Nat /\ Cardinality(Connections) = Cardinality(RequestIDs)
  <1>1. IsFiniteSet({1, 2}) /\ Cardinality({1, 2}) = 2
    <2>1. {1, 2} = {1} \cup {2} /\ 2 \notin {1}
      OBVIOUS
    <2>2. IsFiniteSet({1}) /\ Cardinality({1}) = 1
      BY FS_Singleton
    <2>3. QED
      BY <2>1, <2>2, FS_AddElement
  <1>2. IsFiniteSet(Calls) /\ Cardinality(Calls) \in Nat
    BY ClientAssumption, FS_CardinalityType
  <1>3. IsFiniteSet(RequestIDs) /\ Cardinality(RequestIDs) = Cardinality(Calls) * 2
    BY <1>1, <1>2, FS_Product DEF RequestIDs
  <1>4. IsFiniteSet(Connections) /\ Cardinality(Connections) = 2 * Cardinality(Calls)
    <2>1. 2 * Cardinality(Calls) \in Nat
      BY <1>2
    <2>2. QED
      BY <2>1, ClientAssumption, FS_Interval
  <1>5. QED
    BY <1>2, <1>3, <1>4

\* A request that was not begun finds a connection that was not used.
LEMMA FreshSocket ==
  ASSUME Typed, SocketsSuffice, NEW r \in RequestIDs, r \notin Begun
  PROVE  NextSocket \in Connections /\ sock[NextSocket] = "free"
  <1>1. IsFiniteSet(RequestIDs \ {r}) /\ Cardinality(RequestIDs \ {r}) = Cardinality(RequestIDs) - 1
    BY AsManyAsRequests, FS_RemoveElement
  <1>2. Begun \subseteq RequestIDs \ {r}
    BY DEF Begun
  <1>3. IsFiniteSet(Begun) /\ Cardinality(Begun) <= Cardinality(RequestIDs) - 1
    BY <1>1, <1>2, FS_Subset
  <1>4. Used # Connections
    <2>1. SUFFICES ASSUME Used = Connections PROVE FALSE
      OBVIOUS
    <2>2. Cardinality(Begun) \in Nat
      BY <1>3, FS_CardinalityType
    <2>3. Cardinality(Connections) <= Cardinality(Begun)
      BY <2>1 DEF SocketsSuffice
    <2>4. QED
      BY <1>3, <2>2, <2>3, AsManyAsRequests
  <1>5. Unused \in SUBSET Nat /\ Unused # {}
    BY <1>4, ServerAssumption DEF Used, Unused
  <1>6. \E s \in Unused : \A t \in Unused : s <= t
    BY <1>5, Smallest
  <1>7. NextSocket \in Unused
    BY <1>6 DEF NextSocket
  <1>8. QED
    BY <1>7 DEF Unused

\* What comes of awaiting connect(): the continuation is due, or c waits for a
\* connection, which is new or being opened.
Awaits(c, before) ==
  /\ Enters(c, "connecting")
  /\ \/ /\ \E result \in {"opened", "lost"} : jobs' = Append(before, Job(c, result))
        /\ UNCHANGED sockets
     \/ \E s \in Connections :
          /\ sock[s] \in {"free", "opening"} /\ sock' = [sock EXCEPT ![s] = "opening"]
          /\ socket' = s /\ connecting' = s
          /\ Waits(c, s) /\ jobs' = before

LEMMA AwaitConnectAwaits ==
  ASSUME Typed, SocketsOK, SocketsSuffice, NEW c \in Calls, NEW before, AwaitConnect(c, before),
         NEW r \in RequestIDs, r \notin Begun
  PROVE  Awaits(c, before)
  <1>1. connecting = socket /\ socket \in Connections \cup {None} /\ Enters(c, "connecting")
    BY DEF Typed, SocketTyped, AwaitConnect
  <1>2. CASE IsOpen(socket)
    BY <1>1, <1>2 DEF AwaitConnect, Awaits
  <1>3. CASE ~IsOpen(socket) /\ connecting = None
    <2>1. NextSocket \in Connections /\ sock[NextSocket] = "free"
      BY FreshSocket
    <2>2. Dial(c) /\ jobs' = before
      BY <1>3 DEF AwaitConnect
    <2>3. QED
      BY <1>1, <2>1, <2>2 DEF Dial, Awaits
  <1>4. CASE ~IsOpen(socket) /\ connecting # None /\ sock[connecting] = "opening"
    <2>1. Waits(c, connecting) /\ jobs' = before /\ UNCHANGED <<sock, socket, connecting>>
      BY <1>4 DEF AwaitConnect
    <2>2. connecting \in Connections /\ sock' = [sock EXCEPT ![connecting] = "opening"]
      BY <1>1, <1>4, <2>1 DEF Typed, SocketTyped
    <2>3. QED
      BY <1>1, <1>4, <2>1, <2>2 DEF Awaits
  <1>5. CASE ~IsOpen(socket) /\ connecting # None /\ sock[connecting] # "opening"
    <2>1. \E result \in {"opened", "lost"} : jobs' = Append(before, Job(c, result))
      BY <1>5 DEF AwaitConnect
    <2>2. UNCHANGED sockets
      BY <1>5 DEF AwaitConnect
    <2>3. QED
      BY <1>1, <2>1, <2>2 DEF Awaits
  <1>6. QED
    BY <1>2, <1>3, <1>4, <1>5

-----------------------------------------------------------------------------
(* What a step does to the calls of the program: one of a few kinds. *)

CallsOK == JobsOK /\ WaitingOK /\ PendingOK

\* Nothing is due for c but what before leaves out, which is the rest of the jobs.
Free(c, before) ==
  /\ before \in Seq(JobSet) /\ OneEach(before) /\ ~HasJob(before, c)
  /\ Range(before) \subseteq Range(jobs)
  /\ \A job \in Range(jobs) : job.call = c \/ job \in Range(before)
  /\ phase[c] # "sent" /\ \A s \in Connections : c \notin Range(waiting[s])

\* Its first request, or its second one.
Begins(c) ==
  \/ phase[c] = "idle" /\ step' = step
  \/ phase[c] # "idle" /\ step[c] = 1 /\ step' = [step EXCEPT ![c] = 2]

\* c goes on: it awaits a connection, has written its request, or is at its end.
Continues(c, before) ==
  /\ Free(c, before) /\ stopped \subseteq stopped' /\ stopped' \subseteq Handles
  /\ \/ Awaits(c, before) /\ Begins(c) /\ UNCHANGED pending
     \/ /\ phase[c] # "idle" /\ UNCHANGED <<waiting, step>>
        /\ \/ Enters(c, "sent") /\ jobs' = before /\ pending' = Append(pending, c)
           \/ Enters(c, "answered") /\ jobs' = Append(before, Job(c, "lost")) /\ UNCHANGED pending
           \/ /\ \/ Enters(c, "done") /\ Job(c, "ok") \in Range(jobs)
                 \/ Enters(c, "failed")
              /\ jobs' = before /\ UNCHANGED pending
           \/ /\ Enters(c, "done") /\ jobs' = Append(before, Job(c, "stop"))
              /\ c \in stopped /\ step[c] = 1 /\ UNCHANGED pending

\* The calls that await s go on.
Wakes(s, result) == Settled(s, result) /\ UNCHANGED <<phase, step, pending, stopped>>

\* The connection is lost to all who have a request under way, and to those who await s.
Loses(s) ==
  /\ \/ waiting' = waiting /\ RejectPending(<<>>)
     \/ waiting' = [waiting EXCEPT ![s] = <<>>] /\ RejectPending(Jobs(waiting[s], "lost"))
  /\ UNCHANGED <<step, stopped>>

\* An answer arrives, or is waited for no longer.
Returns(c, result) == Answered(c, result) /\ UNCHANGED <<waiting, step, stopped>>

\* An answer with this result is the next line of a connection.
Told(c, result) ==
  \E s \in Connections :
    LET line == Head(wire[s]) IN
    /\ wire[s] # <<>> /\ line.part # "begin" /\ line.message \in Responses
    /\ line.message.id[1] = c /\ line.message.result = result

CallsStay ==
  /\ UNCHANGED <<waiting, jobs, pending, phase, step>>
  /\ stopped \subseteq stopped' /\ stopped' \subseteq Handles

\* The head of the jobs is all there is of its call.
LEMMA DueFree ==
  ASSUME Typed, CallsOK, NEW c \in Calls, NEW result \in Results, Due(c, result)
  PROVE  /\ Free(c, Tail(jobs)) /\ HasJob(jobs, c) /\ Job(c, result) \in Range(jobs)
         /\ Fits(Job(c, result)) /\ phase[c] # "idle"
  <1>1. jobs \in Seq(JobSet) /\ jobs # <<>> /\ OneEach(jobs) /\ Head(jobs) = Job(c, result)
    BY DEF Typed, CallTyped, CallsOK, JobsOK, Due
  <1>2. Job(c, result).call = c /\ Job(c, result).result = result
    BY DEF Job
  <1>3. /\ Tail(jobs) \in Seq(JobSet) /\ OneEach(Tail(jobs)) /\ Job(c, result) \in Range(jobs)
        /\ Range(jobs) = Range(Tail(jobs)) \cup {Job(c, result)} /\ ~HasJob(Tail(jobs), c)
    BY <1>1, <1>2, JobsTail
  <1>4. HasJob(jobs, c)
    BY <1>2, <1>3 DEF HasJob
  <1>5. Fits(Job(c, result))
    BY <1>3 DEF CallsOK, JobsOK
  <1>6. phase[c] \notin {"sent", "idle"}
    BY <1>2, <1>5 DEF Fits, Results
  <1>7. \A s \in Connections : c \notin Range(waiting[s])
    BY <1>4 DEF CallsOK, WaitingOK
  <1>8. QED
    BY <1>2, <1>3, <1>4, <1>5, <1>6, <1>7 DEF Free

\* A call that is not under way has nothing due, but for a stop.
LEMMA IdleFree ==
  ASSUME Typed, CallsOK, NEW c \in Calls, phase[c] \in {"idle", "done"}, c \notin stopped
  PROVE  Free(c, jobs)
  <1>1. jobs \in Seq(JobSet) /\ OneEach(jobs)
    BY DEF Typed, CallTyped, CallsOK, JobsOK
  <1>2. ~HasJob(jobs, c)
    <2>1. ASSUME NEW job \in Range(jobs), job.call = c PROVE FALSE
      <3>1. job \in JobSet /\ Fits(job)
        BY <1>1, RangeOf DEF CallsOK, JobsOK
      <3>2. QED
        BY <2>1, <3>1 DEF Fits, JobSet, Results
    <2>2. QED
      BY <2>1 DEF HasJob
  <1>3. \A s \in Connections : c \notin Range(waiting[s])
    BY DEF CallsOK, WaitingOK
  <1>4. QED
    BY <1>1, <1>2, <1>3 DEF Free

\* A request that begins was not begun.
LEMMA BeginsFresh ==
  ASSUME Typed, NEW c \in Calls
  PROVE  /\ phase[c] = "idle" => <<c, step[c]>> \in RequestIDs \ Begun
         /\ step[c] = 1 => <<c, 2>> \in RequestIDs \ Begun
  <1>1. step[c] \in {1, 2}
    BY DEF Typed, CallTyped
  <1>2. <<c, step[c]>> \in RequestIDs /\ <<c, 2>> \in RequestIDs
    BY <1>1 DEF RequestIDs
  <1>3. QED
    BY <1>1, <1>2 DEF Begun

\* unsubscribe is the second request of a siphon whose registration is over.
LEMMA StopAwaits ==
  ASSUME Typed, SocketsOK, SocketsSuffice, CallsOK, NEW h \in Handles, NEW before, Free(h, before),
         phase[h] # "idle", step[h] = 1, Unsubscribe(h, before),
         stopped \subseteq stopped', stopped' \subseteq Handles
  PROVE  Continues(h, before)
  <1>1. h \in Calls
    BY DEF Calls
  <1>2. Awaits(h, before)
    BY <1>1, BeginsFresh, AwaitConnectAwaits DEF Unsubscribe
  <1>3. QED
    BY <1>2 DEF Unsubscribe, Continues, Begins

CallKind ==
  \/ CallsStay
  \/ \E c \in Calls : Continues(c, jobs) \/ Continues(c, Tail(jobs))
  \/ \E s \in Connections, result \in {"opened", "lost"} : Wakes(s, result)
  \/ \E s \in Connections : Loses(s)
  \/ \E c \in Calls, result \in {"lost", "ok", "refused", "busy"} :
       Returns(c, result) /\ (result = "lost" \/ Told(c, result))

\* The line that is read is an answer or an event.
LEMMA ReadsMessage ==
  ASSUME Typed, NEW s \in Connections, Readable(s), Complete(s)
  PROVE  LET line == Head(wire[s]) IN
         /\ wire[s] \in Seq(Lines) /\ wire[s] # <<>> /\ line \in Lines /\ line.part # "begin"
         /\ "id" \in DOMAIN line.message => /\ line.message \in Responses
                                            /\ \A h \in Handles : ~IsPush(line, h)
         /\ "sub" \in DOMAIN line.message => /\ line.message \in Pushes
                                             /\ \A h \in Handles : IsPush(line, h) <=> line.message.sub = h
  <1>1. wire[s] \in Seq(Lines) /\ wire[s] # <<>>
    BY DEF Typed, ServerTyped, Readable
  <1>2. Head(wire[s]) \in Lines
    BY <1>1
  <1>3. Head(wire[s]).part # "begin"
    BY DEF Complete
  <1>4. QED
    BY <1>1, <1>2, <1>3, LineKinds, Messages DEF IsPush

\* Calls of the program, and jobs.
LEMMA CallKinds ==
  ASSUME Typed, SocketsOK, SocketsSuffice, CallsOK, Silenced, NEW c \in Calls,
         Call(c) \/ RunJob(c) \/ Timeout(c)
  PROVE  CallKind
  <1>1. stopped \subseteq Handles
    BY DEF Typed, CallTyped
  <1>2. CASE Call(c)
    <2>1. phase[c] = "idle" /\ AwaitConnect(c, jobs)
          /\ UNCHANGED <<step, pending, stopped>>
      BY <1>2 DEF Call, siphons
    <2>2. Awaits(c, jobs)
      BY <2>1, BeginsFresh, AwaitConnectAwaits
    <2>3. Free(c, jobs)
      <3>1. c \in Handles \/ c \notin stopped
        BY <1>1
      <3>2. jobs \in Seq(JobSet) /\ OneEach(jobs)
        BY DEF Typed, CallTyped, CallsOK, JobsOK
      <3>3. ~HasJob(jobs, c)
        <4>1. ASSUME NEW job \in Range(jobs), job.call = c PROVE FALSE
          <5>1. job \in JobSet /\ Fits(job)
            BY <3>2, RangeOf DEF CallsOK, JobsOK
          <5>2. QED
            BY <2>1, <4>1, <5>1 DEF Fits, JobSet, Results
        <4>2. QED
          BY <4>1 DEF HasJob
      <3>4. \A s \in Connections : c \notin Range(waiting[s])
        BY <2>1 DEF CallsOK, WaitingOK
      <3>5. QED
        BY <2>1, <3>2, <3>3, <3>4 DEF Free
    <2>4. QED
      BY <1>1, <2>1, <2>2, <2>3 DEF CallKind, Continues, Begins
  <1>3. CASE Write(c)
    <2>1. Due(c, "opened") /\ UNCHANGED <<waiting, step, stopped>>
      BY <1>3 DEF Write, siphons
    <2>2. Free(c, Tail(jobs)) /\ phase[c] # "idle"
      BY <2>1, DueFree DEF Results
    <2>3. \/ Enters(c, "sent") /\ jobs' = Tail(jobs) /\ pending' = Append(pending, c)
          \/ Enters(c, "answered") /\ jobs' = Append(Tail(jobs), Job(c, "lost")) /\ UNCHANGED pending
      BY <1>3 DEF Write
    <2>4. QED
      BY <1>1, <2>1, <2>2, <2>3 DEF CallKind, Continues
  <1>4. CASE Resolved(c) \/ Rejected(c) \/ Unsubscribed(c)
    <2>1. \E result \in Results : Due(c, result)
      BY <1>4 DEF Resolved, Rejected, Unsubscribed, Results
    <2>2. Free(c, Tail(jobs)) /\ phase[c] # "idle"
      BY <2>1, DueFree
    <2>3. \/ Settles(c, "done") /\ Job(c, "ok") \in Range(jobs)
          \/ Settles(c, "failed")
      BY <1>4, DueFree DEF Resolved, Rejected, Unsubscribed, Results
    <2>4. UNCHANGED stopped
      BY <1>4 DEF Resolved, Rejected, Unsubscribed, siphons
    <2>5. QED
      BY <1>1, <2>2, <2>3, <2>4 DEF CallKind, Continues, Settles, sockets
  <1>5. CASE Retry(c)
    <2>1. \E result \in Results : Due(c, result)
      BY <1>5 DEF Retry, Results
    <2>2. Free(c, Tail(jobs)) /\ phase[c] # "idle"
      BY <2>1, DueFree
    <2>3. /\ step[c] = 1 /\ step' = [step EXCEPT ![c] = 2] /\ AwaitConnect(c, Tail(jobs))
          /\ UNCHANGED <<pending, stopped>>
      BY <1>5 DEF Retry, siphons
    <2>4. Awaits(c, Tail(jobs))
      BY <2>3, BeginsFresh, AwaitConnectAwaits
    <2>5. QED
      BY <1>1, <2>2, <2>3, <2>4 DEF CallKind, Continues, Begins
  <1>6. CASE Subscribed(c)
    <2>1. Due(c, "ok") /\ step[c] = 1 /\ Enters(c, "done") /\ UNCHANGED <<waiting, step, pending, stopped>>
      BY <1>6 DEF Subscribed, sockets
    <2>2. Free(c, Tail(jobs)) /\ phase[c] # "idle" /\ Job(c, "ok") \in Range(jobs)
      BY <2>1, DueFree DEF Results
    <2>3. CASE c \in stopped
      <3>1. Tail(jobs) \in Seq(JobSet) /\ Job(c, "stop") \in JobSet
        BY <2>2 DEF Free, Job, JobSet, Results
      <3>2. jobs' = Tail(jobs) \o <<Job(c, "stop")>>
        BY <1>6, <2>3 DEF Subscribed
      <3>3. jobs' = Append(Tail(jobs), Job(c, "stop"))
        BY <3>1, <3>2, AppendIsConcat
      <3>4. QED
        BY <1>1, <2>1, <2>2, <2>3, <3>3 DEF CallKind, Continues
    <2>4. CASE c \notin stopped
      <3>1. jobs' = Tail(jobs) \o <<>> /\ Tail(jobs) \in Seq(JobSet)
        BY <1>6, <2>2, <2>4 DEF Subscribed, Free
      <3>2. jobs' = Tail(jobs)
        BY <3>1, ConcatEmptySeq
      <3>3. QED
        BY <1>1, <2>1, <2>2, <3>2 DEF CallKind, Continues
    <2>5. QED
      BY <2>3, <2>4
  <1>7. CASE StopReady(c)
    <2>1. Due(c, "stop") /\ Unsubscribe(c, Tail(jobs)) /\ UNCHANGED stopped
      BY <1>7 DEF StopReady
    <2>2. Free(c, Tail(jobs)) /\ phase[c] # "idle" /\ Fits(Job(c, "stop"))
      BY <2>1, DueFree DEF Results
    <2>3. c \in Handles /\ step[c] = 1
      BY <1>1, <2>2 DEF Fits, Job
    <2>4. QED
      BY <1>1, <2>1, <2>2, <2>3, StopAwaits DEF CallKind
  <1>8. CASE Timeout(c)
    BY <1>8 DEF Timeout, CallKind, Returns, sockets, siphons
  <1>9. QED
    BY <1>2, <1>3, <1>4, <1>5, <1>6, <1>7, <1>8 DEF RunJob

\* Everything else that happens to them.
LEMMA CallKindOfStep ==
  ASSUME Typed, SocketsOK, SocketsSuffice, CallsOK, Silenced, [Next]_vars
  PROVE  CallKind
  <1>1. stopped \subseteq Handles
    BY DEF Typed, CallTyped
  <1>2. CASE UNCHANGED client
    BY <1>1, <1>2 DEF client, sockets, siphons, calls, CallKind, CallsStay
  <1>3. CASE Close
    BY <1>1, <1>3 DEF Close, calls, siphons, CallKind, CallsStay
  <1>4. ASSUME NEW h \in Handles, Stop(h) PROVE CallKind
    <2>1. stopped' = stopped \cup {h} /\ h \notin stopped /\ h \in Calls /\ phase[h] # "idle"
      BY <1>4 DEF Stop, Calls
    <2>2. CASE phase[h] = "done"
      <3>1. Free(h, jobs) /\ step[h] = 1
        BY <2>1, <2>2, IdleFree DEF Silenced, Typed, CallTyped
      <3>2. Unsubscribe(h, jobs)
        BY <1>4, <2>2 DEF Stop
      <3>3. QED
        BY <1>1, <2>1, <3>1, <3>2, StopAwaits DEF CallKind
    <2>3. CASE phase[h] # "done"
      BY <1>1, <1>4, <2>1, <2>3 DEF Stop, sockets, calls, CallKind, CallsStay
    <2>4. QED
      BY <2>2, <2>3
  <1>5. ASSUME NEW s \in Connections, Opened(s) PROVE CallKind
    BY <1>5 DEF Opened, siphons, CallKind, Wakes
  <1>6. ASSUME NEW s \in Connections, Refused(s) PROVE CallKind
    BY <1>6 DEF Refused, siphons, CallKind, Wakes
  <1>7. ASSUME NEW s \in Connections, Hangup(s) PROVE CallKind
    BY <1>1, <1>7 DEF Hangup, calls, siphons, CallKind, CallsStay
  <1>8. ASSUME NEW s \in Connections, SocketClosed(s) PROVE CallKind
    BY <1>8 DEF SocketClosed, siphons, CallKind, Loses
  <1>9. ASSUME NEW s \in Connections, ReadPart(s) \/ ReadFragment(s) PROVE CallKind
    BY <1>1, <1>9 DEF ReadPart, ReadFragment, sockets, calls, siphons, CallKind, CallsStay
  <1>10. ASSUME NEW s \in Connections, ReadEvent(s) PROVE CallKind
    BY <1>1, <1>10 DEF ReadEvent, sockets, calls, CallKind, CallsStay
  <1>11. ASSUME NEW s \in Connections, ReadAnswer(s) PROVE CallKind
    <2> DEFINE m == Head(wire[s]).message
    <2>1. m \in Responses /\ wire[s] # <<>> /\ Head(wire[s]).part # "begin"
      BY <1>11, ReadsMessage DEF ReadAnswer
    <2>2. m.id[1] \in Calls /\ m.result \in {"lost", "ok", "refused", "busy"}
      BY <2>1 DEF Responses, RequestIDs
    <2>3. UNCHANGED <<waiting, step, stopped>>
      BY <1>11 DEF ReadAnswer, sockets, siphons
    <2>4. Answered(m.id[1], m.result) \/ UNCHANGED <<pending, phase, jobs>>
      BY <1>11 DEF ReadAnswer
    <2>5. Told(m.id[1], m.result)
      BY <2>1 DEF Told
    <2> HIDE DEF m
    <2>6. QED
      BY <1>1, <2>2, <2>3, <2>4, <2>5 DEF CallKind, Returns, CallsStay
  <1>12. ASSUME NEW s \in Connections, ReadGarbage(s) PROVE CallKind
    <2>1. UNCHANGED <<step, stopped>>
      BY <1>12 DEF ReadGarbage
    <2>2. CASE socket # None /\ sock[socket] = "opening"
      <3>1. socket \in Connections
        BY <2>2 DEF Typed, SocketTyped
      <3>2. QED
        BY <1>12, <2>1, <2>2, <3>1 DEF ReadGarbage, CallKind, Loses
    <2>3. CASE ~(socket # None /\ sock[socket] = "opening")
      BY <1>12, <2>1, <2>3 DEF ReadGarbage, CallKind, Loses
    <2>4. QED
      BY <2>2, <2>3
  <1>13. QED
    BY <1>2, <1>3, <1>4, <1>5, <1>6, <1>7, <1>8, <1>9, <1>10, <1>11, <1>12, CallKinds
       DEF Next, Serves, SocketStep, ReadStep, vars

\* Others than c keep what is due for them.
LEMMA OthersKeep ==
  ASSUME NEW c \in Calls, NEW before, Free(c, before), NEW d \in Calls \ {c}
  PROVE  HasJob(before, d) <=> HasJob(jobs, d)
  BY DEF Free, HasJob

\* A call that goes on has one continuation again.
LEMMA ContinuesStep ==
  ASSUME Typed, CallsOK, NEW c \in Calls, NEW before, Continues(c, before)
  PROVE  CallTyped' /\ CallsOK'
  <1> USE DEF Typed, CallTyped
  <1>1. /\ before \in Seq(JobSet) /\ OneEach(before) /\ ~HasJob(before, c)
        /\ Range(before) \subseteq Range(jobs) /\ phase[c] # "sent"
        /\ \A s \in Connections : c \notin Range(waiting[s])
        /\ stopped \subseteq stopped' /\ stopped' \subseteq Handles
    BY DEF Continues, Free
  <1>2. step' \in [Calls -> {1, 2}] /\ \A d \in Calls \ {c} : step'[d] = step[d]
    BY DEF Continues, Begins
  <1>3. \A job \in Range(before) : job \in JobSet /\ job.call \in Calls \ {c}
    <2>1. Range(before) \subseteq JobSet
      BY <1>1, RangeOf
    <2>2. QED
      BY <1>1, <2>1 DEF HasJob, JobSet
  <1>4. \A s \in Connections : waiting[s] \in Seq(Calls) /\ Range(waiting[s]) \subseteq Calls
    BY RangeOf
  <1>5. ASSUME NEW p \in {"connecting", "sent", "answered", "done", "failed"}, Enters(c, p)
        PROVE  /\ phase' \in [Calls -> {"idle", "connecting", "sent", "answered", "done", "failed"}]
               /\ phase'[c] = p /\ \A d \in Calls \ {c} : phase'[d] = phase[d]
               /\ \A job \in Range(before) : Fits(job)'
               /\ p # "answered" =>
                    \A d \in Calls : phase'[d] = "answered" => d # c /\ HasJob(before, d)
               /\ \A d \in Calls \ {c} : phase'[d] = "answered" => HasJob(before, d)
    <2>1. /\ phase' \in [Calls -> {"idle", "connecting", "sent", "answered", "done", "failed"}]
          /\ phase'[c] = p /\ \A d \in Calls \ {c} : phase'[d] = phase[d]
      BY <1>5 DEF Enters
    <2>2. \A job \in Range(before) : Fits(job)'
      <3>1. \A job \in Range(before) : Fits(job)
        BY <1>1 DEF CallsOK, JobsOK
      <3>2. QED
        BY <1>1, <1>2, <1>3, <2>1, <3>1 DEF Fits
    <2>3. \A d \in Calls \ {c} : phase'[d] = "answered" => HasJob(before, d)
      <3>1. Free(c, before)
        BY DEF Continues
      <3>2. QED
        BY <2>1, <3>1, OthersKeep DEF CallsOK, JobsOK
    <2>4. QED
      BY <2>1, <2>2, <2>3
  <1>6. ASSUME NEW p \in {"connecting", "sent", "answered", "done", "failed"}, Enters(c, p),
               UNCHANGED waiting, jobs' \in Seq(JobSet), OneEach(jobs'),
               Range(jobs') \subseteq Range(before) \cup {Job(c, "opened"), Job(c, "lost"), Job(c, "stop")}
        PROVE  WaitingOK'
    <2>1. ASSUME NEW s \in Connections, NEW d \in Range(waiting[s])
          PROVE  phase'[d] = "connecting" /\ ~HasJob(jobs', d)
      <3>1. d \in Calls /\ d # c /\ phase[d] = "connecting" /\ ~HasJob(jobs, d)
        BY <1>1, <1>4, <2>1 DEF CallsOK, WaitingOK
      <3>2. phase'[d] = "connecting"
        BY <1>5, <1>6, <3>1
      <3>3. ~HasJob(before, d)
        BY <1>1, <3>1 DEF HasJob
      <3>4. ~HasJob(jobs', d)
        BY <1>6, <3>1, <3>3 DEF HasJob, Job
      <3>5. QED
        BY <3>2, <3>4
    <2>2. QED
      BY <1>6, <2>1 DEF CallsOK, WaitingOK
  <1>7. ASSUME NEW p \in {"connecting", "answered", "done", "failed"}, Enters(c, p), UNCHANGED pending
        PROVE  PendingOK'
    <2>1. {d \in Calls : phase'[d] = "sent"} = {d \in Calls : phase[d] = "sent"}
      BY <1>1, <1>5, <1>7
    <2>2. QED
      BY <1>7, <2>1 DEF CallsOK, PendingOK
  <1>8. ASSUME NEW p \in {"connecting", "answered", "done"},
               NEW result \in {"opened", "lost", "stop"}, Enters(c, p),
               UNCHANGED <<waiting, pending>>, jobs' = Append(before, Job(c, result)),
               p = "connecting" => result \in {"opened", "lost"},
               p = "answered" => result = "lost",
               p = "done" => result = "stop" /\ c \in stopped /\ step[c] = 1 /\ step' = step
        PROVE  CallTyped' /\ CallsOK'
    <2>1. result \in Results
      BY DEF Results
    <2>2. /\ jobs' \in Seq(JobSet) /\ OneEach(jobs') /\ Range(jobs') = Range(before) \cup {Job(c, result)}
          /\ Job(c, result).call = c /\ Job(c, result).result = result
      BY <1>1, <1>8, <2>1, JobsAppend
    <2>3. Fits(Job(c, result))'
      <3>1. phase'[c] = p
        BY <1>5, <1>8
      <3>2. QED
        BY <1>1, <1>8, <2>2, <3>1 DEF Fits
    <2>4. JobsOK'
      <3>1. \A d \in Calls : phase'[d] = "answered" => HasJob(jobs', d)
        BY <1>5, <1>8, <2>2 DEF HasJob
      <3>2. QED
        BY <1>5, <1>8, <2>2, <2>3, <3>1 DEF JobsOK
    <2>5. WaitingOK' /\ PendingOK'
      BY <1>6, <1>7, <1>8, <2>2
    <2>6. CallTyped'
      BY <1>1, <1>2, <1>5, <1>8, <2>2
    <2>7. QED
      BY <2>4, <2>5, <2>6 DEF CallsOK
  <1>9. ASSUME NEW p \in {"sent", "done", "failed"}, Enters(c, p), UNCHANGED waiting, jobs' = before,
               p = "sent" => pending' = Append(pending, c), p # "sent" => UNCHANGED pending
        PROVE  CallTyped' /\ CallsOK'
    <2>1. JobsOK'
      BY <1>1, <1>5, <1>9 DEF JobsOK
    <2>2. WaitingOK'
      BY <1>1, <1>6, <1>9
    <2>3. CASE p = "sent"
      <3>1. pending' \in Seq(Calls) /\ Range(pending') = Range(pending) \cup {c}
        <4>1. pending' = Append(pending, c) /\ pending \in Seq(Calls)
          BY <1>9, <2>3
        <4>2. Append(pending, c) \in Seq(Calls) /\ Range(Append(pending, c)) = Range(pending) \cup {c}
          BY <4>1, AppendSeq, RangeAppend
        <4>3. QED
          BY <4>1, <4>2
      <3>2. c \notin Range(pending)
        BY <1>1 DEF CallsOK, PendingOK
      <3>3. IsInjective(pending')
        <4>1. pending' = Append(pending, c) /\ pending \in Seq(Calls) /\ IsInjective(pending)
          BY <1>9, <2>3 DEF CallsOK, PendingOK
        <4>2. IsInjective(Append(pending, c))
          BY <3>2, <4>1, RangeAppend
        <4>3. QED
          BY <4>1, <4>2
      <3>4. {d \in Calls : phase'[d] = "sent"} = {d \in Calls : phase[d] = "sent"} \cup {c}
        BY <1>5, <1>9, <2>3
      <3>5. PendingOK'
        BY <3>1, <3>3, <3>4 DEF CallsOK, PendingOK
      <3>6. CallTyped'
        BY <1>1, <1>2, <1>5, <1>9, <3>1
      <3>7. QED
        BY <2>1, <2>2, <3>5, <3>6 DEF CallsOK
    <2>4. CASE p # "sent"
      <3>1. CallTyped'
        BY <1>1, <1>2, <1>5, <1>9, <2>4
      <3>2. QED
        BY <1>7, <1>9, <2>1, <2>2, <2>4, <3>1 DEF CallsOK
    <2>5. QED
      BY <2>3, <2>4
  <1>10. ASSUME NEW s \in Connections, Enters(c, "connecting"), Waits(c, s), jobs' = before, UNCHANGED pending
         PROVE  CallTyped' /\ CallsOK'
    <2>1. JobsOK'
      BY <1>1, <1>5, <1>10 DEF JobsOK
    <2>2. PendingOK'
      BY <1>7, <1>10
    <2>3. /\ waiting' \in [Connections -> Seq(Calls)] /\ waiting'[s] = Append(waiting[s], c)
          /\ \A t \in Connections \ {s} : waiting'[t] = waiting[t]
          /\ Range(waiting'[s]) = Range(waiting[s]) \cup {c}
      <3>1. Append(waiting[s], c) \in Seq(Calls) /\ Range(Append(waiting[s], c)) = Range(waiting[s]) \cup {c}
        BY AppendSeq, RangeAppend
      <3>2. QED
        BY <1>10, <3>1 DEF Waits
    <2>4. \A t \in Connections : IsInjective(waiting'[t])
      <3>1. IsInjective(Append(waiting[s], c))
        BY <1>1, <1>4, RangeAppend DEF CallsOK, WaitingOK
      <3>2. QED
        BY <2>3, <3>1 DEF CallsOK, WaitingOK
    <2>5. ASSUME NEW t \in Connections, NEW d \in Range(waiting'[t])
          PROVE  /\ phase'[d] = "connecting" /\ ~HasJob(jobs', d)
                 /\ \A u \in Connections \ {t} : d \notin Range(waiting'[u])
      <3>1. CASE d = c
        <4>1. t = s
          BY <1>1, <2>3, <2>5, <3>1
        <4>2. QED
          BY <1>1, <1>5, <1>10, <2>3, <3>1, <4>1
      <3>2. CASE d # c
        <4>1. d \in Range(waiting[t]) /\ d \in Calls
          <5>1. CASE t = s
            BY <1>4, <2>3, <2>5, <3>2, <5>1
          <5>2. CASE t # s
            BY <1>4, <2>3, <2>5, <5>2
          <5>3. QED
            BY <5>1, <5>2
        <4>2. phase[d] = "connecting" /\ ~HasJob(jobs, d) /\ \A u \in Connections \ {t} : d \notin Range(waiting[u])
          BY <4>1 DEF CallsOK, WaitingOK
        <4>3. ~HasJob(before, d)
          BY <1>1, <4>2 DEF HasJob
        <4>4. QED
          BY <1>5, <1>10, <2>3, <3>2, <4>1, <4>2, <4>3
      <3>3. QED
        BY <3>1, <3>2
    <2>6. WaitingOK'
      BY <2>4, <2>5 DEF WaitingOK
    <2>7. CallTyped'
      BY <1>1, <1>2, <1>5, <1>10, <2>3
    <2>8. QED
      BY <2>1, <2>2, <2>6, <2>7 DEF CallsOK
  <1>11. CASE Awaits(c, before) /\ UNCHANGED pending
    BY <1>8, <1>10, <1>11 DEF Awaits, sockets
  <1>12. CASE ~(Awaits(c, before) /\ UNCHANGED pending)
    BY <1>8, <1>9, <1>12 DEF Continues
  <1>13. QED
    BY <1>11, <1>12

\* No call of the second kind has a job: one that awaits an answer.
LEMMA SentHasNoJob ==
  ASSUME Typed, CallsOK, NEW c \in Calls, phase[c] \in {"sent", "idle"}
  PROVE  ~HasJob(jobs, c)
  <1>1. ASSUME NEW job \in Range(jobs), job.call = c PROVE FALSE
    <2>1. jobs \in Seq(JobSet)
      BY DEF Typed, CallTyped
    <2>2. job \in JobSet /\ Fits(job)
      BY <2>1, RangeOf DEF CallsOK, JobsOK
    <2>3. QED
      BY <1>1, <2>2 DEF Fits, JobSet, Results
  <1>2. QED
    BY <1>1 DEF HasJob

\* The calls that awaited a connection have jobs now, and await it no longer.
LEMMA WakesStep ==
  ASSUME Typed, CallsOK, NEW s \in Connections, NEW result \in {"opened", "lost"}, Wakes(s, result)
  PROVE  CallTyped' /\ CallsOK'
  <1> USE DEF Typed, CallTyped
  <1>1. waiting' = [waiting EXCEPT ![s] = <<>>] /\ jobs' = jobs \o Jobs(waiting[s], result)
        /\ UNCHANGED <<phase, step, pending, stopped>>
    BY DEF Wakes, Settled
  <1>2. waiting[s] \in Seq(Calls) /\ result \in Results
    BY DEF Results
  <1>3. OneEach(jobs) /\ IsInjective(waiting[s]) /\ \A c \in Range(waiting[s]) : ~HasJob(jobs, c)
    BY DEF CallsOK, JobsOK, WaitingOK
  <1>4. /\ jobs' \in Seq(JobSet) /\ OneEach(jobs')
        /\ Range(jobs') = Range(jobs) \cup {Job(c, result) : c \in Range(waiting[s])}
    BY <1>1, <1>2, <1>3, JobsConcat
  <1>5. /\ waiting' \in [Connections -> Seq(Calls)] /\ waiting'[s] = <<>>
        /\ \A t \in Connections \ {s} : waiting'[t] = waiting[t]
    BY <1>1
  <1>6. JobsOK'
    <2>1. \A c \in Range(waiting[s]) : Fits(Job(c, result))
      BY <1>2 DEF Fits, Job, CallsOK, WaitingOK
    <2>2. \A job \in Range(jobs') : Fits(job)
      BY <1>4, <2>1 DEF CallsOK, JobsOK
    <2>3. \A job \in Range(jobs') : Fits(job)'
      BY <1>1, <2>2 DEF Fits
    <2>4. \A c \in Calls : phase[c] = "answered" => HasJob(jobs', c)
      BY <1>4 DEF HasJob, CallsOK, JobsOK
    <2>5. QED
      BY <1>1, <1>4, <2>3, <2>4 DEF JobsOK
  <1>7. WaitingOK'
    <2>1. Range(<<>>) = {} /\ IsInjective(<<>>)
      BY DEF Range, IsInjective
    <2>2. ASSUME NEW t \in Connections \ {s}, NEW c \in Range(waiting[t])
          PROVE  /\ phase[c] = "connecting" /\ ~HasJob(jobs', c)
                 /\ \A u \in Connections \ {t} : c \notin Range(waiting[u])
      <3>1. /\ phase[c] = "connecting" /\ ~HasJob(jobs, c) /\ c \notin Range(waiting[s])
            /\ \A u \in Connections \ {t} : c \notin Range(waiting[u])
        BY DEF CallsOK, WaitingOK
      <3>2. QED
        BY <1>4, <3>1 DEF HasJob, Job
    <2>3. QED
      BY <1>1, <1>5, <2>1, <2>2 DEF CallsOK, WaitingOK
  <1>8. PendingOK' /\ CallTyped'
    BY <1>1, <1>4, <1>5 DEF CallsOK, PendingOK
  <1>9. QED
    BY <1>6, <1>7, <1>8 DEF CallsOK

\* Whose request was under way is told so, and so is who awaited the connection.
LEMMA LosesStep ==
  ASSUME Typed, CallsOK, NEW s \in Connections, Loses(s)
  PROVE  CallTyped' /\ CallsOK'
  <1> USE DEF Typed, CallTyped
  <1> DEFINE js == jobs \o Jobs(pending, "lost")
             lost == {Job(c, "lost") : c \in Range(pending)}
  <1>1. /\ phase' = [c \in Calls |-> IF phase[c] = "sent" THEN "answered" ELSE phase[c]]
        /\ pending' = <<>> /\ UNCHANGED <<step, stopped>>
    BY DEF Loses, RejectPending
  <1>2. Range(pending) = {c \in Calls : phase[c] = "sent"} /\ IsInjective(pending) /\ OneEach(jobs)
        /\ pending \in Seq(Calls) /\ "lost" \in Results
    BY DEF CallsOK, PendingOK, JobsOK, Results
  <1>3. js \in Seq(JobSet) /\ OneEach(js) /\ Range(js) = Range(jobs) \cup lost
    BY <1>2, SentHasNoJob, JobsConcat
  <1>4. \A c \in Calls : HasJob(js, c) <=> HasJob(jobs, c) \/ phase[c] = "sent"
    <2>1. \A c \in Range(pending) : Job(c, "lost") \in Range(js) /\ Job(c, "lost").call = c
      BY <1>3 DEF Job
    <2>2. \A job \in lost : job.call \in Range(pending)
      BY DEF Job
    <2> HIDE DEF js, lost
    <2>3. ASSUME NEW c \in Calls, HasJob(js, c) PROVE HasJob(jobs, c) \/ phase[c] = "sent"
      BY <1>2, <1>3, <2>2, <2>3 DEF HasJob
    <2>4. ASSUME NEW c \in Calls, HasJob(jobs, c) \/ phase[c] = "sent" PROVE HasJob(js, c)
      BY <1>2, <1>3, <2>1, <2>4 DEF HasJob
    <2>5. QED
      BY <2>3, <2>4
  <1>5. \A job \in Range(js) : Fits(job)'
    <2>1. \A job \in Range(jobs) : job \in JobSet /\ Fits(job)
      BY RangeOf DEF CallsOK, JobsOK
    <2>2. \A job \in Range(jobs) : phase[job.call] # "sent"
      BY <2>1 DEF Fits, JobSet, Results
    <2>3. \A job \in Range(jobs) : Fits(job)'
      BY <1>1, <2>1, <2>2 DEF Fits, JobSet
    <2>4. \A c \in Range(pending) : Fits(Job(c, "lost"))'
      BY <1>1, <1>2 DEF Fits, Job
    <2>5. QED
      BY <1>3, <2>3, <2>4
  <1>6. \A c \in Calls : phase'[c] = "answered" => HasJob(js, c)
    BY <1>1, <1>4 DEF CallsOK, JobsOK
  <1>7. PendingOK'
    BY <1>1 DEF PendingOK, IsInjective, Range
  <1>8. \A t \in Connections : \A c \in Range(waiting[t]) : c \in Calls /\ phase'[c] = "connecting" /\ ~HasJob(js, c)
    <2>1. \A t \in Connections : Range(waiting[t]) \subseteq Calls
      BY RangeOf
    <2>2. QED
      BY <1>1, <1>4, <2>1 DEF CallsOK, WaitingOK
  <1> HIDE DEF js, lost
  <1>9. CASE waiting' = waiting /\ RejectPending(<<>>)
    <2>1. jobs' = js
      <3>1. jobs' = js \o <<>>
        BY <1>9 DEF RejectPending, js
      <3>2. QED
        BY <1>3, <3>1, ConcatEmptySeq
    <2>2. JobsOK'
      BY <1>3, <1>5, <1>6, <2>1 DEF JobsOK
    <2>3. WaitingOK'
      BY <1>8, <1>9, <2>1 DEF CallsOK, WaitingOK
    <2>4. CallTyped'
      BY <1>1, <1>3, <1>9, <2>1
    <2>5. QED
      BY <1>7, <2>2, <2>3, <2>4 DEF CallsOK
  <1>10. CASE waiting' = [waiting EXCEPT ![s] = <<>>] /\ RejectPending(Jobs(waiting[s], "lost"))
    <2>1. jobs' = js \o Jobs(waiting[s], "lost")
      BY <1>10 DEF RejectPending, js
    <2>2. waiting[s] \in Seq(Calls) /\ IsInjective(waiting[s])
      BY DEF CallsOK, WaitingOK
    <2>3. /\ jobs' \in Seq(JobSet) /\ OneEach(jobs')
          /\ Range(jobs') = Range(js) \cup {Job(c, "lost") : c \in Range(waiting[s])}
      BY <1>2, <1>3, <1>8, <2>1, <2>2, JobsConcat
    <2>4. /\ waiting' \in [Connections -> Seq(Calls)] /\ waiting'[s] = <<>>
          /\ \A t \in Connections \ {s} : waiting'[t] = waiting[t]
      BY <1>10
    <2>5. JobsOK'
      <3>1. \A c \in Range(waiting[s]) : Fits(Job(c, "lost"))'
        BY <1>8 DEF Fits, Job
      <3>2. \A c \in Calls : phase'[c] = "answered" => HasJob(jobs', c)
        BY <1>6, <2>3 DEF HasJob
      <3>3. QED
        BY <1>5, <2>3, <3>1, <3>2 DEF JobsOK
    <2>6. WaitingOK'
      <3>1. Range(<<>>) = {} /\ IsInjective(<<>>)
        BY DEF Range, IsInjective
      <3>2. ASSUME NEW t \in Connections \ {s}, NEW c \in Range(waiting[t])
            PROVE  /\ phase'[c] = "connecting" /\ ~HasJob(jobs', c)
                   /\ \A u \in Connections \ {t} : c \notin Range(waiting[u])
        <4>1. c \notin Range(waiting[s]) /\ \A u \in Connections \ {t} : c \notin Range(waiting[u])
          BY DEF CallsOK, WaitingOK
        <4>2. QED
          BY <1>8, <2>3, <4>1 DEF HasJob, Job
      <3>3. QED
        BY <2>4, <3>1, <3>2 DEF CallsOK, WaitingOK
    <2>7. CallTyped'
      BY <1>1, <2>3, <2>4
    <2>8. QED
      BY <1>7, <2>5, <2>6, <2>7 DEF CallsOK
  <1>11. QED
    BY <1>9, <1>10 DEF Loses

\* A request that is pending no longer has a job.
LEMMA ReturnsStep ==
  ASSUME Typed, CallsOK, NEW c \in Calls, NEW result \in {"lost", "ok", "refused", "busy"},
         Returns(c, result)
  PROVE  CallTyped' /\ CallsOK'
  <1> USE DEF Typed, CallTyped
  <1>1. PICK i \in 1..Len(pending) : pending[i] = c /\ pending' = RemoveAt(pending, i)
    BY DEF Returns, Answered
  <1>2. /\ phase' = [phase EXCEPT ![c] = "answered"] /\ jobs' = Append(jobs, Job(c, result))
        /\ UNCHANGED <<waiting, step, stopped>>
    BY DEF Returns, Answered, Enters
  <1>3. /\ pending \in Seq(Calls) /\ IsInjective(pending) /\ jobs \in Seq(JobSet) /\ OneEach(jobs)
        /\ Range(pending) = {d \in Calls : phase[d] = "sent"} /\ result \in Results
    BY DEF CallsOK, PendingOK, JobsOK, Results
  <1>4. pending' \in Seq(Calls) /\ IsInjective(pending') /\ Range(pending') = Range(pending) \ {c}
    BY <1>1, <1>3, RemoveSeq, RangeRemove
  <1>5. phase[c] = "sent" /\ ~HasJob(jobs, c)
    <2>1. c \in Range(pending)
      BY <1>1, <1>3, RangeOf
    <2>2. QED
      BY <1>3, <2>1, SentHasNoJob
  <1>6. /\ jobs' \in Seq(JobSet) /\ OneEach(jobs') /\ Range(jobs') = Range(jobs) \cup {Job(c, result)}
        /\ Job(c, result).call = c /\ Job(c, result).result = result
    BY <1>2, <1>3, <1>5, JobsAppend
  <1>7. /\ phase' \in [Calls -> {"idle", "connecting", "sent", "answered", "done", "failed"}]
        /\ phase'[c] = "answered" /\ \A d \in Calls \ {c} : phase'[d] = phase[d]
    BY <1>2
  <1>8. PendingOK'
    <2>1. {d \in Calls : phase'[d] = "sent"} = {d \in Calls : phase[d] = "sent"} \ {c}
      BY <1>7
    <2>2. QED
      BY <1>3, <1>4, <2>1 DEF PendingOK
  <1>9. JobsOK'
    <2>1. \A job \in Range(jobs) : job \in JobSet /\ Fits(job) /\ job.call # c
      BY <1>3, <1>5, RangeOf DEF CallsOK, JobsOK, HasJob
    <2>2. \A job \in Range(jobs) : Fits(job)'
      BY <1>2, <1>7, <2>1 DEF Fits, JobSet
    <2>3. Fits(Job(c, result))'
      BY <1>6, <1>7 DEF Fits
    <2>4. \A d \in Calls : phase'[d] = "answered" => HasJob(jobs', d)
      BY <1>6, <1>7 DEF HasJob, CallsOK, JobsOK
    <2>5. QED
      BY <1>6, <2>2, <2>3, <2>4 DEF JobsOK
  <1>10. WaitingOK'
    <2>1. ASSUME NEW t \in Connections, NEW d \in Range(waiting[t])
          PROVE  phase'[d] = "connecting" /\ ~HasJob(jobs', d)
      <3>1. d \in Calls
        BY RangeOf
      <3>2. phase[d] = "connecting" /\ ~HasJob(jobs, d)
        BY DEF CallsOK, WaitingOK
      <3>3. QED
        BY <1>5, <1>6, <1>7, <3>1, <3>2 DEF HasJob
    <2>2. QED
      BY <1>2, <2>1 DEF CallsOK, WaitingOK
  <1>11. CallTyped'
    BY <1>2, <1>4, <1>6, <1>7
  <1>12. QED
    BY <1>8, <1>9, <1>10, <1>11 DEF CallsOK

\* Each call has one continuation, whatever happens.
LEMMA CallsStep ==
  ASSUME Typed, CallsOK, CallKind
  PROVE  CallTyped' /\ CallsOK'
  <1>1. CASE CallsStay
    <2>1. \A job \in Range(jobs) : Fits(job)'
      BY <1>1 DEF CallsStay, Fits, CallsOK, JobsOK
    <2>2. CallTyped' /\ JobsOK'
      BY <1>1, <2>1 DEF CallsStay, Typed, CallTyped, CallsOK, JobsOK
    <2>3. QED
      BY <1>1, <2>2 DEF CallsStay, CallsOK, WaitingOK, PendingOK
  <1>2. QED
    BY <1>1, ContinuesStep, WakesStep, LosesStep, ReturnsStep DEF CallKind

-----------------------------------------------------------------------------
(* What the daemon does to a connection. *)

\* What it may write next on t: an answer, an event of a siphon at home there, the
\* beginning of a line.
Writes(t, line) ==
  \/ line = Fragment
  \/ reply[t] # None /\ line = Whole(reply[t])
  \/ \E h \in Handles, e \in Nat :
       sub[h] # "none" /\ home[h] = t /\ line = Whole([sub |-> h, event |-> e])

\* It writes at most one line, and only where it can; the last one may be one too many.
Serving(t) ==
  /\ peer'[t] = peer[t] /\ (conn[t] = "none" => conn'[t] = "none")
  /\ Writable(t)' => Writable(t)
  /\ \/ wire'[t] = wire[t]
     \/ /\ Writable(t) /\ (Room(t) \/ ~Writable(t)')
        /\ \E line \in Lines : Writes(t, line) /\ wire'[t] = Append(wire[t], line)

LEMMA StepServing ==
  ASSUME Typed, NEW s \in Connections, ServerStep(s), NEW t \in Connections
  PROVE  Serving(t)
  <1> USE DEF Typed, ServerTyped, Writable
  <1>1. CASE HandleIngest(s)
    BY <1>1 DEF HandleIngest, Serving
  <1>2. CASE HandleFails(s)
    BY <1>2 DEF HandleFails, Serving
  <1>3. CASE HandleRegister(s)
    BY <1>3 DEF HandleRegister, Serving
  <1>4. CASE HandleUnregister(s)
    BY <1>4 DEF HandleUnregister, Serving
  <1>5. CASE Answer(s)
    <2>1. UNCHANGED <<conn, peer, mute>>
      BY <1>5 DEF Answer
    <2>2. CASE t = s /\ Writable(s)
      <3>1. Room(s) /\ wire' = [wire EXCEPT ![s] = Append(@, Whole(reply[s]))] /\ reply[s] # None
        BY <1>5, <2>2 DEF Answer, Answers
      <3>2. Whole(reply[s]) \in Lines
        BY <3>1, Written
      <3>3. QED
        BY <2>1, <2>2, <3>1, <3>2 DEF Serving, Writes
    <2>3. CASE ~(t = s /\ Writable(s))
      <3>1. wire'[t] = wire[t]
        BY <1>5, <2>3 DEF Answer
      <3>2. QED
        BY <2>1, <3>1 DEF Serving
    <2>4. QED
      BY <2>2, <2>3
  <1>6. CASE AnswerExpires(s)
    <2>1. UNCHANGED <<conn, peer>> /\ mute' = [mute EXCEPT ![s] = TRUE] /\ Writable(s) /\ ~Room(s)
      BY <1>6 DEF AnswerExpires
    <2>2. \/ wire'[t] = wire[t]
          \/ t = s /\ wire'[t] = Append(wire[t], Fragment)
      BY <1>6 DEF AnswerExpires
    <2>3. Fragment \in Lines
      BY Written
    <2>4. QED
      BY <2>1, <2>2, <2>3 DEF Serving, Writes
  <1>7. CASE HandlerEnds(s)
    BY <1>7 DEF HandlerEnds, Leaves, Serving
  <1>8. CASE IdleOut(s)
    BY <1>8 DEF IdleOut, Leaves, Serving
  <1>9. QED
    BY <1>1, <1>2, <1>3, <1>4, <1>5, <1>6, <1>7, <1>8 DEF ServerStep

LEMMA AllServing ==
  ASSUME Typed, RegisteredOnce, ServerNext, NEW t \in Connections
  PROVE  Serving(t)
  <1> USE DEF Typed, ServerTyped, Writable
  <1>1. CASE MeshEvent \/ Closed \/ Start
    BY <1>1 DEF MeshEvent, Closed, Start, connections, Serving
  <1>2. CASE Shutdown
    BY <1>2 DEF Shutdown, Serving
  <1>3. CASE Crash
    <2>1. /\ conn'[t] \in {"none", "done"} /\ (conn[t] = "none" => conn'[t] = "none")
          /\ peer' = peer
      BY <1>3 DEF Crash
    <2>2. wire'[t] = wire[t] \/ (Writable(t) /\ Room(t) /\ wire'[t] = Append(wire[t], Fragment))
      BY <1>3 DEF Crash
    <2>3. Fragment \in Lines
      BY Written
    <2>4. QED
      BY <2>1, <2>2, <2>3 DEF Serving, Writes
  <1>4. CASE \E s \in Connections : ServerStep(s)
    BY <1>4, StepServing
  <1>5. ASSUME NEW h \in Handles, Deliver(h) PROVE Serving(t)
    <2> DEFINE line == Whole([sub |-> h, event |-> Head(queue[h])])
    <2>1. UNCHANGED <<conn, peer, mute>> /\ Writable(home[h]) /\ Room(home[h])
          /\ wire' = [wire EXCEPT ![home[h]] = Append(@, line)]
      BY <1>5 DEF Deliver
    <2>2. Head(queue[h]) \in Nat /\ sub[h] # "none"
      BY <1>5 DEF Deliver, RegisteredOnce
    <2>3. line \in Lines /\ (home[h] = t => Writes(t, line))
      BY <2>2, Written DEF Writes
    <2> HIDE DEF line
    <2>4. CASE home[h] = t
      BY <2>1, <2>3, <2>4 DEF Serving
    <2>5. CASE home[h] # t
      BY <2>1, <2>5 DEF Serving
    <2>6. QED
      BY <2>4, <2>5
  <1>6. ASSUME NEW h \in Handles, DeliverFails(h) PROVE Serving(t)
    BY <1>6 DEF DeliverFails, Shut, Serving
  <1>7. ASSUME NEW h \in Handles, NEW who \in Broadcasters, Disconnect(h, who) PROVE Serving(t)
    BY <1>7 DEF Disconnect, Shut, Serving
  <1>8. QED
    BY <1>1, <1>2, <1>3, <1>4, <1>5, <1>6, <1>7 DEF ServerNext, SubscriptionStep

\* What the client reads, or loses, of a connection: no line is new.
Reading(t) ==
  /\ wire'[t] \in Seq(Lines) /\ Len(wire'[t]) <= Len(wire[t])
  /\ \A i \in 1..Len(wire'[t]) : \E j \in 1..Len(wire[t]) :
       wire'[t][i].message = wire[t][j].message
       /\ (wire'[t][i].part = "begin" <=> wire[t][j].part = "begin")

LEMMA ReadingEmpty ==
  ASSUME Typed, NEW t \in Connections, wire'[t] = <<>> \/ wire'[t] = wire[t]
  PROVE  Reading(t)
  <1>1. wire[t] \in Seq(Lines) /\ Len(wire[t]) \in Nat
    BY DEF Typed, ServerTyped
  <1>2. CASE wire'[t] = <<>>
    BY <1>1, <1>2 DEF Reading
  <1>3. CASE wire'[t] = wire[t]
    <2>1. \A i \in 1..Len(wire[t]) : wire[t][i].message = wire[t][i].message
      OBVIOUS
    <2>2. QED
      BY <1>1, <1>3, <2>1 DEF Reading
  <1>4. QED
    BY <1>2, <1>3

LEMMA ReadingSuffix ==
  ASSUME Typed, NEW t \in Connections, NEW n \in 1..Len(wire[t]),
         wire'[t] = SubSeq(wire[t], n + 1, Len(wire[t]))
  PROVE  Reading(t)
  <1> DEFINE w == wire[t]
             v == SubSeq(w, n + 1, Len(w))
  <1>1. w \in Seq(Lines) /\ n \in 1..Len(w) /\ wire'[t] = v
    BY DEF Typed, ServerTyped
  <1> HIDE DEF w
  <1>2. /\ v \in Seq(Lines) /\ Len(v) = Len(w) - n
        /\ \A i \in 1..Len(v) : i + n \in 1..Len(w) /\ v[i] = w[i + n]
    BY <1>1
  <1>3. Len(v) <= Len(w)
    BY <1>1, <1>2
  <1>4. QED
    BY <1>1, <1>2, <1>3 DEF Reading, w

LEMMA ReadingHead ==
  ASSUME Typed, NEW s \in Connections, wire[s] # <<>>, NEW t \in Connections,
         wire' = [wire EXCEPT ![s] = Tail(@)]
  PROVE  Reading(t)
  <1>1. CASE t = s
    <2>1. wire[s] \in Seq(Lines) /\ wire'[s] = Tail(wire[s])
      BY DEF Typed, ServerTyped
    <2>2. /\ Tail(wire[s]) \in Seq(Lines) /\ Len(Tail(wire[s])) = Len(wire[s]) - 1 /\ Len(wire[s]) \in Nat
          /\ \A i \in 1..Len(Tail(wire[s])) : i + 1 \in 1..Len(wire[s]) /\ Tail(wire[s])[i] = wire[s][i + 1]
      BY <2>1
    <2>3. Len(Tail(wire[s])) <= Len(wire[s])
      BY <2>2
    <2>4. QED
      BY <1>1, <2>1, <2>2, <2>3 DEF Reading
  <1>2. CASE t # s
    <2>1. wire'[t] = wire[t]
      BY <1>2 DEF Typed, ServerTyped
    <2>2. QED
      BY <2>1, ReadingEmpty
  <1>3. QED
    BY <1>1, <1>2

\* The first line with its beginning read holds the same message.
LEMMA PartRead ==
  ASSUME Typed, NEW s \in Connections, wire[s] # <<>>, Head(wire[s]).part = "whole",
         wire' = [wire EXCEPT ![s][1].part = "rest"]
  PROVE  /\ \A t \in Connections \ {s} : wire'[t] = wire[t]
         /\ wire'[s] \in Seq(Lines) /\ Len(wire'[s]) = Len(wire[s])
         /\ \A i \in 1..Len(wire[s]) : wire'[s][i].message = wire[s][i].message
                                       /\ (wire'[s][i].part = "begin" <=> wire[s][i].part = "begin")
  <1> DEFINE w == wire[s]
             line == [w[1] EXCEPT !.part = "rest"]
             v == [w EXCEPT ![1] = line]
  <1>1. w \in Seq(Lines) /\ w # <<>> /\ wire \in [Connections -> Seq(Lines)]
    BY DEF Typed, ServerTyped
  <1>2. wire' = [wire EXCEPT ![s] = v]
    OBVIOUS
  <1>3. wire'[s] = v /\ \A t \in Connections \ {s} : wire'[t] = wire[t]
    BY <1>1, <1>2
  <1>4. 1 \in 1..Len(w) /\ w[1] \in Lines /\ w[1].part = "whole"
    BY <1>1
  <1>5. line \in Lines /\ line.message = w[1].message /\ line.part = "rest"
    BY <1>4, RestOfLine
  <1> HIDE DEF line, w
  <1>6. v \in Seq(Lines) /\ Len(v) = Len(w) /\ \A i \in 1..Len(w) : v[i] = IF i = 1 THEN line ELSE w[i]
    BY <1>1, <1>4, <1>5, ExceptSeq
  <1>7. QED
    BY <1>3, <1>4, <1>5, <1>6 DEF w

\* The socket that is lost, and the line that is read.
LEMMA ReadStepReads ==
  ASSUME Typed, NEW s \in Connections, ReadStep(s), NEW t \in Connections
  PROVE  Reading(t)
  <1>1. wire[s] \in Seq(Lines) /\ wire[s] # <<>>
    BY DEF Typed, ServerTyped, ReadStep, ReadPart, ReadFragment, ReadAnswer, ReadEvent, ReadGarbage, Readable
  <1>2. CASE ReadPart(s)
    <2>1. /\ \A u \in Connections \ {s} : wire'[u] = wire[u]
          /\ wire'[s] \in Seq(Lines) /\ Len(wire'[s]) = Len(wire[s])
          /\ \A i \in 1..Len(wire[s]) : wire'[s][i].message = wire[s][i].message
                                       /\ (wire'[s][i].part = "begin" <=> wire[s][i].part = "begin")
      BY <1>1, <1>2, PartRead DEF ReadPart
    <2>2. Len(wire[s]) \in Nat
      BY <1>1
    <2>3. QED
      BY <2>1, <2>2, ReadingEmpty DEF Reading
  <1>3. CASE ReadFragment(s) \/ ReadAnswer(s) \/ ReadEvent(s)
    <2>1. wire' = [wire EXCEPT ![s] = Tail(@)]
      BY <1>3 DEF ReadFragment, ReadAnswer, ReadEvent, Takeaway
    <2>2. QED
      BY <1>1, <2>1, ReadingHead
  <1>4. CASE ReadGarbage(s)
    <2>1. PICK n \in 1..Len(wire[s]) :
            wire' = [wire EXCEPT ![s] = IF s = socket THEN <<>> ELSE SubSeq(@, n + 1, Len(@))]
      BY <1>4 DEF ReadGarbage
    <2>2. \/ wire'[t] = <<>> \/ wire'[t] = wire[t]
          \/ t = s /\ wire'[t] = SubSeq(wire[t], n + 1, Len(wire[t]))
      BY <2>1 DEF Typed, ServerTyped
    <2>3. QED
      BY <2>1, <2>2, ReadingEmpty, ReadingSuffix
  <1>5. QED
    BY <1>2, <1>3, <1>4 DEF ReadStep

-----------------------------------------------------------------------------
(* What a step does to the sockets of the client. *)

\* Whoever calls connect() is at a request that begins.
Dials(c) == \/ Call(c) \/ Retry(c) \/ StopReady(c)
            \/ c \in Handles /\ Stop(c) /\ phase[c] = "done"

LEMMA DialsAwaits ==
  ASSUME Typed, SocketsOK, SocketsSuffice, CallsOK, Silenced, NEW c \in Calls, Dials(c)
  PROVE  (\E before : Awaits(c, before)) /\ Begins(c) /\ UNCHANGED <<served, input>>
  <1>1. stopped \subseteq Handles
    BY DEF Typed, CallTyped
  <1>2. CASE Call(c)
    <2>1. phase[c] = "idle" /\ AwaitConnect(c, jobs) /\ UNCHANGED <<served, input, step>>
      BY <1>2 DEF Call
    <2>2. QED
      BY <2>1, BeginsFresh, AwaitConnectAwaits DEF Begins
  <1>3. CASE Retry(c)
    <2>1. \E result \in Results : Due(c, result)
      BY <1>3 DEF Retry, Results
    <2>2. /\ step[c] = 1 /\ AwaitConnect(c, Tail(jobs)) /\ UNCHANGED <<served, input>>
          /\ step' = [step EXCEPT ![c] = 2]
      BY <1>3 DEF Retry
    <2>3. QED
      BY <2>1, <2>2, DueFree, BeginsFresh, AwaitConnectAwaits DEF Begins
  <1>4. CASE StopReady(c)
    <2>1. Due(c, "stop") /\ Unsubscribe(c, Tail(jobs))
      BY <1>4 DEF StopReady
    <2>2. phase[c] # "idle" /\ step[c] = 1
      BY <2>1, DueFree DEF Fits, Job, Results
    <2>3. AwaitConnect(c, Tail(jobs)) /\ UNCHANGED <<served, input>> /\ step' = [step EXCEPT ![c] = 2]
      BY <2>1 DEF Unsubscribe
    <2>4. QED
      BY <2>2, <2>3, BeginsFresh, AwaitConnectAwaits DEF Begins
  <1>5. CASE c \in Handles /\ Stop(c) /\ phase[c] = "done"
    <2>1. Unsubscribe(c, jobs) /\ c \notin stopped
      BY <1>5 DEF Stop
    <2>2. step[c] = 1
      BY <1>5, <2>1 DEF Silenced, Typed, CallTyped
    <2>3. AwaitConnect(c, jobs) /\ UNCHANGED <<served, input>> /\ step' = [step EXCEPT ![c] = 2]
      BY <2>1 DEF Unsubscribe
    <2>4. QED
      BY <1>5, <2>2, <2>3, BeginsFresh, AwaitConnectAwaits DEF Begins
  <1>6. QED
    BY <1>2, <1>3, <1>4, <1>5 DEF Dials

\* The daemon keeps its end in order.
LEMMA ServedSockets ==
  ASSUME Typed, SocketsOK, RegisteredOnce, ServerNext, UNCHANGED client
  PROVE  SocketTyped' /\ SocketsOK'
  <1>1. UNCHANGED <<sock, socket, connecting, waiting, buffer, reading>>
    BY DEF client, sockets, input
  <1>2. ASSUME NEW t \in Connections
        PROVE  /\ peer'[t] = peer[t] /\ (conn[t] = "none" => conn'[t] = "none" /\ wire'[t] = wire[t])
               /\ Len(wire'[t]) <= WireSize + 1
               /\ Writable(t)' => Len(wire'[t]) <= WireSize
    <2>1. Serving(t)
      BY AllServing
    <2>2. wire[t] \in Seq(Lines) /\ Len(wire[t]) \in Nat /\ WireSize \in Nat
          /\ \A line \in Lines : Len(Append(wire[t], line)) = Len(wire[t]) + 1
      BY ServerAssumption DEF Typed, ServerTyped
    <2>3. Len(wire[t]) <= WireSize + 1 /\ (Writable(t) => Len(wire[t]) <= WireSize)
      BY DEF SocketsOK
    <2>4. CASE wire'[t] = wire[t]
      BY <2>1, <2>2, <2>3, <2>4 DEF Serving
    <2>5. CASE Writable(t) /\ Len(wire'[t]) = Len(wire[t]) + 1 /\ (Room(t) \/ ~Writable(t)')
      <3>1. conn[t] # "none" /\ peer'[t] = peer[t]
        BY <2>1, <2>5 DEF Writable, Serving
      <3>2. QED
        BY <2>2, <2>3, <2>5, <3>1 DEF Room
    <2>6. QED
      BY <2>1, <2>2, <2>4, <2>5 DEF Serving
  <1>3. SocketTyped'
    BY <1>1 DEF Typed, SocketTyped
  <1>4. QED
    BY <1>1, <1>2, <1>3 DEF SocketsOK

\* A socket is new, or one more call awaits it.
LEMMA AwaitedSockets ==
  ASSUME Typed, SocketsOK, NEW c \in Calls, NEW before, Awaits(c, before), UNCHANGED <<served, input>>
  PROVE  SocketTyped' /\ SocketsOK'
  <1>1. UNCHANGED <<conn, peer, mute, wire, buffer, reading>>
    BY DEF served, connections, input
  <1>2. CASE UNCHANGED sockets
    BY <1>1, <1>2 DEF sockets, Typed, SocketTyped, SocketsOK, Writable
  <1>3. ASSUME NEW s \in Connections, sock[s] \in {"free", "opening"},
               sock' = [sock EXCEPT ![s] = "opening"], socket' = s, connecting' = s, Waits(c, s)
        PROVE  SocketTyped' /\ SocketsOK'
    <2>1. SocketTyped'
      BY <1>1, <1>3 DEF Typed, SocketTyped
    <2>2. sock'[s] = "opening" /\ \A t \in Connections \ {s} : sock'[t] = sock[t] /\ waiting'[t] = waiting[t]
      BY <1>3 DEF Typed, SocketTyped, CallTyped, Waits
    <2>3. conn[s] = "none" /\ peer[s] = "none" /\ wire[s] = <<>>
      BY <1>3 DEF SocketsOK
    <2>4. QED
      BY <1>1, <1>3, <2>1, <2>2, <2>3 DEF SocketsOK, Writable
  <1>4. QED
    BY <1>2, <1>3 DEF Awaits

\* A client that reads loses lines, and perhaps its socket.
LEMMA ReadSockets ==
  ASSUME Typed, SocketsOK, NEW s \in Connections, ReadStep(s)
  PROVE  SocketTyped' /\ SocketsOK'
  <1>1. \A t \in Connections : /\ wire'[t] \in Seq(Lines) /\ Len(wire'[t]) <= Len(wire[t])
                               /\ wire[t] = <<>> => wire'[t] = <<>>
    <2>1. \A t \in Connections : Reading(t)
      BY ReadStepReads
    <2>2. \A t \in Connections : wire[t] \in Seq(Lines)
      BY DEF Typed, ServerTyped
    <2>3. ASSUME NEW t \in Connections, wire[t] = <<>> PROVE wire'[t] = <<>>
      BY <2>1, <2>3 DEF Reading
    <2>4. QED
      BY <2>1, <2>3 DEF Reading
  <1>2. \A t \in Connections : /\ Len(wire[t]) \in Nat /\ Len(wire'[t]) \in Nat
                               /\ Len(wire'[t]) <= WireSize + 1
                               /\ Writable(t) => Len(wire'[t]) <= WireSize
    BY <1>1, ServerAssumption DEF SocketsOK, Typed, ServerTyped
  <1>3. UNCHANGED <<socket, connecting, conn, mute>>
    BY DEF ReadStep, ReadPart, ReadFragment, ReadAnswer, ReadEvent, ReadGarbage, Takeaway, sockets
  <1>4. buffer' \in Connections \cup {None} /\ reading' \in Connections \cup {None}
    BY DEF ReadStep, ReadPart, ReadFragment, ReadAnswer, ReadEvent, ReadGarbage, ChunkGoesOn
  <1>5. CASE UNCHANGED <<sock, peer, waiting>>
    BY <1>1, <1>2, <1>3, <1>4, <1>5 DEF SocketsOK, Writable, Typed, SocketTyped
  <1>6. CASE ReadGarbage(s)
    <2>1. socket \in Connections \cup {None}
      BY DEF Typed, SocketTyped
    <2>2. CASE socket # None /\ sock[socket] = "opening"
      <3>1. sock' = [sock EXCEPT ![socket] = "refused"] /\ waiting' = [waiting EXCEPT ![socket] = <<>>]
            /\ peer' = peer
        BY <1>6, <2>2 DEF ReadGarbage, IsOpen
      <3>2. /\ sock'[socket] = "refused" /\ waiting'[socket] = <<>>
            /\ \A t \in Connections \ {socket} : sock'[t] = sock[t] /\ waiting'[t] = waiting[t]
        BY <2>1, <2>2, <3>1 DEF Typed, SocketTyped, CallTyped
      <3>3. SocketTyped'
        BY <1>3, <1>4, <3>1 DEF Typed, SocketTyped
      <3>4. conn[socket] = "none" /\ peer[socket] = "none" /\ wire[socket] = <<>>
        BY <2>1, <2>2 DEF SocketsOK
      <3>5. QED
        BY <1>1, <1>2, <1>3, <2>1, <2>2, <3>1, <3>2, <3>3, <3>4 DEF SocketsOK, Writable
    <2>3. CASE IsOpen(socket)
      <3>1. sock' = [sock EXCEPT ![socket] = "dying"] /\ waiting' = waiting
            /\ peer' = [peer EXCEPT ![socket] = "gone"]
        BY <1>6, <2>3 DEF ReadGarbage, IsOpen
      <3>2. /\ sock'[socket] = "dying" /\ peer'[socket] = "gone" /\ waiting[socket] = <<>>
            /\ \A t \in Connections \ {socket} : sock'[t] = sock[t] /\ peer'[t] = peer[t]
        BY <2>1, <2>3, <3>1 DEF Typed, SocketTyped, ServerTyped, IsOpen, SocketsOK
      <3>3. SocketTyped'
        BY <1>3, <1>4, <3>1 DEF Typed, SocketTyped
      <3>4. QED
        BY <1>1, <1>2, <1>3, <2>1, <2>3, <3>1, <3>2, <3>3 DEF SocketsOK, Writable, IsOpen
    <2>4. CASE ~(socket # None /\ sock[socket] = "opening") /\ ~IsOpen(socket)
      BY <1>5, <1>6, <2>4 DEF ReadGarbage
    <2>5. QED
      BY <2>2, <2>3, <2>4
  <1>7. QED
    BY <1>5, <1>6 DEF ReadStep, ReadPart, ReadFragment, ReadAnswer, ReadEvent, Takeaway, connections, sockets

\* A socket is destroyed: nothing is read from it any more.
LEMMA DestroyedSockets ==
  ASSUME Typed, SocketsOK, NEW s \in Connections, sock[s] \in {"open", "ending"}, Destroyed(s),
         UNCHANGED <<socket, connecting, waiting, buffer, reading, conn, mute>>
  PROVE  SocketTyped' /\ SocketsOK'
  <1>1. /\ sock'[s] = "dying" /\ peer'[s] = "gone" /\ wire'[s] = <<>>
        /\ \A t \in Connections \ {s} : sock'[t] = sock[t] /\ peer'[t] = peer[t] /\ wire'[t] = wire[t]
    BY DEF Destroyed, Typed, SocketTyped, ServerTyped
  <1>2. SocketTyped'
    BY DEF Destroyed, Typed, SocketTyped
  <1>3. Len(wire'[s]) = 0 /\ WireSize \in Nat
    BY <1>1, ServerAssumption
  <1>4. waiting[s] = <<>> /\ socket \in Connections \cup {None}
    BY DEF SocketsOK, Typed, SocketTyped
  <1>5. socket' # None => sock'[socket'] \in {"opening", "open", "dying", "refused"}
    BY <1>1, <1>4 DEF SocketsOK
  <1>6. QED
    BY <1>1, <1>2, <1>3, <1>4, <1>5 DEF SocketsOK, Writable

\* The events of a socket, and close().
LEMMA EventSockets ==
  ASSUME Typed, SocketsOK, NEW s \in Connections,
         Opened(s) \/ Refused(s) \/ Hangup(s) \/ SocketClosed(s)
  PROVE  SocketTyped' /\ SocketsOK'
  <1>1. CASE Opened(s)
    <2>1. sock[s] \in {"opening", "cancelled"} /\ conn[s] = "none" /\ peer[s] = "none" /\ wire[s] = <<>>
      BY <1>1 DEF Opened, SocketsOK
    <2>2. /\ UNCHANGED <<socket, connecting, buffer, reading, mute, wire>>
          /\ sock' = [sock EXCEPT ![s] = IF @ = "opening" THEN "open" ELSE "ending"]
          /\ peer' = [peer EXCEPT ![s] = IF sock[s] = "opening" THEN "open" ELSE "half"]
          /\ conn' = [conn EXCEPT ![s] = IF daemon = "up" THEN "open" ELSE "done"]
          /\ waiting' = [waiting EXCEPT ![s] = <<>>]
      BY <1>1 DEF Opened, Settled, input
    <2>3. /\ sock'[s] = IF sock[s] = "opening" THEN "open" ELSE "ending"
          /\ peer'[s] = IF sock[s] = "opening" THEN "open" ELSE "half"
          /\ waiting'[s] = <<>> /\ Len(wire[s]) = 0 /\ WireSize \in Nat
          /\ \A t \in Connections \ {s} : /\ sock'[t] = sock[t] /\ peer'[t] = peer[t]
                                          /\ conn'[t] = conn[t] /\ waiting'[t] = waiting[t]
      BY <2>1, <2>2, ServerAssumption DEF Typed, SocketTyped, ServerTyped, CallTyped
    <2>4. SocketTyped'
      BY <2>2 DEF Typed, SocketTyped
    <2>5. QED
      BY <2>1, <2>2, <2>3, <2>4 DEF SocketsOK, Writable
  <1>2. CASE Refused(s)
    <2>1. sock[s] \in {"opening", "cancelled"} /\ conn[s] = "none" /\ peer[s] = "none" /\ wire[s] = <<>>
      BY <1>2 DEF Refused, SocketsOK
    <2>2. /\ UNCHANGED <<socket, connecting, buffer, reading, mute, wire, conn, peer>>
          /\ sock' = [sock EXCEPT ![s] = "refused"] /\ waiting' = [waiting EXCEPT ![s] = <<>>]
      BY <1>2 DEF Refused, Settled, input, served, connections
    <2>3. /\ sock'[s] = "refused" /\ waiting'[s] = <<>>
          /\ \A t \in Connections \ {s} : sock'[t] = sock[t] /\ waiting'[t] = waiting[t]
      BY <2>2 DEF Typed, SocketTyped, CallTyped
    <2>4. SocketTyped'
      BY <2>2 DEF Typed, SocketTyped
    <2>5. QED
      BY <2>1, <2>2, <2>3, <2>4 DEF SocketsOK, Writable
  <1>3. CASE Hangup(s)
    BY <1>3, DestroyedSockets DEF Hangup, input
  <1>4. CASE SocketClosed(s)
    <2>1. /\ sock[s] \in {"dying", "refused"} /\ socket' = None /\ connecting' = None
          /\ UNCHANGED <<waiting, buffer, reading, mute, wire, conn, peer>>
          /\ sock' = [sock EXCEPT ![s] = "closed"]
      BY <1>4 DEF SocketClosed, input, served, connections
    <2>2. sock'[s] = "closed" /\ waiting[s] = <<>> /\ \A t \in Connections \ {s} : sock'[t] = sock[t]
      BY <2>1 DEF SocketsOK, Typed, SocketTyped
    <2>3. SocketTyped'
      BY <2>1 DEF Typed, SocketTyped
    <2>4. QED
      BY <2>1, <2>2, <2>3 DEF SocketsOK, Writable
  <1>5. QED
    BY <1>1, <1>2, <1>3, <1>4

LEMMA CloseSockets ==
  ASSUME Typed, SocketsOK, Close
  PROVE  SocketTyped' /\ SocketsOK'
  <1>1. socket \in Connections /\ sock[socket] \in {"opening", "open", "dying", "refused"}
    BY DEF Close, Typed, SocketTyped, SocketsOK
  <1>2. /\ socket' = None /\ connecting' = None
        /\ UNCHANGED <<waiting, buffer, reading, mute, wire, conn>>
        /\ sock' = [sock EXCEPT ![socket] = CASE @ = "open" -> "ending" [] @ = "opening" -> "cancelled"
                                              [] OTHER -> @]
        /\ peer' = [peer EXCEPT ![socket] = IF @ = "open" THEN "half" ELSE @]
    BY DEF Close, input
  <1>3. /\ sock'[socket] = IF sock[socket] = "open" THEN "ending"
                           ELSE IF sock[socket] = "opening" THEN "cancelled" ELSE sock[socket]
        /\ peer'[socket] = IF peer[socket] = "open" THEN "half" ELSE peer[socket]
        /\ \A t \in Connections \ {socket} : sock'[t] = sock[t] /\ peer'[t] = peer[t]
    BY <1>1, <1>2 DEF Typed, SocketTyped, ServerTyped
  <1>4. SocketTyped'
    <2>1. sock' \in [Connections -> {"free", "opening", "cancelled", "open", "ending", "dying",
                                     "refused", "closed"}]
      BY <1>1, <1>2, <1>3 DEF Typed, SocketTyped
    <2>2. QED
      BY <1>2, <2>1 DEF Typed, SocketTyped
  <1>5. \A t \in Connections : Writable(t)' => Writable(t)
    BY <1>1, <1>2, <1>3 DEF Writable
  <1>6. QED
    BY <1>1, <1>2, <1>3, <1>4, <1>5 DEF SocketsOK

-----------------------------------------------------------------------------
(* What a step of the client leaves alone. *)

ClientStep ==
  \/ Close
  \/ \E c \in Calls : Call(c) \/ RunJob(c) \/ Timeout(c)
  \/ \E h \in Handles : Stop(h)
  \/ \E s \in Connections : SocketStep(s) \/ ReadStep(s)

LEMMA NextSplit ==
  ASSUME [Next]_vars
  PROVE  \/ UNCHANGED vars
         \/ ServerNext /\ UNCHANGED client
         \/ ClientStep
  BY DEF Next, Serves, ClientStep

\* It is the daemon's business what is stored, answered, and broadcast to whom;
\* the client loses lines, but none is new, and what it has ended stays ended.
Minding ==
  /\ UNCHANGED <<daemon, reply, mute, store, published, subscriptions>>
  /\ conn' \in [Connections -> {"none", "open", "shut", "done"}]
  /\ peer' \in [Connections -> {"none", "open", "half", "gone"}]
  /\ wire' \in [Connections -> Seq(Lines)]
  /\ \A t \in Connections : Reading(t) /\ (peer[t] = "gone" => peer'[t] = "gone")

LEMMA SameWire ==
  ASSUME Typed, UNCHANGED <<daemon, reply, mute, store, published, subscriptions, conn, wire>>,
         peer' \in [Connections -> {"none", "open", "half", "gone"}],
         \A t \in Connections : peer[t] = "gone" => peer'[t] = "gone"
  PROVE  Minding
  <1>1. \A t \in Connections : Reading(t)
    BY ReadingEmpty
  <1>2. QED
    BY <1>1 DEF Minding, Typed, ServerTyped

LEMMA DestroyedMinds ==
  ASSUME Typed, UNCHANGED <<daemon, reply, mute, store, published, subscriptions, conn>>,
         NEW s \in Connections, Destroyed(s)
  PROVE  Minding
  <1> USE DEF Typed, ServerTyped
  <1>1. wire' = [wire EXCEPT ![s] = <<>>] /\ peer' = [peer EXCEPT ![s] = "gone"]
    BY DEF Destroyed
  <1>2. wire' \in [Connections -> Seq(Lines)] /\ peer' \in [Connections -> {"none", "open", "half", "gone"}]
        /\ \A t \in Connections : (wire'[t] = <<>> \/ wire'[t] = wire[t])
                                  /\ (peer[t] = "gone" => peer'[t] = "gone")
    BY <1>1
  <1>3. \A t \in Connections : Reading(t)
    BY <1>2, ReadingEmpty
  <1>4. QED
    BY <1>2, <1>3 DEF Minding

LEMMA ReadStepMinds ==
  ASSUME Typed, SocketsOK, NEW s \in Connections, ReadStep(s)
  PROVE  Minding /\ inbox' = inbox
  <1>1. UNCHANGED <<daemon, conn, inbox, reply, mute, store, published, subscriptions>>
    BY DEF ReadStep, ReadPart, ReadFragment, ReadAnswer, ReadEvent, ReadGarbage, Takeaway
  <1>2. \A t \in Connections : Reading(t)
    BY ReadStepReads
  <1>3. wire' \in [Connections -> Seq(Lines)]
    <2>1. \E w : wire' = [wire EXCEPT ![s] = w]
      BY DEF ReadStep, ReadPart, ReadFragment, ReadAnswer, ReadEvent, ReadGarbage, Takeaway
    <2>2. DOMAIN wire' = Connections /\ wire' = [t \in Connections |-> wire'[t]]
      BY <2>1 DEF Typed, ServerTyped
    <2>3. \A t \in Connections : wire'[t] \in Seq(Lines)
      BY <1>2 DEF Reading
    <2>4. QED
      BY <2>2, <2>3
  <1>4. peer' = peer \/ (socket \in Connections /\ peer' = [peer EXCEPT ![socket] = "gone"])
    BY DEF ReadStep, ReadPart, ReadFragment, ReadAnswer, ReadEvent, ReadGarbage, Takeaway, IsOpen,
           Typed, SocketTyped
  <1>5. peer' \in [Connections -> {"none", "open", "half", "gone"}]
        /\ \A t \in Connections : peer[t] = "gone" => peer'[t] = "gone"
    BY <1>4 DEF Typed, ServerTyped
  <1>6. QED
    BY <1>1, <1>2, <1>3, <1>5 DEF Minding, Typed, ServerTyped

\* The one request a step may write.
Requesting ==
  \/ inbox' = inbox
  \/ \E c \in Calls, s \in Connections :
       /\ Write(c) /\ Due(c, "opened") /\ phase' = [phase EXCEPT ![c] = "sent"]
       /\ inbox' = [inbox EXCEPT ![s] = Append(@, RequestOf(c))]

LEMMA ClientMinds ==
  ASSUME Typed, SocketsOK, ClientStep
  PROVE  Minding /\ Requesting
  <1>1. CASE UNCHANGED served
    <2>1. UNCHANGED <<daemon, inbox, reply, mute, store, published, subscriptions, conn, wire, peer>>
      BY <1>1 DEF served, connections
    <2>2. QED
      BY <2>1, SameWire DEF Requesting, Typed, ServerTyped
  <1>2. CASE Close
    <2>1. socket \in Connections
      BY <1>2 DEF Close, Typed, SocketTyped
    <2>2. peer' = [peer EXCEPT ![socket] = IF @ = "open" THEN "half" ELSE @]
          /\ UNCHANGED <<daemon, inbox, reply, mute, store, published, subscriptions, conn, wire>>
      BY <1>2 DEF Close
    <2>3. peer' \in [Connections -> {"none", "open", "half", "gone"}]
          /\ \A t \in Connections : peer[t] = "gone" => peer'[t] = "gone"
      BY <2>1, <2>2 DEF Typed, ServerTyped
    <2>4. QED
      BY <2>2, <2>3, SameWire DEF Requesting
  <1>3. ASSUME NEW c \in Calls, Write(c) PROVE Minding /\ Requesting
    <2>1. socket \in Connections \cup {None}
          /\ UNCHANGED <<daemon, reply, mute, store, published, subscriptions, conn>>
          /\ Due(c, "opened")
      BY <1>3 DEF Write, Typed, SocketTyped
    <2>2. CASE IsOpen(socket) /\ conn[socket] = "open"
      <3>1. UNCHANGED <<peer, wire>> /\ Enters(c, "sent") /\ socket \in Connections
            /\ inbox' = [inbox EXCEPT ![socket] = Append(@, RequestOf(c))]
        BY <1>3, <2>1, <2>2 DEF Write, IsOpen
      <3>2. Requesting
        BY <1>3, <2>1, <3>1 DEF Requesting, Enters
      <3>3. QED
        BY <2>1, <3>1, <3>2, SameWire DEF Typed, ServerTyped
    <2>3. CASE IsOpen(socket) /\ conn[socket] # "open"
      <3>1. Destroyed(socket) /\ UNCHANGED inbox /\ socket \in Connections
        BY <1>3, <2>1, <2>3 DEF Write, IsOpen
      <3>2. QED
        BY <2>1, <3>1, DestroyedMinds DEF Requesting
    <2>4. CASE ~IsOpen(socket)
      <3>1. UNCHANGED <<inbox, peer, wire>>
        BY <1>3, <2>4 DEF Write
      <3>2. QED
        BY <2>1, <3>1, SameWire DEF Requesting, Typed, ServerTyped
    <2>5. QED
      BY <2>2, <2>3, <2>4
  <1>4. ASSUME NEW s \in Connections, Opened(s) PROVE Minding /\ Requesting
    <2>1. sock[s] \in {"opening", "cancelled"} /\ peer[s] = "none"
          /\ UNCHANGED <<daemon, inbox, reply, mute, store, published, subscriptions, wire>>
          /\ peer' = [peer EXCEPT ![s] = IF sock[s] = "opening" THEN "open" ELSE "half"]
          /\ conn' = [conn EXCEPT ![s] = IF daemon = "up" THEN "open" ELSE "done"]
      BY <1>4 DEF Opened, SocketsOK
    <2>2. \A t \in Connections : Reading(t)
      BY <2>1, ReadingEmpty
    <2>3. QED
      BY <2>1, <2>2 DEF Minding, Requesting, Typed, ServerTyped
  <1>5. ASSUME NEW s \in Connections, Hangup(s) PROVE Minding /\ Requesting
    BY <1>5, DestroyedMinds DEF Hangup, Requesting
  <1>6. ASSUME NEW c \in Calls, Timeout(c) PROVE Minding /\ Requesting
    <2>1. UNCHANGED <<daemon, inbox, reply, mute, store, published, subscriptions, conn, wire, peer>>
      BY <1>6 DEF Timeout, connections
    <2>2. QED
      BY <2>1, SameWire DEF Requesting, Typed, ServerTyped
  <1>7. ASSUME NEW s \in Connections, ReadStep(s) PROVE Minding /\ Requesting
    BY <1>7, ReadStepMinds DEF Requesting
  <1>8. ASSUME NEW c \in Calls, \/ Call(c) \/ Resolved(c) \/ Rejected(c) \/ Retry(c)
                                \/ Subscribed(c) \/ StopReady(c) \/ Unsubscribed(c)
        PROVE  UNCHANGED served
    BY <1>8 DEF Call, Resolved, Rejected, Retry, Subscribed, StopReady, Unsubscribed, Settles, Unsubscribe
  <1>9. ASSUME NEW h \in Handles, Stop(h) PROVE UNCHANGED served
    BY <1>9 DEF Stop, Unsubscribe
  <1>10. ASSUME NEW s \in Connections, Refused(s) \/ SocketClosed(s) PROVE UNCHANGED served
    BY <1>10 DEF Refused, SocketClosed
  <1>11. QED
    BY <1>1, <1>2, <1>3, <1>4, <1>5, <1>6, <1>7, <1>8, <1>9, <1>10
       DEF ClientStep, RunJob, SocketStep

-----------------------------------------------------------------------------
(* Types and sockets, over all steps. *)

LEMMA RequestTyped ==
  ASSUME Typed, NEW c \in Calls
  PROVE  /\ RequestOf(c) \in Requests
         /\ RequestOf(c).action = "siphon_register" =>
              c \in Handles /\ step[c] = 1 /\ RequestOf(c).about = c
  <1>1. step[c] \in {1, 2} /\ <<c, step[c]>> \in RequestIDs
    BY DEF Typed, CallTyped, RequestIDs
  <1>2. CASE c \in Ingests
    <2>1. <<c, 1>> \in Ingests \X {1}
      BY <1>2
    <2>2. QED
      BY <1>1, <1>2, <2>1 DEF RequestOf, Requests, EventID
  <1>3. CASE c \notin Ingests
    <2>1. c \in Handles
      BY <1>3 DEF Calls
    <2>2. QED
      BY <1>1, <1>3, <2>1 DEF RequestOf, Requests
  <1>4. QED
    BY <1>2, <1>3

LEMMA ServerTypedStep ==
  ASSUME Typed, SocketsOK, RegisteredOnce, [Next]_vars
  PROVE  ServerTyped'
  <1>1. CASE UNCHANGED vars
    BY <1>1 DEF vars, served, connections, subscriptions, Typed, ServerTyped
  <1>2. CASE ServerNext
    BY <1>2, ServerNextTyped
  <1>3. CASE ClientStep
    <2>1. Minding /\ Requesting
      BY <1>3, ClientMinds
    <2>2. inbox' \in [Connections -> Seq(Requests)]
      <3>1. ASSUME NEW c \in Calls, NEW s \in Connections,
                   inbox' = [inbox EXCEPT ![s] = Append(@, RequestOf(c))]
            PROVE  inbox' \in [Connections -> Seq(Requests)]
        <4>1. Append(inbox[s], RequestOf(c)) \in Seq(Requests)
          BY RequestTyped, AppendSeq DEF Typed, ServerTyped
        <4>2. QED
          BY <3>1, <4>1 DEF Typed, ServerTyped
      <3>2. QED
        BY <2>1, <3>1 DEF Requesting, Typed, ServerTyped
    <2>3. QED
      BY <2>1, <2>2 DEF Minding, subscriptions, Typed, ServerTyped
  <1>4. QED
    BY <1>1, <1>2, <1>3, NextSplit

LEMMA SocketsStep ==
  ASSUME Typed, SocketsOK, SocketsSuffice, CallsOK, Silenced, RegisteredOnce, [Next]_vars
  PROVE  SocketTyped' /\ SocketsOK'
  <1>1. CASE UNCHANGED <<sockets, input, conn, peer, wire, mute>>
    BY <1>1 DEF sockets, input, Typed, SocketTyped, SocketsOK, Writable
  <1>2. CASE UNCHANGED vars
    BY <1>1, <1>2 DEF vars, served, client, connections
  <1>3. CASE ServerNext /\ UNCHANGED client
    BY <1>3, ServedSockets
  <1>4. CASE Close
    BY <1>4, CloseSockets
  <1>5. ASSUME NEW c \in Calls, Dials(c) PROVE SocketTyped' /\ SocketsOK'
    BY <1>5, DialsAwaits, AwaitedSockets
  <1>6. ASSUME NEW c \in Calls, Write(c) PROVE SocketTyped' /\ SocketsOK'
    <2>1. socket \in Connections \cup {None} /\ UNCHANGED <<conn, mute, socket, connecting, waiting, input>>
      BY <1>6 DEF Write, Typed, SocketTyped
    <2>2. CASE IsOpen(socket) /\ conn[socket] # "open"
      <3>1. Destroyed(socket) /\ socket \in Connections /\ sock[socket] = "open"
        BY <1>6, <2>1, <2>2 DEF Write, IsOpen
      <3>2. QED
        BY <2>1, <3>1, DestroyedSockets DEF input
    <2>3. CASE ~(IsOpen(socket) /\ conn[socket] # "open")
      <3>1. UNCHANGED <<sock, peer, wire>>
        BY <1>6, <2>3 DEF Write
      <3>2. QED
        BY <1>1, <2>1, <3>1 DEF sockets
    <2>4. QED
      BY <2>2, <2>3
  <1>7. ASSUME NEW c \in Calls, \/ Resolved(c) \/ Rejected(c) \/ Subscribed(c) \/ Unsubscribed(c) \/ Timeout(c)
                                \/ Stop(c) /\ phase[c] # "done"
        PROVE  SocketTyped' /\ SocketsOK'
    <2>1. UNCHANGED <<sockets, input, conn, peer, wire, mute>>
      BY <1>7 DEF Resolved, Rejected, Subscribed, Unsubscribed, Timeout, Stop, Settles, served, connections
    <2>2. QED
      BY <1>1, <2>1
  <1>8. ASSUME NEW s \in Connections, SocketStep(s) PROVE SocketTyped' /\ SocketsOK'
    BY <1>8, EventSockets DEF SocketStep
  <1>9. ASSUME NEW s \in Connections, ReadStep(s) PROVE SocketTyped' /\ SocketsOK'
    BY <1>9, ReadSockets
  <1>10. \A h \in Handles : h \in Calls
    BY DEF Calls
  <1>11. CASE ClientStep
    BY <1>4, <1>5, <1>6, <1>7, <1>8, <1>9, <1>10, <1>11 DEF ClientStep, RunJob, Dials
  <1>12. QED
    BY <1>2, <1>3, <1>11, NextSplit

\* The events kept for a siphon, and those given to it.
LEMMA SiphonTypedStep ==
  ASSUME Typed, CallsOK, [Next]_vars
  PROVE  SiphonTyped'
  <1> USE DEF Typed, SiphonTyped
  <1>1. CASE UNCHANGED siphons
    BY <1>1 DEF siphons
  <1>2. CASE UNCHANGED vars \/ UNCHANGED client
    BY <1>1, <1>2 DEF vars, client
  <1>3. ASSUME NEW h \in Handles, NEW before, Unsubscribe(h, before) PROVE SiphonTyped'
    BY <1>3, ClientAssumption DEF Unsubscribe, Forget
  <1>4. ASSUME NEW h \in Handles, Stop(h) PROVE SiphonTyped'
    BY <1>3, <1>4 DEF Stop
  <1>5. ASSUME NEW c \in Calls, StopReady(c) PROVE SiphonTyped'
    <2>1. c \in Handles
      BY <1>5, DueFree DEF StopReady, Fits, Job, Results, CallTyped
    <2>2. QED
      BY <1>3, <1>5, <2>1 DEF StopReady
  <1>6. ASSUME NEW h \in Handles, Subscribed(h) PROVE SiphonTyped'
    <2>1. handled[h] \o early[h] \in Seq(Nat)
      BY ConcatSeq
    <2>2. /\ handlers' = handlers \cup {h} /\ early' = [early EXCEPT ![h] = <<>>]
          /\ handled' = [handled EXCEPT ![h] = @ \o early[h]] /\ UNCHANGED <<spilled, garbled>>
      BY <1>6 DEF Subscribed
    <2>3. QED
      BY <2>1, <2>2, ClientAssumption
  <1>7. ASSUME NEW s \in Connections, ReadEvent(s) PROVE SiphonTyped'
    <2> DEFINE m == Head(wire[s]).message
    <2>1. m \in Pushes
      BY <1>7, ReadsMessage DEF ReadEvent
    <2>2. m.sub \in Handles /\ m.event \in Nat
      BY <2>1 DEF Pushes
    <2>3. /\ UNCHANGED <<handlers, garbled>>
          /\ \/ handled' = [handled EXCEPT ![m.sub] = Append(@, m.event)] /\ UNCHANGED <<early, spilled>>
             \/ /\ Len(early[m.sub]) < EarlyLimit
                /\ early' = [early EXCEPT ![m.sub] = Append(@, m.event)] /\ UNCHANGED <<handled, spilled>>
             \/ spilled' = [spilled EXCEPT ![m.sub] = TRUE] /\ UNCHANGED <<handled, early>>
      BY <1>7 DEF ReadEvent
    <2> HIDE DEF m
    <2>4. /\ Append(handled[m.sub], m.event) \in Seq(Nat) /\ Append(early[m.sub], m.event) \in Seq(Nat)
          /\ Len(Append(early[m.sub], m.event)) = Len(early[m.sub]) + 1 /\ Len(early[m.sub]) \in Nat
      BY <2>2, AppendSeq
    <2>5. CASE handled' = [handled EXCEPT ![m.sub] = Append(@, m.event)] /\ UNCHANGED <<early, spilled>>
      BY <2>2, <2>3, <2>4, <2>5
    <2>6. CASE /\ Len(early[m.sub]) < EarlyLimit
               /\ early' = [early EXCEPT ![m.sub] = Append(@, m.event)] /\ UNCHANGED <<handled, spilled>>
      <3>1. Len(Append(early[m.sub], m.event)) <= EarlyLimit
        BY <2>4, <2>6, ClientAssumption
      <3>2. QED
        BY <2>2, <2>3, <2>4, <2>6, <3>1
    <2>7. CASE spilled' = [spilled EXCEPT ![m.sub] = TRUE] /\ UNCHANGED <<handled, early>>
      BY <2>2, <2>3, <2>7
    <2>8. QED
      BY <2>3, <2>5, <2>6, <2>7
  <1>8. ASSUME NEW s \in Connections, ReadGarbage(s) PROVE SiphonTyped'
    BY <1>8 DEF ReadGarbage
  <1>9. ASSUME NEW c \in Calls, Call(c) \/ Write(c) \/ Resolved(c) \/ Rejected(c) \/ Retry(c)
                                \/ Unsubscribed(c) \/ Timeout(c)
        PROVE  UNCHANGED siphons
    BY <1>9 DEF Call, Write, Resolved, Rejected, Retry, Unsubscribed, Timeout
  <1>10. ASSUME NEW s \in Connections, SocketStep(s) \/ ReadPart(s) \/ ReadFragment(s) \/ ReadAnswer(s)
         PROVE  UNCHANGED siphons
    BY <1>10 DEF SocketStep, Opened, Refused, Hangup, SocketClosed, ReadPart, ReadFragment, ReadAnswer
  <1>11. CASE Close
    BY <1>1, <1>11 DEF Close
  <1>12. ASSUME NEW c \in Calls, Subscribed(c) PROVE c \in Handles
    BY <1>12 DEF Subscribed
  <1>13. QED
    BY <1>1, <1>2, <1>4, <1>5, <1>6, <1>7, <1>8, <1>9, <1>10, <1>11, <1>12, NextSplit
       DEF ClientStep, RunJob, ReadStep

-----------------------------------------------------------------------------
(* Requests begun, and connections used. *)

\* The requests that are begun are those that were, and the one that begins.
LEMMA BegunStep ==
  ASSUME Typed, CallsOK, CallKind
  PROVE  Begun \subseteq Begun'
  <1> USE DEF Typed, CallTyped
  <1>1. \A c \in Calls : step[c] \in {1, 2} /\ step'[c] \in {1, 2}
    BY CallsStep
  <1>2. SUFFICES ASSUME NEW c \in Calls
                 PROVE  \/ step'[c] = step[c] /\ (phase'[c] = "idle" => phase[c] = "idle")
                        \/ step[c] = 1 /\ step'[c] = 2 /\ phase'[c] # "idle"
    <2>1. SUFFICES ASSUME NEW r \in Begun PROVE r \in Begun'
      OBVIOUS
    <2>2. r \in RequestIDs /\ r[1] \in Calls /\ r[2] \in {1, 2}
          /\ (r[2] < step[r[1]] \/ (r[2] = step[r[1]] /\ phase[r[1]] # "idle"))
      BY DEF Begun, RequestIDs
    <2>3. r[2] < step'[r[1]] \/ (r[2] = step'[r[1]] /\ phase'[r[1]] # "idle")
      BY <1>1, <1>2, <2>2
    <2>4. QED
      BY <2>2, <2>3 DEF Begun
  <1>3. CASE CallsStay
    BY <1>3 DEF CallsStay
  <1>4. ASSUME NEW d \in Calls, NEW before, Continues(d, before)
        PROVE  \/ step'[c] = step[c] /\ (phase'[c] = "idle" => phase[c] = "idle")
               \/ step[c] = 1 /\ step'[c] = 2 /\ phase'[c] # "idle"
    <2>1. \E p \in {"connecting", "sent", "answered", "done", "failed"} : phase' = [phase EXCEPT ![d] = p]
      BY <1>4 DEF Continues, Awaits, Enters
    <2>2. \/ step' = step
          \/ step[d] = 1 /\ step' = [step EXCEPT ![d] = 2]
      BY <1>4 DEF Continues, Begins
    <2>3. QED
      BY <2>1, <2>2
  <1>5. CASE \E s \in Connections, result \in {"opened", "lost"} : Wakes(s, result)
    BY <1>5 DEF Wakes
  <1>6. CASE \E s \in Connections : Loses(s)
    BY <1>6 DEF Loses, RejectPending
  <1>7. CASE \E d \in Calls, result \in {"lost", "ok", "refused", "busy"} : Returns(d, result)
    BY <1>7 DEF Returns, Answered, Enters
  <1>8. QED
    BY <1>3, <1>4, <1>5, <1>6, <1>7 DEF CallKind

\* A connection is used for a request that begins.
LEMMA AwaitedSuffice ==
  ASSUME Typed, SocketsSuffice, NEW c \in Calls, NEW before, Awaits(c, before), Begins(c),
         Begun \subseteq Begun'
  PROVE  SocketsSuffice'
  <1> USE DEF Typed, CallTyped, SocketTyped
  <1>1. IsFiniteSet(Begun') /\ IsFiniteSet(Begun) /\ IsFiniteSet(Used)
    <2>1. Begun' \subseteq RequestIDs /\ Begun \subseteq RequestIDs /\ Used \subseteq Connections
      BY DEF Begun, Used
    <2>2. QED
      BY <2>1, AsManyAsRequests, FS_Subset
  <1>2. PICK r \in RequestIDs : r \notin Begun /\ r \in Begun'
    <2>1. phase' = [phase EXCEPT ![c] = "connecting"]
      BY DEF Awaits, Enters
    <2>2. CASE phase[c] = "idle" /\ step' = step
      <3>1. <<c, step[c]>> \in RequestIDs \ Begun
        BY <2>2, BeginsFresh
      <3>2. <<c, step[c]>> \in Begun'
        BY <2>1, <2>2, <3>1 DEF Begun
      <3>3. QED
        BY <3>1, <3>2
    <2>3. CASE phase[c] # "idle" /\ step[c] = 1 /\ step' = [step EXCEPT ![c] = 2]
      <3>1. <<c, 2>> \in RequestIDs \ Begun
        BY <2>3, BeginsFresh
      <3>2. <<c, 2>> \in Begun'
        BY <2>1, <2>3, <3>1 DEF Begun
      <3>3. QED
        BY <3>1, <3>2
    <2>4. QED
      BY <2>2, <2>3 DEF Begins
  <1>3. IsFiniteSet(Begun \cup {r}) /\ Cardinality(Begun \cup {r}) = Cardinality(Begun) + 1
    BY <1>1, <1>2, FS_AddElement
  <1>4. Cardinality(Begun) + 1 <= Cardinality(Begun')
    <2>1. Begun \cup {r} \subseteq Begun'
      BY <1>2
    <2>2. QED
      BY <1>1, <1>3, <2>1, FS_Subset
  <1>5. \E s \in Connections : Used' \subseteq Used \cup {s}
    <2>1. \E s \in Connections : sock' = sock \/ sock' = [sock EXCEPT ![s] = "opening"]
      <3>1. Connections # {}
        <4>1. IsFiniteSet(RequestIDs \ {r}) /\ Cardinality(RequestIDs \ {r}) = Cardinality(RequestIDs) - 1
          BY <1>2, AsManyAsRequests, FS_RemoveElement
        <4>2. Cardinality(RequestIDs \ {r}) \in Nat
          BY <4>1, FS_CardinalityType
        <4>3. Cardinality(Connections) # 0
          BY <4>1, <4>2, AsManyAsRequests
        <4>4. QED
          BY <4>3, FS_EmptySet
      <3>2. QED
        BY <3>1 DEF Awaits, sockets
    <2>2. QED
      BY <2>1 DEF Used
  <1>6. PICK s \in Connections : Used' \subseteq Used \cup {s}
    BY <1>5
  <1>7. IsFiniteSet(Used \cup {s}) /\ Cardinality(Used \cup {s}) <= Cardinality(Used) + 1
    <2>1. CASE s \in Used
      <3>1. Used \cup {s} = Used /\ Cardinality(Used) \in Nat
        BY <1>1, <2>1, FS_CardinalityType
      <3>2. Cardinality(Used \cup {s}) = Cardinality(Used) /\ IsFiniteSet(Used \cup {s})
        BY <1>1, <3>1
      <3>3. QED
        BY <3>1, <3>2
    <2>2. CASE s \notin Used
      <3>1. IsFiniteSet(Used \cup {s}) /\ Cardinality(Used \cup {s}) = Cardinality(Used) + 1
        BY <1>1, <2>2, FS_AddElement
      <3>2. Cardinality(Used) \in Nat
        BY <1>1, FS_CardinalityType
      <3>3. QED
        BY <3>1, <3>2
    <2>3. QED
      BY <2>1, <2>2
  <1>8. IsFiniteSet(Used') /\ Cardinality(Used') <= Cardinality(Used \cup {s})
    BY <1>6, <1>7, FS_Subset
  <1>9. /\ Cardinality(Used) \in Nat /\ Cardinality(Begun) \in Nat /\ Cardinality(Begun') \in Nat
        /\ Cardinality(Used') \in Nat /\ Cardinality(Used \cup {s}) \in Nat
    BY <1>1, <1>7, <1>8, FS_CardinalityType
  <1>10. QED
    BY <1>4, <1>7, <1>8, <1>9 DEF SocketsSuffice

\* All others use the same connections as before.
LEMMA SufficeStep ==
  ASSUME Typed, SocketsOK, SocketsSuffice, CallsOK, Silenced, [Next]_vars
  PROVE  SocketsSuffice'
  <1>1. Begun \subseteq Begun'
    BY CallKindOfStep, BegunStep
  <1>2. CASE Used' \subseteq Used
    <2>1. IsFiniteSet(Begun') /\ IsFiniteSet(Used)
      <3>1. Begun' \subseteq RequestIDs /\ Used \subseteq Connections
        BY DEF Begun, Used
      <3>2. QED
        BY <3>1, AsManyAsRequests, FS_Subset
    <2>2. IsFiniteSet(Begun) /\ Cardinality(Begun) <= Cardinality(Begun')
          /\ IsFiniteSet(Used') /\ Cardinality(Used') <= Cardinality(Used)
      BY <1>1, <1>2, <2>1, FS_Subset
    <2>3. /\ Cardinality(Used) \in Nat /\ Cardinality(Begun) \in Nat /\ Cardinality(Begun') \in Nat
          /\ Cardinality(Used') \in Nat
      BY <2>1, <2>2, FS_CardinalityType
    <2>4. QED
      BY <2>2, <2>3 DEF SocketsSuffice
  <1>3. ASSUME NEW c \in Calls, Dials(c) PROVE SocketsSuffice'
    BY <1>1, <1>3, DialsAwaits, AwaitedSuffice
  <1>4. CASE \A s \in Connections : sock[s] = "free" => sock'[s] = "free"
    BY <1>2, <1>4 DEF Used
  <1>5. CASE UNCHANGED vars \/ UNCHANGED client
    BY <1>4, <1>5 DEF vars, client, sockets
  <1>6. ASSUME NEW c \in Calls, \/ Write(c) \/ Resolved(c) \/ Rejected(c) \/ Subscribed(c) \/ Unsubscribed(c)
                                \/ Timeout(c)
                                \/ Stop(c) /\ phase[c] # "done"
        PROVE  \A s \in Connections : sock[s] = "free" => sock'[s] = "free"
    <2>1. sock' = sock \/ (socket # None /\ sock[socket] = "open" /\ sock' = [sock EXCEPT ![socket] = "dying"])
      BY <1>6 DEF Write, Destroyed, IsOpen, Resolved, Rejected, Subscribed, Unsubscribed, Timeout, Stop,
                  Settles, sockets
    <2>2. QED
      BY <2>1 DEF Typed, SocketTyped
  <1>7. ASSUME NEW s \in Connections, SocketStep(s)
        PROVE  \A t \in Connections : sock[t] = "free" => sock'[t] = "free"
    <2>1. sock[s] # "free" /\ \E state : sock' = [sock EXCEPT ![s] = state]
      BY <1>7 DEF SocketStep, Opened, Refused, Hangup, SocketClosed, Destroyed
    <2>2. QED
      BY <2>1 DEF Typed, SocketTyped
  <1>8. CASE (\E s \in Connections : ReadStep(s)) \/ Close
    <2>1. \/ sock' = sock
          \/ socket # None /\ sock[socket] # "free" /\ \E state : sock' = [sock EXCEPT ![socket] = state]
      BY <1>8 DEF ReadStep, ReadPart, ReadFragment, ReadAnswer, ReadEvent, ReadGarbage, IsOpen, Close,
                  sockets, SocketsOK
    <2>2. QED
      BY <1>4, <2>1 DEF Typed, SocketTyped
  <1>9. \A h \in Handles : h \in Calls
    BY DEF Calls
  <1>10. QED
    BY <1>3, <1>4, <1>5, <1>6, <1>7, <1>8, <1>9, NextSplit DEF ClientStep, RunJob, Dials

-----------------------------------------------------------------------------
(* A siphon that is stopped has no handler. *)

LEMMA SilencedStep ==
  ASSUME Typed, CallsOK, Silenced, [Next]_vars
  PROVE  Silenced'
  <1> USE DEF Typed, CallTyped
  <1>1. CASE UNCHANGED <<step, handlers>> /\ stopped \subseteq stopped'
    BY <1>1 DEF Silenced
  <1>2. CASE UNCHANGED vars \/ UNCHANGED client
    BY <1>1, <1>2 DEF vars, client, calls, siphons
  <1>3. ASSUME NEW h \in Handles, NEW before, Unsubscribe(h, before), h \in stopped',
               stopped \subseteq stopped'
        PROVE  Silenced'
    <2>1. handlers' = handlers \ {h} /\ step' = [step EXCEPT ![h] = 2]
      BY <1>3 DEF Unsubscribe, Forget
    <2>2. h \in Calls
      BY DEF Calls
    <2>3. QED
      BY <1>3, <2>1, <2>2 DEF Silenced
  <1>4. ASSUME NEW h \in Handles, Stop(h) PROVE Silenced'
    <2>1. stopped' = stopped \cup {h}
      BY <1>4 DEF Stop
    <2>2. CASE phase[h] = "done"
      BY <1>3, <1>4, <2>1, <2>2 DEF Stop
    <2>3. CASE phase[h] # "done"
      BY <1>1, <1>4, <2>1, <2>3 DEF Stop, calls
    <2>4. QED
      BY <2>2, <2>3
  <1>5. ASSUME NEW c \in Calls, StopReady(c) PROVE Silenced'
    <2>1. Due(c, "stop") /\ UNCHANGED stopped
      BY <1>5 DEF StopReady
    <2>2. c \in stopped
      BY <2>1, DueFree DEF Fits, Job, Results
    <2>3. QED
      BY <1>3, <1>5, <2>1, <2>2 DEF StopReady
  <1>6. ASSUME NEW c \in Calls, Subscribed(c) PROVE Silenced'
    BY <1>6 DEF Subscribed, Silenced
  <1>7. ASSUME NEW c \in Calls, Retry(c) PROVE Silenced'
    <2>1. c \in Ingests /\ step' = [step EXCEPT ![c] = 2] /\ UNCHANGED <<handlers, stopped>>
      BY <1>7 DEF Retry, siphons
    <2>2. \A h \in Handles : h # c /\ h \in Calls
      BY <2>1, ClientAssumption DEF Calls
    <2>3. QED
      BY <2>1, <2>2 DEF Silenced
  <1>8. ASSUME NEW c \in Calls, Call(c) \/ Write(c) \/ Resolved(c) \/ Rejected(c) \/ Unsubscribed(c) \/ Timeout(c)
        PROVE  UNCHANGED <<step, handlers, stopped>>
    BY <1>8 DEF Call, Write, Resolved, Rejected, Unsubscribed, Timeout, Settles, siphons
  <1>9. ASSUME NEW s \in Connections, SocketStep(s) \/ ReadStep(s)
        PROVE  UNCHANGED <<step, handlers, stopped>>
    BY <1>9 DEF SocketStep, Opened, Refused, Hangup, SocketClosed, ReadStep, ReadPart, ReadFragment,
                ReadAnswer, ReadEvent, ReadGarbage, siphons, calls
  <1>10. CASE Close
    BY <1>1, <1>10 DEF Close, siphons, calls
  <1>11. QED
    BY <1>1, <1>2, <1>4, <1>5, <1>6, <1>7, <1>8, <1>9, <1>10, NextSplit DEF ClientStep, RunJob

-----------------------------------------------------------------------------
(* The answers of the daemon are true. *)

\* What a handler answers: "ok" to an ingest call only with its event stored.
LEMMA HandledTrue ==
  ASSUME Typed, AnswersTrue, RegisteredOnce, ServerNext, NEW s \in Connections, reply'[s] # None
  PROVE  store \subseteq store' /\ StoredIfOk(reply[s].id[1], reply[s].result)'
  <1> USE DEF Typed, ServerTyped
  <1>1. CASE store \subseteq store' /\ reply'[s] = reply[s]
    BY <1>1 DEF AnswersTrue, StoredIfOk
  <1>2. ASSUME NEW t \in Connections, Takes(t), NEW id \in RequestIDs, NEW result, Replies(t, id, result),
               store \subseteq store',
               result = "ok" => id[1] \notin Ingests \/ EventID(id[1]) \in store'
        PROVE  store \subseteq store' /\ StoredIfOk(reply[s].id[1], reply[s].result)'
    <2>1. CASE s = t
      <3>1. reply'[s] = [id |-> id, result |-> result]
        BY <1>2, <2>1 DEF Replies
      <3>2. QED
        BY <1>2, <3>1 DEF StoredIfOk
    <2>2. CASE s # t
      BY <1>1, <1>2, <2>2 DEF Replies
    <2>3. QED
      BY <2>1, <2>2
  <1>3. ASSUME NEW t \in Connections, Takes(t), Head(inbox[t]).action # "event_ingest"
        PROVE  Head(inbox[t]).id[1] \notin Ingests
    <2>1. Head(inbox[t]) \in Requests
      BY <1>3, TakesTyped
    <2>2. QED
      BY <1>3, <2>1, ClientAssumption DEF Requests
  <1>4. ASSUME NEW t \in Connections, HandleIngest(t)
        PROVE  store \subseteq store' /\ StoredIfOk(reply[s].id[1], reply[s].result)'
    <2> DEFINE r == Head(inbox[t])
    <2>1. Takes(t) /\ r.action = "event_ingest" /\ Replies(t, r.id, "ok") /\ store' = store \cup {r.about}
      BY <1>4 DEF HandleIngest
    <2>2. r \in Requests /\ r.id \in RequestIDs
      BY <2>1, TakesTyped
    <2>3. r.about = EventID(r.id[1])
      BY <2>1, <2>2 DEF Requests
    <2>4. QED
      BY <1>2, <2>1, <2>2, <2>3
  <1>5. ASSUME NEW t \in Connections, HandleFails(t)
        PROVE  store \subseteq store' /\ StoredIfOk(reply[s].id[1], reply[s].result)'
    <2>1. Takes(t) /\ UNCHANGED store /\ \E result \in {"refused", "busy"} : Replies(t, Head(inbox[t]).id, result)
      BY <1>5 DEF HandleFails
    <2>2. QED
      BY <1>2, <2>1, TakesTyped
  <1>6. ASSUME NEW t \in Connections, HandleRegister(t) \/ HandleUnregister(t)
        PROVE  store \subseteq store' /\ StoredIfOk(reply[s].id[1], reply[s].result)'
    <2>1. Takes(t) /\ Head(inbox[t]).action # "event_ingest" /\ Replies(t, Head(inbox[t]).id, "ok")
          /\ UNCHANGED store
      BY <1>6 DEF HandleRegister, HandleUnregister
    <2>2. QED
      BY <1>2, <1>3, <2>1, TakesTyped
  <1>7. ASSUME NEW t \in Connections, Answer(t) \/ AnswerExpires(t) \/ HandlerEnds(t) \/ IdleOut(t)
        PROVE  UNCHANGED store /\ reply'[s] = reply[s]
    <2>1. UNCHANGED store /\ (reply' = reply \/ reply' = [reply EXCEPT ![t] = None])
      BY <1>7 DEF Answer, AnswerExpires, Answers, HandlerEnds, IdleOut
    <2>2. QED
      BY <2>1
  <1>8. CASE MeshEvent \/ Shutdown \/ Closed \/ Start
    BY <1>1, <1>8 DEF MeshEvent, Shutdown, Closed, Start, connections
  <1>9. CASE Crash
    BY <1>9 DEF Crash
  <1>10. ASSUME NEW h \in Handles, SubscriptionStep(h) PROVE UNCHANGED <<store, reply>>
    BY <1>10 DEF SubscriptionStep, Deliver, DeliverFails, Disconnect
  <1>11. QED
    BY <1>1, <1>4, <1>5, <1>6, <1>7, <1>8, <1>9, <1>10 DEF ServerNext, ServerStep

LEMMA StoreGrows ==
  ASSUME ServerNext
  PROVE  store \subseteq store'
  BY DEF ServerNext, ServerStep, SubscriptionStep, MeshEvent, Shutdown, Closed, Start, Crash,
         HandleIngest, HandleFails, HandleRegister, HandleUnregister, Answer, AnswerExpires,
         HandlerEnds, IdleOut, Deliver, DeliverFails, Disconnect

\* A line the daemon writes says what its reply says.
LEMMA ServedTrue ==
  ASSUME Typed, AnswersTrue, RegisteredOnce, ServerNext, UNCHANGED client
  PROVE  AnswersTrue'
  <1> USE DEF Typed, ServerTyped
  <1>1. store \subseteq store' /\ UNCHANGED <<jobs, phase>>
    BY StoreGrows DEF client, calls
  <1>2. \A s \in Connections : reply'[s] # None => StoredIfOk(reply[s].id[1], reply[s].result)'
    BY HandledTrue
  <1>3. ASSUME NEW s \in Connections, NEW i \in 1..Len(wire'[s]),
               wire'[s][i].part # "begin", wire'[s][i].message \in Responses
        PROVE  StoredIfOk(wire[s][i].message.id[1], wire[s][i].message.result)'
    <2>1. CASE i \in 1..Len(wire[s]) /\ wire'[s][i] = wire[s][i]
      BY <1>1, <1>3, <2>1 DEF AnswersTrue, StoredIfOk
    <2>2. CASE wire'[s] = wire[s]
      BY <1>3, <2>1, <2>2
    <2>3. ASSUME NEW line \in Lines, Writes(s, line), wire'[s] = Append(wire[s], line)
          PROVE  StoredIfOk(wire[s][i].message.id[1], wire[s][i].message.result)'
      <3>1. /\ Len(wire'[s]) = Len(wire[s]) + 1 /\ wire'[s][Len(wire[s]) + 1] = line
            /\ \A j \in 1..Len(wire[s]) : wire'[s][j] = wire[s][j]
            /\ Len(wire[s]) \in Nat
        BY <2>3, AppendSeq
      <3>2. CASE i \in 1..Len(wire[s])
        BY <2>1, <3>1, <3>2
      <3>3. CASE i = Len(wire[s]) + 1
        <4>1. line.part # "begin" /\ line.message \in Responses
          BY <1>3, <3>1, <3>3
        <4>2. \A h \in Handles, e \in Nat : [sub |-> h, event |-> e] \in Pushes
          BY DEF Pushes
        <4>3. reply[s] # None /\ line = Whole(reply[s])
          BY <2>3, <4>1, <4>2, Messages DEF Writes, Fragment, Whole
        <4>4. StoredIfOk(line.message.id[1], line.message.result)
          BY <4>3 DEF AnswersTrue, Whole
        <4>5. QED
          BY <1>1, <3>1, <3>3, <4>4 DEF StoredIfOk
      <3>4. QED
        BY <3>1, <3>2, <3>3
    <2>4. Serving(s)
      BY AllServing
    <2>5. QED
      BY <2>2, <2>3, <2>4 DEF Serving
  <1>4. /\ \A job \in Range(jobs') : StoredIfOk(job.call, job.result)'
        /\ \A c \in Ingests : phase'[c] = "done" => EventID(c) \in store'
    BY <1>1 DEF AnswersTrue, StoredIfOk
  <1>5. QED
    BY <1>2, <1>3, <1>4 DEF AnswersTrue

\* The jobs of a step that say "ok" were due before, or an answer says so.
LEMMA JobsOfStep ==
  ASSUME Typed, CallsOK, CallKind, NEW job \in Range(jobs'), job.result = "ok"
  PROVE  job \in Range(jobs) \/ Told(job.call, "ok")
  <1> USE DEF Typed, CallTyped
  <1>1. CASE CallsStay
    BY <1>1 DEF CallsStay
  <1>2. ASSUME NEW c \in Calls, NEW before, Continues(c, before) PROVE job \in Range(jobs)
    <2>1. before \in Seq(JobSet) /\ Range(before) \subseteq Range(jobs)
      BY <1>2 DEF Continues, Free
    <2>2. \/ jobs' = before
          \/ jobs' = jobs
          \/ \E result \in {"opened", "lost", "stop"} : jobs' = Append(before, Job(c, result))
      BY <1>2 DEF Continues, Awaits
    <2>3. \A result \in {"opened", "lost", "stop"} :
            Range(Append(before, Job(c, result))) = Range(before) \cup {Job(c, result)}
            /\ Job(c, result).result = result
      BY <2>1, JobsAppend DEF Results
    <2>4. QED
      BY <2>1, <2>2, <2>3
  <1>3. ASSUME NEW s \in Connections, NEW result \in {"opened", "lost"}, Wakes(s, result)
        PROVE  job \in Range(jobs)
    <2>1. Range(jobs') = Range(jobs) \cup {Job(c, result) : c \in Range(waiting[s])}
      BY <1>3, JobsConcat DEF Wakes, Settled, Results
    <2>2. QED
      BY <1>3, <2>1 DEF Job
  <1>4. ASSUME NEW s \in Connections, Loses(s) PROVE job \in Range(jobs)
    <2> DEFINE lost == jobs \o Jobs(pending, "lost")
    <2>1. lost \in Seq(JobSet) /\ Range(lost) = Range(jobs) \cup {Job(c, "lost") : c \in Range(pending)}
      BY JobsConcat DEF Results
    <2>2. \A c : Job(c, "lost").result = "lost"
      BY DEF Job
    <2>3. jobs' = lost \o <<>> \/ jobs' = lost \o Jobs(waiting[s], "lost")
      BY <1>4 DEF Loses, RejectPending
    <2> HIDE DEF lost
    <2>4. lost \o <<>> = lost
      BY <2>1, ConcatEmptySeq
    <2>5. Range(lost \o Jobs(waiting[s], "lost")) = Range(lost) \cup {Job(c, "lost") : c \in Range(waiting[s])}
      BY <2>1, JobsConcat DEF Results
    <2>6. Range(jobs') = Range(lost) \/ Range(jobs') = Range(lost) \cup {Job(c, "lost") : c \in Range(waiting[s])}
      BY <2>3, <2>4, <2>5
    <2>7. job \in Range(lost)
      BY <2>2, <2>6
    <2>8. QED
      BY <2>1, <2>2, <2>7
  <1>5. ASSUME NEW c \in Calls, NEW result \in {"lost", "ok", "refused", "busy"}, Returns(c, result),
               result = "lost" \/ Told(c, result)
        PROVE  job \in Range(jobs) \/ Told(job.call, "ok")
    <2>1. Range(jobs') = Range(jobs) \cup {Job(c, result)}
      BY <1>5, JobsAppend DEF Returns, Answered, Results
    <2>2. Job(c, result).call = c /\ Job(c, result).result = result
      BY DEF Job
    <2>3. QED
      BY <1>5, <2>1, <2>2
  <1>6. QED
    BY <1>1, <1>2, <1>3, <1>4, <1>5 DEF CallKind

\* An ingest call ends well only with an answer that says so.
LEMMA DoneOfStep ==
  ASSUME Typed, CallsOK, CallKind, NEW c \in Ingests, phase'[c] = "done"
  PROVE  phase[c] = "done" \/ Job(c, "ok") \in Range(jobs)
  <1> USE DEF Typed, CallTyped
  <1>1. c \in Calls /\ c \notin stopped
    BY ClientAssumption DEF Calls
  <1>2. ASSUME NEW d \in Calls, NEW before, Continues(d, before)
        PROVE  phase[c] = "done" \/ Job(c, "ok") \in Range(jobs)
    <2>1. \/ \E p \in {"connecting", "sent", "answered", "failed"} : phase' = [phase EXCEPT ![d] = p]
          \/ phase' = [phase EXCEPT ![d] = "done"] /\ (Job(d, "ok") \in Range(jobs) \/ d \in stopped)
      BY <1>2 DEF Continues, Awaits, Enters
    <2>2. QED
      BY <1>1, <2>1
  <1>3. CASE CallsStay
    BY <1>3 DEF CallsStay
  <1>4. CASE \E s \in Connections, result \in {"opened", "lost"} : Wakes(s, result)
    BY <1>4 DEF Wakes
  <1>5. CASE \E s \in Connections : Loses(s)
    BY <1>1, <1>5 DEF Loses, RejectPending
  <1>6. CASE \E d \in Calls, result \in {"lost", "ok", "refused", "busy"} : Returns(d, result)
    BY <1>1, <1>6 DEF Returns, Answered, Enters
  <1>7. QED
    BY <1>2, <1>3, <1>4, <1>5, <1>6 DEF CallKind

LEMMA AnswersStep ==
  ASSUME Typed, SocketsOK, CallsOK, AnswersTrue, RegisteredOnce, [Next]_vars, CallKind
  PROVE  AnswersTrue'
  <1> USE DEF Typed, ServerTyped
  <1>1. CASE ServerNext /\ UNCHANGED client
    BY <1>1, ServedTrue
  <1>2. CASE UNCHANGED vars
    BY <1>2 DEF vars, served, connections, client, calls, AnswersTrue, StoredIfOk
  <1>3. CASE ClientStep
    <2>1. UNCHANGED <<reply, store>> /\ \A t \in Connections : Reading(t)
      BY <1>3, ClientMinds DEF Minding
    <2>2. \A s \in Connections : reply'[s] # None => StoredIfOk(reply[s].id[1], reply[s].result)'
      BY <2>1 DEF AnswersTrue, StoredIfOk
    <2>3. \A s \in Connections : \A i \in 1..Len(wire'[s]) :
            wire'[s][i].part # "begin" /\ wire'[s][i].message \in Responses =>
              StoredIfOk(wire[s][i].message.id[1], wire[s][i].message.result)'
      <3>1. SUFFICES ASSUME NEW s \in Connections, NEW i \in 1..Len(wire'[s]),
                            wire'[s][i].part # "begin", wire'[s][i].message \in Responses
                     PROVE  StoredIfOk(wire[s][i].message.id[1], wire[s][i].message.result)'
        OBVIOUS
      <3>2. PICK j \in 1..Len(wire[s]) : wire'[s][i].message = wire[s][j].message
                                         /\ wire[s][j].part # "begin"
        BY <2>1, <3>1 DEF Reading
      <3>3. QED
        BY <2>1, <3>1, <3>2 DEF AnswersTrue, StoredIfOk
    <2>4. \A c \in Calls : Told(c, "ok") => StoredIfOk(c, "ok")
      <3>1. ASSUME NEW s \in Connections, wire[s] # <<>>
            PROVE  1 \in 1..Len(wire[s]) /\ Head(wire[s]) = wire[s][1]
        <4>1. wire[s] \in Seq(Lines) /\ wire[s] # <<>>
          BY <3>1
        <4>2. QED
          BY <4>1
      <3>2. QED
        BY <3>1 DEF AnswersTrue, Told
    <2>5. ASSUME NEW job \in Range(jobs') PROVE StoredIfOk(job.call, job.result)'
      <3>1. job.call \in Calls
        <4>1. jobs' \in Seq(JobSet)
          BY CallsStep DEF CallTyped
        <4>2. job \in JobSet
          BY <4>1, RangeOf
        <4>3. QED
          BY <4>2 DEF JobSet
      <3>2. job.result = "ok" => StoredIfOk(job.call, "ok")
        BY <2>4, <3>1, JobsOfStep DEF AnswersTrue
      <3>3. QED
        BY <2>1, <3>2 DEF StoredIfOk
    <2>6. ASSUME NEW c \in Ingests, phase'[c] = "done" PROVE EventID(c) \in store'
      <3>1. phase[c] = "done" \/ Job(c, "ok") \in Range(jobs)
        BY <2>6, DoneOfStep
      <3>2. Job(c, "ok").call = c /\ Job(c, "ok").result = "ok"
        BY DEF Job
      <3>3. QED
        BY <2>1, <3>1, <3>2 DEF AnswersTrue, StoredIfOk
    <2>7. QED
      BY <2>2, <2>3, <2>5, <2>6 DEF AnswersTrue
  <1>4. QED
    BY <1>1, <1>2, <1>3, NextSplit

-----------------------------------------------------------------------------
(* What the daemon does to a subscription. *)

\* It reads the requests in their order, or drops them.
LEMMA InboxServed ==
  ASSUME Typed, ServerNext, NEW t \in Connections
  PROVE  \E n \in {0, 1} : \A i \in 1..Len(inbox'[t]) :
           i + n \in 1..Len(inbox[t]) /\ inbox'[t][i] = inbox[t][i + n]
  <1> USE DEF Typed, ServerTyped
  <1>1. inbox[t] \in Seq(Requests) /\ Len(inbox[t]) \in Nat
    OBVIOUS
  <1>2. CASE inbox'[t] = inbox[t]
    <2>1. \A i \in 1..Len(inbox'[t]) : i + 0 \in 1..Len(inbox[t]) /\ inbox'[t][i] = inbox[t][i + 0]
      BY <1>1, <1>2
    <2>2. QED
      BY <2>1
  <1>3. CASE inbox'[t] = <<>>
    BY <1>3
  <1>4. ASSUME NEW s \in Connections, Takes(s)
        PROVE  inbox'[t] = inbox[t] \/ (inbox[t] # <<>> /\ inbox'[t] = Tail(inbox[t]))
    BY <1>4 DEF Takes
  <1>5. CASE inbox[t] # <<>> /\ inbox'[t] = Tail(inbox[t])
    <2>1. \A i \in 1..Len(Tail(inbox[t])) : i + 1 \in 1..Len(inbox[t]) /\ Tail(inbox[t])[i] = inbox[t][i + 1]
      BY <1>1, <1>5, TailSeq
    <2>2. QED
      BY <1>5, <2>1
  <1>6. ASSUME NEW s \in Connections, ServerStep(s)
        PROVE  Takes(s) \/ inbox'[t] = inbox[t] \/ inbox'[t] = <<>>
    BY <1>6 DEF ServerStep, HandleIngest, HandleFails, HandleRegister, HandleUnregister, Answer,
                AnswerExpires, HandlerEnds, IdleOut, Leaves
  <1>7. CASE MeshEvent \/ Shutdown \/ Closed \/ Start \/ Crash
    BY <1>2, <1>3, <1>7 DEF MeshEvent, Shutdown, Closed, Start, Crash, connections
  <1>8. ASSUME NEW h \in Handles, SubscriptionStep(h) PROVE inbox'[t] = inbox[t]
    BY <1>8 DEF SubscriptionStep, Deliver, DeliverFails, Disconnect
  <1>9. QED
    BY <1>2, <1>3, <1>4, <1>5, <1>6, <1>7, <1>8 DEF ServerNext

\* A siphon is registered once, and stays where it is.
Registers(h) ==
  /\ sub[h] = "none" /\ sub'[h] = "on" /\ since'[h] = published /\ queue' = queue
  /\ UNCHANGED <<published, wire, peer, missed>>
  /\ \E s \in Connections : LET r == Head(inbox[s]) IN
       /\ inbox[s] # <<>> /\ r.action = "siphon_register" /\ r.about = h
       /\ home'[h] = s /\ inbox' = [inbox EXCEPT ![s] = Tail(@)]

Unregistered(h) == sub[h] = "none" /\ sub'[h] = "none" /\ queue'[h] = queue[h]

Stays(h) == sub[h] # "none" /\ sub'[h] # "none" /\ home'[h] = home[h] /\ since'[h] = since[h]

LEMMA SubsServed ==
  ASSUME Typed, RegisteredOnce, ServerNext, NEW h \in Handles
  PROVE  Unregistered(h) \/ Registers(h) \/ Stays(h)
  <1> USE DEF Typed, ServerTyped
  <1>1. ASSUME \A g \in Handles : /\ sub[g] # "none" => sub'[g] # "none"
                                  /\ sub[g] = "none" => sub'[g] = "none" /\ queue'[g] = queue[g],
               UNCHANGED <<home, since>>
        PROVE  Unregistered(h) \/ Stays(h)
    BY <1>1 DEF Unregistered, Stays
  <1>2. \A hs : \A g \in Handles : /\ sub[g] # "none" => Removed(hs)[g] # "none"
                                   /\ sub[g] = "none" => Removed(hs)[g] = "none"
    BY DEF Removed
  <1>3. ASSUME NEW who, Broadcast(who), UNCHANGED <<sub, home, since>> PROVE Unregistered(h) \/ Stays(h)
    BY <1>1, <1>3 DEF Broadcast, Listening
  <1>4. ASSUME NEW s \in Connections, HandleRegister(s) PROVE Unregistered(h) \/ Registers(h) \/ Stays(h)
    <2> DEFINE r == Head(inbox[s])
    <2>1. Takes(s) /\ r.action = "siphon_register"
          /\ sub' = [sub EXCEPT ![r.about] = "on"] /\ home' = [home EXCEPT ![r.about] = s]
          /\ since' = [since EXCEPT ![r.about] = published]
          /\ UNCHANGED <<published, wire, peer, missed, queue>>
      BY <1>4 DEF HandleRegister
    <2>2. r \in Requests /\ inbox[s] \in Seq(Requests) /\ inbox[s] # <<>>
          /\ inbox' = [inbox EXCEPT ![s] = Tail(@)]
      BY <2>1, TakesTyped DEF Takes
    <2>3. r.about \in Handles /\ 1 \in 1..Len(inbox[s]) /\ r = inbox[s][1]
      BY <2>1, <2>2, ClientAssumption DEF Requests
    <2>4. sub[r.about] = "none"
      BY <2>1, <2>3 DEF RegisteredOnce, Asks
    <2> HIDE DEF r
    <2>5. CASE r.about = h
      BY <2>1, <2>2, <2>4, <2>5 DEF Registers, r
    <2>6. CASE r.about # h
      BY <2>1, <2>3, <2>6 DEF Unregistered, Stays
    <2>7. QED
      BY <2>5, <2>6
  <1>5. ASSUME NEW s \in Connections,
               \/ HandleIngest(s) \/ HandleFails(s) \/ HandleUnregister(s) \/ Answer(s) \/ AnswerExpires(s)
               \/ HandlerEnds(s) \/ IdleOut(s)
        PROVE  Unregistered(h) \/ Stays(h)
    <2>1. CASE HandleIngest(s)
      BY <1>1, <1>3, <2>1 DEF HandleIngest, subscriptions
    <2>2. CASE HandleFails(s) \/ Answer(s) \/ AnswerExpires(s)
      BY <1>1, <2>2 DEF HandleFails, Answer, AnswerExpires, subscriptions
    <2>3. CASE HandleUnregister(s) \/ HandlerEnds(s) \/ IdleOut(s)
      <3>1. UNCHANGED <<queue, home, since>> /\ \E hs : sub' = Removed(hs)
        BY <2>3 DEF HandleUnregister, HandlerEnds, IdleOut, Leaves
      <3>2. QED
        BY <1>1, <1>2, <3>1
    <2>4. QED
      BY <1>5, <2>1, <2>2, <2>3
  <1>6. CASE MeshEvent
    BY <1>3, <1>6 DEF MeshEvent
  <1>7. CASE Shutdown \/ Closed \/ Start
    BY <1>1, <1>7 DEF Shutdown, Closed, Start, subscriptions
  <1>8. CASE Crash
    <2>1. sub' = Removed(Handles) /\ UNCHANGED <<home, since>> /\ \A g \in Handles : queue'[g] = <<>>
      BY <1>8 DEF Crash
    <2>2. \A g \in Handles : sub[g] = "none" => queue[g] = <<>>
      BY DEF RegisteredOnce
    <2>3. QED
      BY <1>1, <1>2, <2>1, <2>2
  <1>9. ASSUME NEW g \in Handles, Deliver(g) \/ DeliverFails(g) PROVE Unregistered(h) \/ Stays(h)
    <2>1. sub[g] # "none"
      BY <1>9 DEF RegisteredOnce, Deliver, DeliverFails
    <2>2. UNCHANGED <<home, since>> /\ (sub' = sub \/ sub' = [sub EXCEPT ![g] = "off"])
          /\ \E w : queue' = [queue EXCEPT ![g] = w]
      BY <1>9 DEF Deliver, DeliverFails
    <2>3. QED
      BY <1>1, <2>1, <2>2
  <1>10. ASSUME NEW g \in Handles, NEW who \in Broadcasters, Disconnect(g, who)
         PROVE  Unregistered(h) \/ Stays(h)
    BY <1>1, <1>2, <1>10 DEF Disconnect
  <1>11. QED
    BY <1>4, <1>5, <1>6, <1>7, <1>8, <1>9, <1>10 DEF ServerNext, ServerStep, SubscriptionStep

-----------------------------------------------------------------------------
(* What the client does to a siphon. *)

\* No event of h that can still be read is lost.
Keeps(h) ==
  \A t \in Connections : peer'[t] # "gone" =>
    \A b, q \in Nat : Carries(wire[t], h, b, q) => Carries(wire'[t], h, b, q)

Unconcerned(h) ==
  /\ handled'[h] = handled[h] /\ early'[h] = early[h] /\ (h \in handlers' => h \in handlers)
  /\ Keeps(h) \/ garbled'

Forgotten(h) == step'[h] = 2 /\ handled'[h] = handled[h] /\ early'[h] = <<>>

Subscribes(h) ==
  /\ step[h] = 1 /\ wire' = wire
  /\ handled'[h] = handled[h] \o early[h] /\ early'[h] = <<>>

Gives(h) ==
  \E s \in Connections : LET line == Head(wire[s]) IN
    /\ sock[s] \in {"open", "ending"} /\ wire[s] # <<>> /\ IsPush(line, h)
    /\ wire' = [wire EXCEPT ![s] = Tail(@)] /\ UNCHANGED <<handlers, peer>>
    /\ \/ h \in handlers /\ handled'[h] = Append(handled[h], line.message.event) /\ early'[h] = early[h]
       \/ h \notin handlers /\ early'[h] = Append(early[h], line.message.event) /\ handled'[h] = handled[h]
       \/ spilled'[h] /\ handled'[h] = handled[h] /\ early'[h] = early[h]

\* A line that holds no event of h is read.
LEMMA ReadsOther ==
  ASSUME Typed, NEW h \in Handles, NEW s \in Connections, wire[s] # <<>>, ~IsPush(Head(wire[s]), h),
         wire' = [wire EXCEPT ![s] = Tail(@)]
  PROVE  Keeps(h)
  <1>1. SUFFICES ASSUME NEW t \in Connections, NEW b \in Nat, NEW q \in Nat, Carries(wire[t], h, b, q)
                 PROVE  Carries(wire'[t], h, b, q)
    BY DEF Keeps
  <1>2. wire[s] \in Seq(Lines) /\ wire'[t] = IF t = s THEN Tail(wire[s]) ELSE wire[t]
    BY DEF Typed, ServerTyped
  <1>3. CASE t = s
    BY <1>1, <1>2, <1>3, CarriesRead
  <1>4. CASE t # s
    BY <1>1, <1>2, <1>4
  <1>5. QED
    BY <1>3, <1>4

LEMMA ReadStepSiphon ==
  ASSUME Typed, SocketsOK, NEW s \in Connections, ReadStep(s), NEW h \in Handles
  PROVE  Unconcerned(h) \/ Gives(h)
  <1> USE DEF Typed, ServerTyped, SiphonTyped
  <1>1. CASE ReadPart(s)
    <2>1. /\ \A t \in Connections \ {s} : wire'[t] = wire[t]
          /\ wire[s] \in Seq(Lines) /\ wire'[s] \in Seq(Lines) /\ Len(wire'[s]) = Len(wire[s])
          /\ \A i \in 1..Len(wire[s]) : wire'[s][i].message = wire[s][i].message
                                       /\ (wire'[s][i].part = "begin" <=> wire[s][i].part = "begin")
      BY <1>1, PartRead DEF ReadPart, Readable
    <2>2. \A i \in 1..Len(wire[s]) : IsPush(wire'[s][i], h) <=> IsPush(wire[s][i], h)
      BY <2>1 DEF IsPush
    <2>3. ASSUME NEW t \in Connections, NEW b \in Nat, NEW q \in Nat, Carries(wire[t], h, b, q)
          PROVE  Carries(wire'[t], h, b, q)
      <3>1. CASE t = s
        BY <2>1, <2>2, <2>3, <3>1, CarriesSame
      <3>2. CASE t # s
        BY <2>1, <2>3, <3>2
      <3>3. QED
        BY <3>1, <3>2
    <2>4. UNCHANGED siphons
      BY <1>1 DEF ReadPart
    <2>5. QED
      BY <2>3, <2>4 DEF Unconcerned, Keeps, siphons
  <1>2. CASE ReadFragment(s) \/ ReadAnswer(s)
    <2>1. wire[s] # <<>> /\ wire' = [wire EXCEPT ![s] = Tail(@)] /\ UNCHANGED siphons
      BY <1>2 DEF ReadFragment, ReadAnswer, Takeaway, Readable
    <2>2. ~IsPush(Head(wire[s]), h)
      BY <1>2, ReadsMessage DEF ReadFragment, ReadAnswer, IsPush
    <2>3. QED
      BY <2>1, <2>2, ReadsOther DEF Unconcerned, siphons
  <1>3. CASE ReadEvent(s)
    <2> DEFINE m == Head(wire[s]).message
    <2>1. m \in Pushes /\ wire[s] # <<>> /\ (IsPush(Head(wire[s]), h) <=> m.sub = h)
          /\ wire' = [wire EXCEPT ![s] = Tail(@)] /\ sock[s] \in {"open", "ending"}
          /\ UNCHANGED <<handlers, peer>>
      BY <1>3, ReadsMessage DEF ReadEvent, Takeaway, Readable
    <2>2. m.sub \in Handles
      BY <2>1 DEF Pushes
    <2>3. \/ /\ m.sub \in handlers
             /\ handled' = [handled EXCEPT ![m.sub] = Append(@, m.event)] /\ UNCHANGED <<early, spilled>>
          \/ /\ m.sub \notin handlers
             /\ early' = [early EXCEPT ![m.sub] = Append(@, m.event)] /\ UNCHANGED <<handled, spilled>>
          \/ spilled' = [spilled EXCEPT ![m.sub] = TRUE] /\ UNCHANGED <<handled, early>>
      BY <1>3 DEF ReadEvent
    <2>4. CASE m.sub = h
      <3>1. \/ h \in handlers /\ handled'[h] = Append(handled[h], m.event) /\ early'[h] = early[h]
            \/ h \notin handlers /\ early'[h] = Append(early[h], m.event) /\ handled'[h] = handled[h]
            \/ spilled'[h] /\ handled'[h] = handled[h] /\ early'[h] = early[h]
        BY <2>3, <2>4
      <3>2. QED
        BY <2>1, <2>4, <3>1 DEF Gives
    <2>5. CASE m.sub # h
      <3>1. handled'[h] = handled[h] /\ early'[h] = early[h]
        BY <2>2, <2>3, <2>5
      <3>2. QED
        BY <2>1, <2>5, <3>1, ReadsOther DEF Unconcerned
    <2>6. QED
      BY <2>4, <2>5
  <1>4. CASE ReadGarbage(s)
    <2>1. UNCHANGED <<handlers, handled, early>>
      BY <1>4 DEF ReadGarbage
    <2>2. CASE s # socket
      BY <1>4, <2>1, <2>2 DEF ReadGarbage, Unconcerned
    <2>3. CASE s = socket
      <3>1. sock[socket] = "open" /\ socket # None
        BY <1>4, <2>3, ServerAssumption DEF ReadGarbage, Readable, SocketsOK
      <3>2. peer' = [peer EXCEPT ![s] = "gone"] /\ \A t \in Connections \ {s} : wire'[t] = wire[t]
        BY <1>4, <2>3, <3>1 DEF ReadGarbage, IsOpen
      <3>3. Keeps(h)
        BY <3>2 DEF Keeps
      <3>4. QED
        BY <2>1, <3>3 DEF Unconcerned
    <2>4. QED
      BY <2>2, <2>3
  <1>5. QED
    BY <1>1, <1>2, <1>3, <1>4 DEF ReadStep

LEMMA ClientSiphon ==
  ASSUME Typed, SocketsOK, CallsOK, ClientStep, NEW h \in Handles
  PROVE  Unconcerned(h) \/ Forgotten(h) \/ Subscribes(h) \/ Gives(h)
  <1> USE DEF Typed, ServerTyped, SiphonTyped, CallTyped
  <1>1. CASE wire' = wire /\ UNCHANGED <<handlers, handled, early>>
    BY <1>1 DEF Unconcerned, Keeps
  <1>2. ASSUME NEW s \in Connections, Destroyed(s), UNCHANGED <<handlers, handled, early>>
        PROVE  Unconcerned(h)
    <2>1. peer'[s] = "gone" /\ \A t \in Connections \ {s} : wire'[t] = wire[t]
      BY <1>2 DEF Destroyed
    <2>2. QED
      BY <1>2, <2>1 DEF Unconcerned, Keeps
  <1>3. ASSUME NEW g \in Handles, NEW before, Unsubscribe(g, before) PROVE Unconcerned(h) \/ Forgotten(h)
    <2>1. handlers' = handlers \ {g} /\ early' = [early EXCEPT ![g] = <<>>] /\ step' = [step EXCEPT ![g] = 2]
          /\ UNCHANGED <<wire, handled>> /\ g \in Calls
      BY <1>3 DEF Unsubscribe, Forget, served, connections, Calls
    <2>2. CASE g = h
      BY <2>1, <2>2 DEF Forgotten
    <2>3. CASE g # h
      BY <2>1, <2>3 DEF Unconcerned, Keeps
    <2>4. QED
      BY <2>2, <2>3
  <1>4. ASSUME NEW g \in Handles, Stop(g) PROVE Unconcerned(h) \/ Forgotten(h)
    <2>1. CASE phase[g] = "done"
      BY <1>3, <1>4, <2>1 DEF Stop
    <2>2. CASE phase[g] # "done"
      BY <1>1, <1>4, <2>2 DEF Stop, served, connections, Unconcerned, Keeps
    <2>3. QED
      BY <2>1, <2>2
  <1>5. ASSUME NEW c \in Calls, StopReady(c) PROVE Unconcerned(h) \/ Forgotten(h)
    <2>1. c \in Handles
      BY <1>5, DueFree DEF StopReady, Fits, Job, Results
    <2>2. QED
      BY <1>3, <1>5, <2>1 DEF StopReady
  <1>6. ASSUME NEW c \in Calls, Subscribed(c) PROVE Unconcerned(h) \/ Subscribes(h)
    <2>1. /\ c \in Handles /\ step[c] = 1 /\ UNCHANGED wire /\ handlers' = handlers \cup {c}
          /\ handled' = [handled EXCEPT ![c] = @ \o early[c]] /\ early' = [early EXCEPT ![c] = <<>>]
      BY <1>6 DEF Subscribed, served, connections
    <2>2. CASE c = h
      BY <2>1, <2>2 DEF Subscribes
    <2>3. CASE c # h
      BY <2>1, <2>3 DEF Unconcerned, Keeps
    <2>4. QED
      BY <2>2, <2>3
  <1>7. ASSUME NEW c \in Calls, Write(c) PROVE Unconcerned(h)
    <2>1. UNCHANGED <<handlers, handled, early>> /\ socket \in Connections \cup {None}
      BY <1>7 DEF Write, siphons, SocketTyped
    <2>2. wire' = wire \/ (socket # None /\ Destroyed(socket))
      BY <1>7 DEF Write, IsOpen
    <2>3. QED
      BY <1>2, <2>1, <2>2 DEF Unconcerned, Keeps
  <1>8. ASSUME NEW c \in Calls, Call(c) \/ Resolved(c) \/ Rejected(c) \/ Retry(c) \/ Unsubscribed(c) \/ Timeout(c)
        PROVE  wire' = wire /\ UNCHANGED <<handlers, handled, early>>
    BY <1>8 DEF Call, Resolved, Rejected, Retry, Unsubscribed, Timeout, Settles, siphons, served, connections
  <1>9. ASSUME NEW s \in Connections, Opened(s) \/ Refused(s) \/ SocketClosed(s)
        PROVE  wire' = wire /\ UNCHANGED <<handlers, handled, early>>
    BY <1>9 DEF Opened, Refused, SocketClosed, siphons, served, connections
  <1>10. ASSUME NEW s \in Connections, Hangup(s) PROVE Unconcerned(h)
    BY <1>2, <1>10 DEF Hangup, siphons
  <1>11. CASE Close
    BY <1>1, <1>11 DEF Close, siphons
  <1>12. ASSUME NEW s \in Connections, ReadStep(s) PROVE Unconcerned(h) \/ Gives(h)
    BY <1>12, ReadStepSiphon
  <1>13. QED
    BY <1>1, <1>4, <1>5, <1>6, <1>7, <1>8, <1>9, <1>10, <1>11, <1>12 DEF ClientStep, RunJob, SocketStep

-----------------------------------------------------------------------------
(* A siphon is registered at most once. *)

\* What has been written stays written, and no request comes back.
LEMMA StepsOn ==
  ASSUME Typed, CallsOK, CallKind, NEW c \in Calls
  PROVE  /\ step'[c] = 1 => step[c] = 1
         /\ Unwritten(c)' => Unwritten(c)
  <1> USE DEF Typed, CallTyped
  <1>1. CASE CallsStay
    BY <1>1 DEF CallsStay, Unwritten
  <1>2. ASSUME NEW d \in Calls, NEW before, Continues(d, before)
        PROVE  /\ step'[c] = 1 => step[c] = 1
               /\ Unwritten(c)' => Unwritten(c)
    <2>1. \/ phase' = [phase EXCEPT ![d] = "connecting"] /\ Begins(d)
          \/ step' = step /\ \E p \in {"sent", "answered", "done", "failed"} : phase' = [phase EXCEPT ![d] = p]
      BY <1>2 DEF Continues, Awaits, Enters
    <2>2. CASE phase' = [phase EXCEPT ![d] = "connecting"] /\ Begins(d)
      BY <2>2 DEF Begins, Unwritten
    <2>3. CASE step' = step /\ \E p \in {"sent", "answered", "done", "failed"} : phase' = [phase EXCEPT ![d] = p]
      BY <2>3 DEF Unwritten
    <2>4. QED
      BY <2>1, <2>2, <2>3
  <1>3. CASE \E s \in Connections, result \in {"opened", "lost"} : Wakes(s, result)
    BY <1>3 DEF Wakes, Unwritten
  <1>4. CASE \E s \in Connections : Loses(s)
    BY <1>4 DEF Loses, RejectPending, Unwritten
  <1>5. CASE \E d \in Calls, result \in {"lost", "ok", "refused", "busy"} : Returns(d, result)
    BY <1>5 DEF Returns, Answered, Enters, Unwritten
  <1>6. QED
    BY <1>1, <1>2, <1>3, <1>4, <1>5 DEF CallKind

LEMMA ServedOnce ==
  ASSUME Typed, RegisteredOnce, ServerNext, UNCHANGED client
  PROVE  RegisteredOnce'
  <1> USE DEF Typed, ServerTyped
  <1>1. UNCHANGED <<handled, early, step, phase>>
    BY DEF client, siphons, calls
  <1>2. \A h \in Handles : Unwritten(h)' <=> Unwritten(h)
    BY <1>1 DEF Unwritten
  <1>3. ASSUME NEW h \in Handles, NEW s \in Connections
        PROVE  \E n \in {0, 1} : \A i \in 1..Len(inbox'[s]) : Asks(s, i, h)' =>
                 i + n \in 1..Len(inbox[s]) /\ Asks(s, i + n, h)
    <2>1. PICK n \in {0, 1} : \A i \in 1..Len(inbox'[s]) :
                                i + n \in 1..Len(inbox[s]) /\ inbox'[s][i] = inbox[s][i + n]
      BY InboxServed
    <2>2. \A i \in 1..Len(inbox'[s]) : Asks(s, i, h)' => i + n \in 1..Len(inbox[s]) /\ Asks(s, i + n, h)
      BY <2>1 DEF Asks
    <2>3. QED
      BY <2>2
  <1>4. ASSUME NEW h \in Handles, NEW s \in Connections, NEW i \in 1..Len(inbox'[s]), Asks(s, i, h)'
        PROVE  /\ sub'[h] = "none" /\ ~Unwritten(h)'
               /\ \A t \in Connections : \A j \in 1..Len(inbox'[t]) : Asks(t, j, h)' => s = t /\ i = j
    <2>1. PICK n \in {0, 1} : \A j \in 1..Len(inbox'[s]) : Asks(s, j, h)' =>
                                j + n \in 1..Len(inbox[s]) /\ Asks(s, j + n, h)
      BY <1>3
    <2>2. i + n \in 1..Len(inbox[s]) /\ Asks(s, i + n, h)
      BY <1>4, <2>1
    <2>3. /\ sub[h] = "none" /\ ~Unwritten(h)
          /\ \A t \in Connections : \A j \in 1..Len(inbox[t]) : Asks(t, j, h) => s = t /\ i + n = j
      BY <2>2 DEF RegisteredOnce
    <2>4. ASSUME NEW t \in Connections, NEW j \in 1..Len(inbox'[t]), Asks(t, j, h)' PROVE s = t /\ i = j
      <3>1. s = t
        BY <1>3, <2>3, <2>4
      <3>2. i + n = j + n
        BY <2>1, <2>3, <2>4, <3>1
      <3>3. i \in Int /\ j \in Int /\ n \in Int
        OBVIOUS
      <3>4. QED
        BY <3>1, <3>2, <3>3
    <2>5. ~Registers(h)
      <3>1. SUFFICES ASSUME NEW u \in Connections, inbox[u] # <<>>, inbox' = [inbox EXCEPT ![u] = Tail(@)],
                            Head(inbox[u]).action = "siphon_register", Head(inbox[u]).about = h
                     PROVE  FALSE
        BY DEF Registers
      <3>2. inbox[u] \in Seq(Requests) /\ inbox'[u] = Tail(inbox[u])
        BY <3>1
      <3>3. 1 \in 1..Len(inbox[u]) /\ Asks(u, 1, h)
        BY <3>1, <3>2 DEF Asks
      <3>4. s = u /\ i + n = 1
        BY <2>3, <3>3
      <3>5. i + 1 \in 1..Len(inbox[u]) /\ inbox'[u][i] = inbox[u][i + 1]
        <4>1. \A k \in 1..Len(Tail(inbox[u])) :
                k + 1 \in 1..Len(inbox[u]) /\ Tail(inbox[u])[k] = inbox[u][k + 1]
          BY <3>1, <3>2, TailSeq
        <4>2. QED
          BY <3>2, <3>4, <4>1
      <3>6. Asks(u, i + 1, h)
        BY <1>4, <3>4, <3>5 DEF Asks
      <3>7. i + 1 = 1
        BY <2>3, <3>3, <3>4, <3>5, <3>6
      <3>8. QED
        BY <3>7
    <2>6. sub'[h] = "none"
      BY <2>3, <2>5, SubsServed DEF Unregistered, Stays
    <2>7. QED
      BY <1>2, <2>3, <2>4, <2>6
  <1>5. ASSUME NEW h \in Handles, Unwritten(h)' PROVE sub'[h] = "none"
    <2>1. Unwritten(h) /\ sub[h] = "none"
      BY <1>2, <1>5 DEF RegisteredOnce
    <2>2. ~Registers(h)
      <3>1. SUFFICES ASSUME NEW u \in Connections, inbox[u] # <<>>,
                            Head(inbox[u]).action = "siphon_register", Head(inbox[u]).about = h
                     PROVE  FALSE
        BY DEF Registers
      <3>2. 1 \in 1..Len(inbox[u]) /\ inbox[u][1] = Head(inbox[u])
        <4>1. inbox[u] \in Seq(Requests) /\ inbox[u] # <<>>
          BY <3>1
        <4>2. QED
          BY <4>1
      <3>3. Asks(u, 1, h)
        BY <3>1, <3>2 DEF Asks
      <3>4. QED
        BY <2>1, <3>2, <3>3 DEF RegisteredOnce
    <2>3. QED
      BY <2>1, <2>2, SubsServed DEF Unregistered, Stays
  <1>6. ASSUME NEW h \in Handles, sub'[h] = "none"
        PROVE  queue'[h] = <<>> /\ handled'[h] = <<>> /\ early'[h] = <<>>
    <2>1. Unregistered(h)
      BY <1>6, SubsServed DEF Registers, Stays
    <2>2. QED
      BY <1>1, <2>1 DEF Unregistered, RegisteredOnce
  <1>7. QED
    BY <1>4, <1>5, <1>6 DEF RegisteredOnce

LEMMA RequestedOnce ==
  ASSUME Typed, SocketsOK, CallsOK, RegisteredOnce, PushesAtHome, ClientStep, CallKind
  PROVE  RegisteredOnce'
  <1> USE DEF Typed, ServerTyped, SiphonTyped, CallTyped
  <1>1. UNCHANGED <<sub, queue>> /\ Requesting
    BY ClientMinds DEF Minding, subscriptions
  <1>2. \A h \in Handles : h \in Calls /\ (Unwritten(h)' => Unwritten(h))
    BY StepsOn DEF Calls
  <1>3. ASSUME NEW h \in Handles, Unwritten(h)' PROVE sub'[h] = "none"
    BY <1>1, <1>2, <1>3 DEF RegisteredOnce
  <1>4. ASSUME NEW h \in Handles, sub'[h] = "none"
        PROVE  queue'[h] = <<>> /\ handled'[h] = <<>> /\ early'[h] = <<>>
    <2>1. sub[h] = "none" /\ queue'[h] = <<>> /\ handled[h] = <<>> /\ early[h] = <<>>
      BY <1>1, <1>4 DEF RegisteredOnce
    <2>2. ~Gives(h)
      <3>1. SUFFICES ASSUME NEW s \in Connections, wire[s] # <<>>, IsPush(Head(wire[s]), h) PROVE FALSE
        BY DEF Gives
      <3>2. 1 \in 1..Len(wire[s]) /\ wire[s][1] = Head(wire[s])
        <4>1. wire[s] \in Seq(Lines) /\ wire[s] # <<>>
          BY <3>1
        <4>2. QED
          BY <4>1
      <3>3. QED
        BY <2>1, <3>1, <3>2 DEF PushesAtHome
    <2>3. <<>> \o <<>> = <<>>
      OBVIOUS
    <2>4. QED
      BY <2>1, <2>2, <2>3, ClientSiphon DEF Unconcerned, Forgotten, Subscribes
  <1>5. CASE inbox' = inbox
    <2>1. \A h, s, i : Asks(s, i, h)' <=> Asks(s, i, h)
      BY <1>5 DEF Asks
    <2>2. QED
      BY <1>1, <1>2, <1>3, <1>4, <1>5, <2>1 DEF RegisteredOnce
  <1>6. ASSUME NEW c \in Calls, NEW s \in Connections, Due(c, "opened"), phase' = [phase EXCEPT ![c] = "sent"],
               inbox' = [inbox EXCEPT ![s] = Append(@, RequestOf(c))]
        PROVE  RegisteredOnce'
    <2> DEFINE r == RequestOf(c)
    <2>1. r \in Requests /\ (r.action = "siphon_register" => c \in Handles /\ step[c] = 1 /\ r.about = c)
      BY RequestTyped
    <2>2. phase[c] = "connecting"
      BY <1>6, DueFree DEF Fits, Job, Results
    <2> HIDE DEF r
    <2>3. /\ \A t \in Connections \ {s} : inbox'[t] = inbox[t]
          /\ inbox[s] \in Seq(Requests) /\ Len(inbox[s]) \in Nat /\ Len(inbox'[s]) = Len(inbox[s]) + 1
          /\ inbox'[s][Len(inbox[s]) + 1] = r
          /\ \A i \in 1..Len(inbox[s]) : inbox'[s][i] = inbox[s][i]
      BY <1>6, <2>1, AppendSeq DEF r
    <2>4. ASSUME NEW h \in Handles, NEW t \in Connections, NEW i \in 1..Len(inbox'[t]), Asks(t, i, h)'
          PROVE  \/ i \in 1..Len(inbox[t]) /\ Asks(t, i, h) /\ ~Unwritten(h)
                 \/ t = s /\ i = Len(inbox[s]) + 1 /\ h = c /\ Unwritten(h)
      <3>1. CASE i \in 1..Len(inbox[t]) /\ inbox'[t][i] = inbox[t][i]
        <4>1. Asks(t, i, h)
          BY <2>4, <3>1 DEF Asks
        <4>2. QED
          BY <3>1, <4>1 DEF RegisteredOnce
      <3>2. CASE t = s /\ i = Len(inbox[s]) + 1
        <4>1. r.action = "siphon_register" /\ r.about = h
          BY <2>3, <2>4, <3>2 DEF Asks
        <4>2. QED
          BY <2>1, <2>2, <3>2, <4>1 DEF Unwritten
      <3>3. CASE t # s
        BY <2>3, <3>1, <3>3
      <3>4. CASE t = s
        BY <2>3, <3>1, <3>2, <3>4
      <3>5. QED
        BY <3>3, <3>4
    <2>5. ASSUME NEW h \in Handles, NEW t \in Connections, NEW i \in 1..Len(inbox'[t]), Asks(t, i, h)'
          PROVE  /\ sub'[h] = "none" /\ ~Unwritten(h)'
                 /\ \A u \in Connections : \A j \in 1..Len(inbox'[u]) : Asks(u, j, h)' => t = u /\ i = j
      <3>1. CASE i \in 1..Len(inbox[t]) /\ Asks(t, i, h) /\ ~Unwritten(h)
        <4>1. sub'[h] = "none" /\ ~Unwritten(h)'
          BY <1>1, <1>2, <3>1 DEF RegisteredOnce
        <4>2. ASSUME NEW u \in Connections, NEW j \in 1..Len(inbox'[u]), Asks(u, j, h)' PROVE t = u /\ i = j
          <5>1. j \in 1..Len(inbox[u]) /\ Asks(u, j, h)
            BY <2>4, <3>1, <4>2
          <5>2. QED
            BY <3>1, <5>1 DEF RegisteredOnce
        <4>3. QED
          BY <4>1, <4>2
      <3>2. CASE t = s /\ i = Len(inbox[s]) + 1 /\ h = c /\ Unwritten(h)
        <4>1. sub'[h] = "none"
          BY <1>1, <3>2 DEF RegisteredOnce
        <4>2. ~Unwritten(h)'
          BY <1>6, <3>2 DEF Unwritten
        <4>3. ASSUME NEW u \in Connections, NEW j \in 1..Len(inbox'[u]), Asks(u, j, h)' PROVE t = u /\ i = j
          BY <2>4, <3>2, <4>3
        <4>4. QED
          BY <4>1, <4>2, <4>3
      <3>3. QED
        BY <2>4, <2>5, <3>1, <3>2
    <2>6. QED
      BY <1>3, <1>4, <2>5 DEF RegisteredOnce
  <1>7. QED
    BY <1>1, <1>5, <1>6 DEF Requesting

\* An event comes where its siphon is at home.
LEMMA PushesStep ==
  ASSUME Typed, SocketsOK, RegisteredOnce, PushesAtHome, [Next]_vars
  PROVE  PushesAtHome'
  <1> USE DEF Typed, ServerTyped
  <1>1. SUFFICES ASSUME NEW h \in Handles, NEW s \in Connections, NEW i \in 1..Len(wire'[s]), IsPush(wire'[s][i], h)
                 PROVE  sub'[h] # "none" /\ home'[h] = s
    BY DEF PushesAtHome
  <1>2. CASE ServerNext
    <2>1. sub[h] # "none" /\ home[h] = s
      <3>1. CASE wire'[s] = wire[s]
        BY <1>1, <3>1 DEF PushesAtHome
      <3>2. ASSUME NEW line \in Lines, Writes(s, line), wire'[s] = Append(wire[s], line)
            PROVE  sub[h] # "none" /\ home[h] = s
        <4>1. /\ Len(wire'[s]) = Len(wire[s]) + 1 /\ wire'[s][Len(wire[s]) + 1] = line
              /\ \A j \in 1..Len(wire[s]) : wire'[s][j] = wire[s][j]
              /\ Len(wire[s]) \in Nat
          BY <3>2, AppendSeq
        <4>2. CASE i \in 1..Len(wire[s])
          BY <1>1, <4>1, <4>2 DEF PushesAtHome
        <4>3. CASE i = Len(wire[s]) + 1
          <5>1. IsPush(line, h)
            BY <1>1, <4>1, <4>3
          <5>2. line # Fragment /\ \A m \in Responses : line # Whole(m)
            BY <5>1, Written
          <5>3. PICK g \in Handles, e \in Nat :
                  sub[g] # "none" /\ home[g] = s /\ line = Whole([sub |-> g, event |-> e])
            BY <3>2, <5>2 DEF Writes
          <5>4. g = h
            BY <5>1, <5>3, Written
          <5>5. QED
            BY <5>3, <5>4
        <4>4. QED
          BY <4>1, <4>2, <4>3
      <3>3. Serving(s)
        BY <1>2, AllServing
      <3>4. QED
        BY <3>1, <3>2, <3>3 DEF Serving
    <2>2. QED
      BY <1>2, <2>1, SubsServed DEF Unregistered, Registers, Stays
  <1>3. CASE ClientStep
    <2>1. UNCHANGED <<sub, home>> /\ Reading(s)
      BY <1>3, ClientMinds DEF Minding, subscriptions
    <2>2. PICK j \in 1..Len(wire[s]) : wire'[s][i].message = wire[s][j].message
                                       /\ (wire'[s][i].part = "begin" <=> wire[s][j].part = "begin")
      BY <2>1 DEF Reading
    <2>3. IsPush(wire[s][j], h)
      BY <1>1, <2>2 DEF IsPush
    <2>4. QED
      BY <2>1, <2>3 DEF PushesAtHome
  <1>4. CASE UNCHANGED vars
    BY <1>1, <1>4 DEF vars, served, connections, subscriptions, PushesAtHome
  <1>5. QED
    BY <1>2, <1>3, <1>4, NextSplit

LEMMA OnceStep ==
  ASSUME Typed, SocketsOK, CallsOK, RegisteredOnce, PushesAtHome, [Next]_vars, CallKind
  PROVE  RegisteredOnce'
  <1>1. CASE UNCHANGED vars
    <2>1. UNCHANGED <<inbox, sub, step, phase, queue, handled, early>>
      BY <1>1 DEF vars, served, connections, subscriptions, client, siphons, calls
    <2>2. QED
      BY <2>1 DEF RegisteredOnce, Asks, Unwritten
  <1>2. QED
    BY <1>1, ServedOnce, RequestedOnce, NextSplit

-----------------------------------------------------------------------------
(* The way of the events: what the daemon does. *)

\* A line more that holds no event of h.
QuietWire(h) ==
  \/ wire'[home[h]] = wire[home[h]]
  \/ \E line \in Lines : ~IsPush(line, h) /\ wire'[home[h]] = Append(wire[home[h]], line)

Idles(h)  == /\ queue'[h] = queue[h] /\ QuietWire(h)
             /\ sub'[h] = "on" => sub[h] = "on" /\ published' = published
Hears(h)  == /\ queue'[h] = Append(queue[h], published + 1) /\ published' = published + 1
             /\ wire'[home[h]] = wire[home[h]] /\ sub[h] = "on" /\ sub'[h] = sub[h]
Sends(h)  == /\ queue[h] # <<>> /\ queue'[h] = Tail(queue[h])
             /\ wire'[home[h]] = Append(wire[home[h]], Whole([sub |-> h, event |-> Head(queue[h])]))
             /\ sub'[h] = sub[h] /\ published' = published
Drops(h)  == queue'[h] = <<>> /\ sub'[h] # "on" /\ QuietWire(h)

LEMMA FedStep ==
  ASSUME Typed, RegisteredOnce, ServerNext, NEW h \in Handles, sub[h] # "none"
  PROVE  /\ missed'[h] \/ Idles(h) \/ Hears(h) \/ Sends(h) \/ Drops(h)
         /\ missed[h] => missed'[h]
  <1> USE DEF Typed, ServerTyped
  <1>1. home[h] \in Connections
    OBVIOUS
  <1> DEFINE Goal == /\ missed'[h] \/ Idles(h) \/ Hears(h) \/ Sends(h) \/ Drops(h)
                     /\ missed[h] => missed'[h]
  <1>2. ASSUME queue'[h] = queue[h], published' = published, missed' = missed, QuietWire(h),
               sub'[h] = "on" => sub[h] = "on"
        PROVE  Goal
    BY <1>2 DEF Idles
  <1>3. \A hs : Removed(hs)[h] = "on" => sub[h] = "on"
    BY DEF Removed
  <1>4. ASSUME NEW who, Broadcast(who), UNCHANGED <<sub, wire>> PROVE Goal
    <2>1. published' = published + 1 /\ (missed[h] => missed'[h])
      BY <1>4 DEF Broadcast
    <2>2. CASE h \in Listening /\ ~Full(h)
      <3>1. queue'[h] = Append(queue[h], published + 1)
        BY <1>4, <2>2 DEF Broadcast
      <3>2. QED
        BY <1>4, <2>1, <2>2, <3>1 DEF Hears, Listening
    <2>3. CASE h \in Listening /\ Full(h)
      <3>1. missed'[h]
        BY <1>4, <2>3 DEF Broadcast
      <3>2. QED
        BY <3>1
    <2>4. CASE h \notin Listening
      <3>1. queue'[h] = queue[h] /\ sub[h] # "on"
        BY <1>4, <2>4 DEF Broadcast, Listening
      <3>2. QED
        BY <1>4, <2>1, <3>1 DEF Idles, QuietWire
    <2>5. QED
      BY <2>2, <2>3, <2>4
  <1>5. CASE MeshEvent
    BY <1>4, <1>5 DEF MeshEvent, connections
  <1>6. CASE Shutdown \/ Closed \/ Start
    BY <1>2, <1>6 DEF Shutdown, Closed, Start, connections, subscriptions, QuietWire
  <1>7. CASE Crash
    <2>1. queue'[h] = <<>> /\ missed' = missed /\ sub'[h] # "on"
      BY <1>7 DEF Crash, Removed
    <2>2. wire'[home[h]] = wire[home[h]] \/ wire'[home[h]] = Append(wire[home[h]], Fragment)
      BY <1>1, <1>7 DEF Crash
    <2>3. QED
      BY <2>1, <2>2, Written DEF Drops, QuietWire
  <1>8. ASSUME NEW s \in Connections, HandleIngest(s) PROVE Goal
    <2>1. UNCHANGED wire
      BY <1>8 DEF HandleIngest
    <2>2. CASE UNCHANGED <<published, subscriptions>>
      BY <1>2, <2>1, <2>2 DEF subscriptions, QuietWire
    <2>3. CASE Broadcast(s) /\ UNCHANGED sub
      BY <1>4, <2>1, <2>3
    <2>4. QED
      BY <1>8, <2>2, <2>3 DEF HandleIngest
  <1>9. ASSUME NEW s \in Connections, HandleFails(s) PROVE Goal
    BY <1>2, <1>9 DEF HandleFails, subscriptions, QuietWire
  <1>10. ASSUME NEW s \in Connections, HandleRegister(s) PROVE Goal
    <2> DEFINE r == Head(inbox[s])
    <2>1. Takes(s) /\ r.action = "siphon_register" /\ sub' = [sub EXCEPT ![r.about] = "on"]
          /\ UNCHANGED <<published, wire, missed, queue>>
      BY <1>10 DEF HandleRegister
    <2>2. r \in Requests /\ inbox[s] \in Seq(Requests) /\ inbox[s] # <<>>
      BY <2>1, TakesTyped DEF Takes
    <2>3. r.about \in Handles /\ 1 \in 1..Len(inbox[s]) /\ r = inbox[s][1]
      BY <2>1, <2>2, ClientAssumption DEF Requests
    <2>4. sub[r.about] = "none"
      BY <2>1, <2>3 DEF RegisteredOnce, Asks
    <2>5. sub'[h] = sub[h]
      BY <2>1, <2>4
    <2>6. QED
      BY <1>2, <2>1, <2>5 DEF QuietWire
  <1>11. ASSUME NEW s \in Connections, HandleUnregister(s) \/ HandlerEnds(s) \/ IdleOut(s) PROVE Goal
    <2>1. UNCHANGED <<queue, published, missed, wire>> /\ \E hs : sub' = Removed(hs)
      BY <1>11 DEF HandleUnregister, HandlerEnds, IdleOut, Leaves
    <2>2. QED
      BY <1>2, <1>3, <2>1 DEF QuietWire
  <1>12. ASSUME NEW s \in Connections, Answer(s) PROVE Goal
    <2>1. UNCHANGED <<queue, published, missed, sub>> /\ reply[s] \in Responses
      BY <1>12 DEF Answer, Answers, subscriptions
    <2>2. wire' = wire \/ wire' = [wire EXCEPT ![s] = Append(@, Whole(reply[s]))]
      BY <1>12 DEF Answer
    <2>3. Whole(reply[s]) \in Lines /\ ~IsPush(Whole(reply[s]), h)
      BY <2>1, Written
    <2>4. QuietWire(h)
      BY <1>1, <2>2, <2>3 DEF QuietWire
    <2>5. QED
      BY <1>2, <2>1, <2>4
  <1>13. ASSUME NEW s \in Connections, AnswerExpires(s) PROVE Goal
    <2>1. UNCHANGED <<queue, published, missed, sub>>
      BY <1>13 DEF AnswerExpires, subscriptions
    <2>2. wire' = wire \/ wire' = [wire EXCEPT ![s] = Append(@, Fragment)]
      BY <1>13 DEF AnswerExpires
    <2>3. Fragment \in Lines /\ ~IsPush(Fragment, h)
      BY Written
    <2>4. QuietWire(h)
      BY <1>1, <2>2, <2>3 DEF QuietWire
    <2>5. QED
      BY <1>2, <2>1, <2>4
  <1>14. ASSUME NEW g \in Handles, Deliver(g) PROVE Goal
    <2> DEFINE line == Whole([sub |-> g, event |-> Head(queue[g])])
    <2>1. queue[g] # <<>> /\ queue' = [queue EXCEPT ![g] = Tail(@)]
          /\ wire' = [wire EXCEPT ![home[g]] = Append(@, line)] /\ UNCHANGED <<published, sub, missed>>
      BY <1>14 DEF Deliver
    <2>2. Head(queue[g]) \in Nat
      BY <2>1
    <2>3. line \in Lines /\ (g # h => ~IsPush(line, h))
      BY <2>2, Written
    <2>4. CASE g = h
      BY <1>1, <2>1, <2>4 DEF Sends
    <2>5. CASE g # h
      <3> HIDE DEF line
      <3>1. QuietWire(h)
        BY <1>1, <2>1, <2>3, <2>5 DEF QuietWire
      <3>2. QED
        BY <1>2, <2>1, <2>5, <3>1
    <2>6. QED
      BY <2>4, <2>5
  <1>15. ASSUME NEW g \in Handles, DeliverFails(g) PROVE Goal
    <2>1. sub' = [sub EXCEPT ![g] = "off"] /\ queue' = [queue EXCEPT ![g] = <<>>]
          /\ UNCHANGED <<wire, published, missed>>
      BY <1>15 DEF DeliverFails
    <2>2. CASE g = h
      BY <2>1, <2>2 DEF Drops, QuietWire
    <2>3. CASE g # h
      BY <1>2, <2>1, <2>3 DEF QuietWire
    <2>4. QED
      BY <2>2, <2>3
  <1>16. ASSUME NEW g \in Handles, NEW who \in Broadcasters, Disconnect(g, who) PROVE Goal
    BY <1>2, <1>3, <1>16 DEF Disconnect, QuietWire
  <1>17. QED
    BY <1>5, <1>6, <1>7, <1>8, <1>9, <1>10, <1>11, <1>12, <1>13, <1>14, <1>15, <1>16
       DEF ServerNext, ServerStep, SubscriptionStep

\* The events of h stay consecutive from the queue to the wire.
LEMMA FedChain ==
  ASSUME Typed, NEW h \in Handles, sub[h] # "none", NEW q \in Nat, NEW b \in Nat,
         Queued(h, q), Carries(wire[home[h]], h, b, q), home'[h] = home[h],
         Idles(h) \/ Hears(h) \/ Sends(h) \/ Drops(h)
  PROVE  \E p \in Nat : Queued(h, p)' /\ Carries(wire'[home'[h]], h, b, p)
  <1> DEFINE w == wire[home[h]]
  <1>1. home[h] \in Connections /\ w \in Seq(Lines) /\ queue[h] \in Seq(Nat) /\ published \in Nat
        /\ Len(queue[h]) \in Nat
    BY DEF Typed, ServerTyped
  <1> HIDE DEF w
  <1>2. ASSUME QuietWire(h) PROVE Carries(wire'[home'[h]], h, b, q)
    BY <1>1, <1>2, CarriesWritten DEF QuietWire, w
  <1>3. CASE Idles(h)
    BY <1>1, <1>2, <1>3 DEF Idles, Queued
  <1>4. CASE Drops(h)
    BY <1>1, <1>2, <1>4 DEF Drops, Queued
  <1>5. CASE Hears(h)
    <2>1. Carries(wire'[home'[h]], h, b, q)
      BY <1>5 DEF Hears
    <2>2. /\ queue'[h] = Append(queue[h], published + 1) /\ published' = published + 1
          /\ q + Len(queue[h]) = published
      BY <1>5 DEF Hears, Queued
    <2>3. \A i \in 1..Len(queue'[h]) : queue'[h][i] = q + i
      <3>1. /\ Len(queue'[h]) = Len(queue[h]) + 1 /\ queue'[h][Len(queue[h]) + 1] = published + 1
            /\ \A i \in 1..Len(queue[h]) : queue'[h][i] = queue[h][i]
        BY <1>1, <2>2
      <3>2. \A i \in 1..Len(queue[h]) : queue[h][i] = q + i
        BY DEF Queued
      <3>3. QED
        BY <1>1, <2>2, <3>1, <3>2
    <2>4. Len(queue'[h]) = Len(queue[h]) + 1
      BY <1>1, <2>2
    <2>5. q + Len(queue'[h]) = published'
      <3>1. published' = published + 1 /\ q + Len(queue[h]) = published
        BY <2>2
      <3>2. QED
        BY <1>1, <2>4, <3>1
    <2>6. QED
      BY <2>1, <2>3, <2>5 DEF Queued
  <1>6. CASE Sends(h)
    <2> DEFINE line == Whole([sub |-> h, event |-> Head(queue[h])])
    <2>1. Head(queue[h]) \in Nat /\ Head(queue[h]) = q + 1 /\ 1 \in 1..Len(queue[h])
      <3>1. queue[h] # <<>>
        BY <1>6 DEF Sends
      <3>2. Head(queue[h]) = queue[h][1] /\ 1 \in 1..Len(queue[h])
        BY <1>1, <3>1
      <3>3. QED
        BY <1>1, <3>2 DEF Queued
    <2>2. line \in Lines /\ line.message.event = q + 1 /\ IsPush(line, h)
      BY <2>1, Written
    <2>3. Carries(wire'[home'[h]], h, b, q + 1)
      <3> HIDE DEF line
      <3>1. wire'[home'[h]] = Append(w, line) /\ Carries(w, h, b, q)
        BY <1>6 DEF Sends, w, line
      <3>2. QED
        BY <1>1, <2>2, <3>1, CarriesWritten
    <2>4. Queued(h, q + 1)'
      <3>1. queue'[h] = Tail(queue[h]) /\ sub'[h] = sub[h] /\ published' = published /\ queue[h] # <<>>
        BY <1>6 DEF Sends
      <3>2. Len(Tail(queue[h])) = Len(queue[h]) - 1
            /\ \A i \in 1..Len(Tail(queue[h])) : i + 1 \in 1..Len(queue[h])
                                                /\ Tail(queue[h])[i] = queue[h][i + 1]
        BY <1>1, <3>1, TailSeq
      <3>3. \A i \in 1..Len(Tail(queue[h])) : Tail(queue[h])[i] = (q + 1) + i
        BY <3>2 DEF Queued
      <3>4. sub[h] = "on" => (q + 1) + Len(Tail(queue[h])) = published
        BY <1>1, <3>2 DEF Queued
      <3>5. QED
        BY <3>1, <3>3, <3>4 DEF Queued
    <2>5. q + 1 \in Nat
      OBVIOUS
    <2>6. QED
      BY <2>3, <2>4, <2>5
  <1>7. QED
    BY <1>3, <1>4, <1>5, <1>6

LEMMA ServedChain ==
  ASSUME Typed, RegisteredOnce, PushesAtHome, Chain, ServerNext, UNCHANGED client
  PROVE  Chain'
  <1> USE DEF Typed, ServerTyped, SiphonTyped
  <1>1. UNCHANGED <<step, handlers, early, handled, spilled, garbled>>
    BY DEF client, siphons, calls
  <1>2. SUFFICES ASSUME NEW h \in Handles, Clean(h)'
                 PROVE  /\ \A i \in 1..Len(handled[h]) : handled[h][i] = since'[h] + i
                        /\ step[h] = 1 => Unbroken(h)'
    BY <1>1 DEF Chain
  <1>3. CASE Unregistered(h)
    <2>1. handled[h] = <<>> /\ early[h] = <<>> /\ sub'[h] = "none"
      BY <1>3 DEF Unregistered, RegisteredOnce
    <2>2. QED
      BY <1>1, <2>1 DEF Unbroken
  <1>4. CASE Registers(h)
    <2>1. /\ sub[h] = "none" /\ sub'[h] = "on" /\ since'[h] = published /\ queue'[h] = queue[h]
          /\ home'[h] \in Connections /\ UNCHANGED <<published, wire>>
      BY <1>4 DEF Registers
    <2>2. handled[h] = <<>> /\ early[h] = <<>> /\ queue[h] = <<>>
      BY <2>1 DEF RegisteredOnce
    <2>3. Received(h)' = published
      BY <1>1, <2>1, <2>2 DEF Received
    <2>4. Carries(wire'[home'[h]], h, published, published)
      <3>1. \A i \in 1..Len(wire[home'[h]]) : ~IsPush(wire[home'[h]][i], h)
        BY <2>1 DEF PushesAtHome
      <3>2. wire[home'[h]] \in Seq(Lines) /\ published \in Nat
        BY <2>1
      <3>3. QED
        BY <2>1, <3>1, <3>2, CarriesNone
    <2>5. Queued(h, published)'
      <3>1. queue'[h] = <<>> /\ published' = published
        BY <2>1, <2>2
      <3>2. QED
        BY <3>1 DEF Queued
    <2>6. QED
      BY <1>1, <2>1, <2>2, <2>3, <2>4, <2>5 DEF Unbroken
  <1>5. CASE Stays(h)
    <2>1. sub[h] # "none" /\ sub'[h] # "none" /\ home'[h] = home[h] /\ since'[h] = since[h]
          /\ home[h] \in Connections
      BY <1>5 DEF Stays
    <2>2. Clean(h) /\ (Idles(h) \/ Hears(h) \/ Sends(h) \/ Drops(h))
      BY <1>1, <1>2, <2>1, FedStep DEF Clean
    <2>3. /\ \A i \in 1..Len(handled[h]) : handled[h][i] = since[h] + i
          /\ step[h] = 1 => Unbroken(h)
      BY <2>2 DEF Chain
    <2>4. ASSUME step[h] = 1, peer'[home'[h]] # "gone"
          PROVE  \E p \in Nat : Queued(h, p)' /\ Carries(wire'[home'[h]], h, Received(h)', p)
      <3>1. peer[home[h]] # "gone"
        BY <2>1, <2>4, AllServing DEF Serving
      <3>2. PICK q \in Nat : Queued(h, q) /\ Carries(wire[home[h]], h, Received(h), q)
        BY <2>1, <2>3, <2>4, <3>1 DEF Unbroken
      <3>3. Received(h) \in Nat /\ Received(h)' = Received(h)
        BY <1>1, <2>1 DEF Received
      <3>4. QED
        BY <2>1, <2>2, <3>2, <3>3, FedChain
    <2>5. QED
      BY <1>1, <2>1, <2>3, <2>4 DEF Unbroken
  <1>6. QED
    BY <1>3, <1>4, <1>5, SubsServed

-----------------------------------------------------------------------------
(* The way of the events: what the client does. *)

\* What went wrong is not forgotten.
LEMMA MarksStay ==
  ASSUME Typed, CallsOK, ClientStep, NEW h \in Handles, Clean(h)'
  PROVE  Clean(h)
  <1> USE DEF Typed, SiphonTyped
  <1>1. CASE UNCHANGED <<missed, spilled, garbled>>
    BY <1>1 DEF Clean
  <1>2. ASSUME NEW c \in Calls, Call(c) \/ Write(c) \/ Resolved(c) \/ Rejected(c) \/ Retry(c)
                                \/ Subscribed(c) \/ StopReady(c) \/ Unsubscribed(c) \/ Timeout(c)
        PROVE  UNCHANGED <<missed, spilled, garbled>>
    BY <1>2 DEF Call, Write, Resolved, Rejected, Retry, Subscribed, StopReady, Unsubscribed, Timeout,
                Settles, Unsubscribe, siphons, served, subscriptions
  <1>3. ASSUME NEW g \in Handles, Stop(g) PROVE UNCHANGED <<missed, spilled, garbled>>
    BY <1>3 DEF Stop, Unsubscribe, served, subscriptions
  <1>4. ASSUME NEW s \in Connections, SocketStep(s) \/ ReadPart(s) \/ ReadFragment(s) \/ ReadAnswer(s)
        PROVE  UNCHANGED <<missed, spilled, garbled>>
    BY <1>4 DEF SocketStep, Opened, Refused, Hangup, SocketClosed, ReadPart, ReadFragment, ReadAnswer,
                Takeaway, siphons, served, subscriptions
  <1>5. CASE Close
    BY <1>1, <1>5 DEF Close, siphons, subscriptions
  <1>6. ASSUME NEW s \in Connections, ReadEvent(s) PROVE Clean(h)
    <2>1. UNCHANGED <<missed, garbled>> /\ (spilled' = spilled \/ \E g : spilled' = [spilled EXCEPT ![g] = TRUE])
      BY <1>6 DEF ReadEvent, Takeaway, subscriptions
    <2>2. QED
      BY <2>1 DEF Clean
  <1>7. ASSUME NEW s \in Connections, ReadGarbage(s) PROVE Clean(h)
    BY <1>7 DEF ReadGarbage, Clean, subscriptions
  <1>8. QED
    BY <1>1, <1>2, <1>3, <1>4, <1>5, <1>6, <1>7 DEF ClientStep, RunJob, ReadStep

\* An event that is read is the next one.
LEMMA GivesChain ==
  ASSUME Typed, SocketsOK, Silenced, RegisteredOnce, PushesAtHome, Chain, NEW h \in Handles,
         UNCHANGED <<since, sub, home, queue, published>>, Gives(h), Clean(h), Clean(h)',
         step'[h] = 1 => step[h] = 1
  PROVE  /\ \A i \in 1..Len(handled'[h]) : handled'[h][i] = since[h] + i
         /\ step'[h] = 1 => Unbroken(h)'
  <1> USE DEF Typed, ServerTyped, SiphonTyped
  <1> DEFINE a == handled[h]
             b == early[h]
  <1>1. a \in Seq(Nat) /\ b \in Seq(Nat) /\ Len(a) \in Nat /\ Len(b) \in Nat /\ since[h] \in Nat
    OBVIOUS
  <1>2. /\ \A i \in 1..Len(a) : a[i] = since[h] + i
        /\ step[h] = 1 => Unbroken(h)
    BY DEF Chain
  <1>3. PICK s \in Connections : LET line == Head(wire[s]) IN
          /\ sock[s] \in {"open", "ending"} /\ wire[s] # <<>> /\ IsPush(line, h)
          /\ wire' = [wire EXCEPT ![s] = Tail(@)] /\ UNCHANGED <<handlers, peer>>
          /\ \/ h \in handlers /\ handled'[h] = Append(a, line.message.event) /\ early'[h] = b
             \/ h \notin handlers /\ early'[h] = Append(b, line.message.event) /\ handled'[h] = a
             \/ spilled'[h] /\ handled'[h] = a /\ early'[h] = b
    BY DEF Gives
  <1> DEFINE e == Head(wire[s]).message.event
  <1>4. wire[s] \in Seq(Lines) /\ wire[s] # <<>> /\ 1 \in 1..Len(wire[s]) /\ wire[s][1] = Head(wire[s])
    <2>1. wire[s] \in Seq(Lines) /\ wire[s] # <<>>
      BY <1>3
    <2>2. QED
      BY <2>1
  <1>5. sub[h] # "none" /\ home[h] = s /\ peer[s] # "gone"
    BY <1>3, <1>4 DEF PushesAtHome, SocketsOK
  <1>6. ~spilled'[h]
    BY DEF Clean
  <1>7. CASE step[h] # 1
    <2>1. h \in Calls /\ step[h] = 2
      BY <1>7 DEF CallTyped, Calls
    <2>2. h \notin handlers
      BY <2>1 DEF Silenced
    <2>3. handled'[h] = a
      BY <1>3, <1>6, <2>2
    <2>4. QED
      BY <1>2, <1>7, <2>3
  <1>8. CASE step[h] = 1
    <2>1. PICK q \in Nat : Queued(h, q) /\ Carries(wire[s], h, Received(h), q)
      BY <1>2, <1>5, <1>8 DEF Unbroken
    <2>2. Received(h) \in Nat /\ Received(h) = since[h] + Len(a) + Len(b)
      BY <1>1 DEF Received
    <2>3. e = Received(h) + 1 /\ Carries(Tail(wire[s]), h, Received(h) + 1, q)
      BY <1>3, <1>4, <2>1, <2>2, CarriesRead
    <2>4. Queued(h, q)'
      BY <2>1 DEF Queued
    <2>5. wire'[home'[h]] = Tail(wire[s])
      BY <1>3, <1>5
    <2>6. \A i \in 1..Len(b) : b[i] = since[h] + Len(a) + i
      BY <1>2, <1>8 DEF Unbroken
    <2> HIDE DEF a, b, e
    <2>7. CASE h \in handlers /\ handled'[h] = Append(a, e) /\ early'[h] = b
      <3>1. b = <<>>
        BY <1>2, <1>8, <2>7 DEF Unbroken, b
      <3>2. Len(b) = 0 /\ e = since[h] + Len(a) + 1
        BY <1>1, <2>2, <2>3, <3>1
      <3>3. /\ Len(handled'[h]) = Len(a) + 1 /\ handled'[h][Len(a) + 1] = e
            /\ \A i \in 1..Len(a) : handled'[h][i] = a[i]
        <4>1. e \in Nat
          BY <2>2, <2>3
        <4>2. QED
          BY <1>1, <2>7, <4>1, AppendSeq
      <3>4. ASSUME NEW i \in 1..Len(handled'[h]) PROVE handled'[h][i] = since[h] + i
        <4>1. CASE i \in 1..Len(a)
          <5>1. handled'[h][i] = a[i] /\ a[i] = since[h] + i
            BY <1>2, <3>3, <4>1 DEF a
          <5>2. QED
            BY <5>1
        <4>2. CASE i = Len(a) + 1
          BY <1>1, <3>2, <3>3, <4>2
        <4>3. QED
          BY <1>1, <3>3, <4>1, <4>2
      <3>5. Received(h)' = Received(h) + 1
        <4>1. Received(h)' = since[h] + Len(handled'[h]) + Len(b)
          BY <2>7 DEF Received
        <4>2. QED
          BY <1>1, <2>2, <3>3, <4>1
      <3>6. \A i \in 1..Len(early'[h]) : early'[h][i] = since'[h] + Len(handled'[h]) + i
        BY <2>7, <3>1
      <3>7. Unbroken(h)'
        BY <2>3, <2>4, <2>5, <2>7, <3>1, <3>5, <3>6 DEF Unbroken
      <3>8. QED
        BY <3>4, <3>7
    <2>8. CASE h \notin handlers /\ early'[h] = Append(b, e) /\ handled'[h] = a
      <3>1. e = since[h] + Len(a) + (Len(b) + 1) /\ e \in Nat
        <4>1. Len(a) \in Nat /\ Len(b) \in Nat /\ since[h] \in Nat
          BY <1>1
        <4> HIDE DEF a, b, e, Typed, ServerTyped, SiphonTyped
        <4>2. QED
          BY <4>1, <2>2, <2>3
      <3>2. /\ Len(early'[h]) = Len(b) + 1 /\ early'[h][Len(b) + 1] = e
            /\ \A i \in 1..Len(b) : early'[h][i] = b[i]
        BY <1>1, <2>8, <3>1, AppendSeq
      <3>3. ASSUME NEW i \in 1..Len(early'[h]) PROVE early'[h][i] = since[h] + Len(a) + i
        <4>1. CASE i \in 1..Len(b)
          BY <2>6, <3>2, <4>1
        <4>2. CASE i = Len(b) + 1
          BY <3>1, <3>2, <4>2
        <4>3. QED
          BY <1>1, <3>2, <4>1, <4>2
      <3>4. Received(h)' = Received(h) + 1
        <4>1. Received(h)' = since[h] + Len(a) + Len(early'[h])
          BY <2>8 DEF Received
        <4>2. QED
          BY <1>1, <2>2, <3>2, <4>1
      <3>5. h \notin handlers'
        BY <1>3, <2>8
      <3>6. Unbroken(h)'
        BY <2>3, <2>4, <2>5, <2>8, <3>3, <3>4, <3>5 DEF Unbroken
      <3>7. QED
        BY <1>2, <2>8, <3>6
    <2>9. QED
      BY <1>3, <1>6, <2>7, <2>8 DEF a, b, e
  <1>9. QED
    BY <1>7, <1>8

LEMMA ClientChain ==
  ASSUME Typed, SocketsOK, CallsOK, Silenced, RegisteredOnce, PushesAtHome, Chain, ClientStep, CallKind
  PROVE  Chain'
  <1> USE DEF Typed, ServerTyped, SiphonTyped
  <1>1. UNCHANGED <<since, sub, home, queue, published, missed>>
        /\ \A t \in Connections : peer[t] = "gone" => peer'[t] = "gone"
    BY ClientMinds DEF Minding, subscriptions
  <1>2. SUFFICES ASSUME NEW h \in Handles, Clean(h)'
                 PROVE  /\ \A i \in 1..Len(handled'[h]) : handled'[h][i] = since[h] + i
                        /\ step'[h] = 1 => Unbroken(h)'
    BY <1>1 DEF Chain
  <1>3. Clean(h) /\ (step'[h] = 1 => step[h] = 1)
    <2>1. h \in Calls
      BY DEF Calls
    <2>2. QED
      BY <1>2, <2>1, MarksStay, StepsOn
  <1>4. /\ \A i \in 1..Len(handled[h]) : handled[h][i] = since[h] + i
        /\ step[h] = 1 => Unbroken(h)
    BY <1>3 DEF Chain
  <1>5. ASSUME step[h] = 1, Keeps(h), Received(h)' = Received(h), sub[h] # "none", peer'[home[h]] # "gone"
        PROVE  \E q \in Nat : Queued(h, q)' /\ Carries(wire'[home'[h]], h, Received(h)', q)
    <2>1. home[h] \in Connections
      BY <1>5
    <2>2. peer[home[h]] # "gone"
      BY <1>1, <1>5, <2>1
    <2>3. PICK q \in Nat : Queued(h, q) /\ Carries(wire[home[h]], h, Received(h), q)
      BY <1>4, <1>5, <2>2 DEF Unbroken
    <2>4. Received(h) \in Nat
      BY DEF Received
    <2>5. Carries(wire'[home[h]], h, Received(h), q)
      BY <1>5, <2>1, <2>3, <2>4 DEF Keeps
    <2>6. Queued(h, q)'
      BY <1>1, <2>3 DEF Queued
    <2>7. QED
      BY <1>1, <1>5, <2>5, <2>6
  <1>6. CASE Unconcerned(h)
    <2>1. /\ handled'[h] = handled[h] /\ early'[h] = early[h] /\ (h \in handlers' => h \in handlers)
          /\ Keeps(h)
      BY <1>2, <1>6 DEF Unconcerned, Clean
    <2>2. Received(h)' = Received(h)
      BY <1>1, <2>1 DEF Received
    <2>3. ASSUME step'[h] = 1 PROVE Unbroken(h)'
      <3>1. /\ \A i \in 1..Len(early'[h]) : early'[h][i] = since'[h] + Len(handled'[h]) + i
            /\ h \in handlers' => early'[h] = <<>>
        BY <1>1, <1>3, <1>4, <2>1, <2>3 DEF Unbroken
      <3>2. QED
        BY <1>1, <1>3, <1>5, <2>1, <2>2, <2>3, <3>1 DEF Unbroken
    <2>4. QED
      BY <1>4, <2>1, <2>3
  <1>7. CASE Forgotten(h)
    <2>1. step'[h] = 2 /\ handled'[h] = handled[h]
      BY <1>7 DEF Forgotten
    <2>2. ~(step'[h] = 1)
      BY <2>1
    <2>3. \A i \in 1..Len(handled'[h]) : handled'[h][i] = since[h] + i
      <3>1. \A i \in 1..Len(handled[h]) : handled[h][i] = since[h] + i
        BY <1>4
      <3>2. QED
        BY <2>1, <3>1, Zenon
    <2>4. QED
      BY <2>2, <2>3
  <1>8. CASE Subscribes(h)
    <2> DEFINE a == handled[h]
               b == early[h]
    <2>1. /\ step[h] = 1 /\ handled'[h] = a \o b /\ early'[h] = <<>> /\ wire' = wire
          /\ a \in Seq(Nat) /\ b \in Seq(Nat) /\ Len(a) \in Nat /\ Len(b) \in Nat /\ since[h] \in Nat
      BY <1>8 DEF Subscribes
    <2>2. \A i \in 1..Len(a) : a[i] = since[h] + i
      BY <1>4
    <2>3. \A i \in 1..Len(b) : b[i] = since[h] + Len(a) + i
      BY <1>4, <2>1 DEF Unbroken
    <2>4. Received(h) = since[h] + Len(a) + Len(b)
      BY DEF Received
    <2> HIDE DEF a, b
    <2>5. /\ Len(handled'[h]) = Len(a) + Len(b)
          /\ \A i \in 1..Len(a) : handled'[h][i] = a[i]
          /\ \A i \in 1..Len(handled'[h]) : i \in 1..Len(a) \/ (i - Len(a) \in 1..Len(b)
                                                               /\ handled'[h][i] = b[i - Len(a)])
      BY <2>1, ConcatSeq
    <2>6. ASSUME NEW i \in 1..Len(handled'[h]) PROVE handled'[h][i] = since[h] + i
      <3>1. CASE i \in 1..Len(a)
        BY <2>2, <2>5, <3>1
      <3>2. CASE i \notin 1..Len(a)
        <4>1. handled'[h][i] = since[h] + Len(a) + (i - Len(a))
          BY <2>3, <2>5, <3>2
        <4>2. i \in Int
          OBVIOUS
        <4>3. QED
          BY <2>1, <4>1, <4>2
      <3>3. QED
        BY <3>1, <3>2
    <2>7. Received(h)' = Received(h)
      <3>1. Received(h)' = since[h] + Len(handled'[h]) + 0
        BY <1>1, <2>1 DEF Received
      <3>2. QED
        BY <2>1, <2>4, <2>5, <3>1
    <2>8. Keeps(h)
      BY <2>1 DEF Keeps
    <2>9. Unbroken(h)'
      BY <1>1, <1>5, <2>1, <2>7, <2>8 DEF Unbroken
    <2>10. QED
      BY <2>6, <2>9
  <1>9. CASE Gives(h)
    BY <1>1, <1>2, <1>3, <1>9, GivesChain
  <1>10. QED
    BY <1>6, <1>7, <1>8, <1>9, ClientSiphon

LEMMA ChainStep ==
  ASSUME Typed, SocketsOK, CallsOK, Silenced, RegisteredOnce, PushesAtHome, Chain, [Next]_vars, CallKind
  PROVE  Chain'
  <1>1. CASE UNCHANGED vars
    BY <1>1 DEF vars, served, connections, subscriptions, client, siphons, calls, Chain, Clean, Unbroken,
                Received, Queued
  <1>2. QED
    BY <1>1, ServedChain, ClientChain, NextSplit

-----------------------------------------------------------------------------
(* The inductive invariant. *)

LEMMA InitIInv ==
  ASSUME Init
  PROVE  IInv
  <1> USE DEF Init, ServerInit
  <1>1. ServerTyped
    <2>1. QueueSize \in Nat /\ Len(<<>>) = 0
      BY ServerAssumption
    <2>2. QED
      BY <2>1 DEF ServerTyped, Broadcasters
  <1>2. SocketTyped
    BY DEF SocketTyped
  <1>3. CallTyped
    BY DEF CallTyped
  <1>4. SiphonTyped
    <2>1. EarlyLimit \in Nat /\ Len(<<>>) = 0
      BY ClientAssumption
    <2>2. garbled \in BOOLEAN
      OBVIOUS
    <2>3. /\ handlers \subseteq Handles /\ spilled \in [Handles -> BOOLEAN]
          /\ early \in [Handles -> Seq(Nat)] /\ handled \in [Handles -> Seq(Nat)]
      OBVIOUS
    <2>4. \A h \in Handles : Len(early[h]) <= EarlyLimit
      BY <2>1
    <2>5. QED
      BY <2>2, <2>3, <2>4 DEF SiphonTyped
  <1>5. SocketsOK
    <2>1. WireSize \in Nat /\ Len(<<>>) = 0
      BY ServerAssumption
    <2>2. QED
      BY <2>1 DEF SocketsOK
  <1>6. SocketsSuffice
    <2>1. Used = {} /\ Begun = {}
      BY DEF Used, Begun, RequestIDs
    <2>2. QED
      BY <2>1, FS_EmptySet DEF SocketsSuffice
  <1>7. \A S : \A x : x \notin Range(<<>>)
    BY DEF Range
  <1>8. JobsOK /\ WaitingOK /\ PendingOK
    <2>1. Range(jobs) = {} /\ Range(pending) = {} /\ \A s \in Connections : Range(waiting[s]) = {}
      BY <1>7
    <2>2. IsInjective(<<>>)
      BY DEF IsInjective
    <2>3. JobsOK
      BY <2>1 DEF JobsOK, OneEach
    <2>4. WaitingOK
      BY <2>1, <2>2 DEF WaitingOK
    <2>5. PendingOK
      BY <2>1, <2>2 DEF PendingOK
    <2>6. QED
      BY <2>3, <2>4, <2>5
  <1>9. AnswersTrue
    <2>1. Range(jobs) = {}
      BY <1>7
    <2>2. \A c \in Ingests : phase[c] # "done"
      BY DEF Calls
    <2>3. QED
      BY <2>1, <2>2 DEF AnswersTrue
  <1>10. RegisteredOnce /\ PushesAtHome
    BY DEF RegisteredOnce, PushesAtHome
  <1>11. Silenced
    BY DEF Silenced, Calls
  <1>12. Chain
    BY DEF Chain, Unbroken
  <1>13. QED
    BY <1>1, <1>2, <1>3, <1>4, <1>5, <1>6, <1>8, <1>9, <1>10, <1>11, <1>12 DEF IInv, Typed

LEMMA NextIInv ==
  ASSUME IInv, [Next]_vars
  PROVE  IInv'
  <1>1. /\ Typed /\ SocketsOK /\ SocketsSuffice /\ CallsOK /\ AnswersTrue
        /\ RegisteredOnce /\ PushesAtHome /\ Silenced /\ Chain
    BY DEF IInv, CallsOK
  <1>2. CallKind
    BY <1>1, CallKindOfStep
  <1>3. CallTyped' /\ CallsOK'
    BY <1>1, <1>2, CallsStep
  <1>4. ServerTyped' /\ SiphonTyped'
    BY <1>1, ServerTypedStep, SiphonTypedStep
  <1>5. SocketTyped' /\ SocketsOK' /\ SocketsSuffice'
    BY <1>1, SocketsStep, SufficeStep
  <1>6. AnswersTrue'
    BY <1>1, <1>2, AnswersStep
  <1>7. RegisteredOnce' /\ PushesAtHome'
    BY <1>1, <1>2, OnceStep, PushesStep
  <1>8. Silenced'
    BY <1>1, SilencedStep
  <1>9. Chain'
    BY <1>1, <1>2, ChainStep
  <1>10. QED
    BY <1>3, <1>4, <1>5, <1>6, <1>7, <1>8, <1>9 DEF IInv, Typed, CallsOK

\* The parts of IInv hold together in every behaviour of the SDK and its daemon:
\* ends of connections, continuations, answers, registrations and the chain of
\* the events from the broadcast to the callback.
THEOREM SdkClientInvariance == Spec => []IInv
  <1>1. Init => IInv
    BY InitIInv
  <1>2. IInv /\ [Next]_vars => IInv'
    BY NextIInv
  <1>3. QED
    BY <1>1, <1>2, PTL DEF Spec

\* The types of the SDK's client and of the daemon's local server; every call whose
\* request was answered, lost or timed out has its continuation due.
THEOREM SdkClientTypes == Spec => []TypeOK
  <1>1. IInv => TypeOK
    <2>1. SUFFICES ASSUME IInv PROVE TypeOK
      OBVIOUS
    <2>2. Typed /\ SocketsOK /\ JobsOK /\ WaitingOK /\ PendingOK
      BY <2>1 DEF IInv
    <2>3. ServerTypeOK
      BY <2>2 DEF ServerTypeOK, Typed, ServerTyped, SocketsOK
    <2>4. /\ sock \in [Connections -> {"free", "opening", "cancelled", "open", "ending", "dying",
                                       "refused", "closed"}]
          /\ {socket, connecting, buffer, reading} \subseteq Connections \cup {None}
          /\ connecting # None => sock[connecting] \in {"opening", "open", "dying", "refused"}
      BY <2>2 DEF Typed, SocketTyped, SocketsOK
    <2>5. ASSUME NEW s \in Connections, NEW c \in Range(waiting[s])
          PROVE  phase[c] = "connecting" /\ sock[s] \in {"opening", "cancelled"}
      <3>1. waiting[s] \in Seq(Calls)
        BY <2>2 DEF Typed, CallTyped
      <3>2. waiting[s] # <<>>
        <4>1. \E i \in 1..Len(waiting[s]) : waiting[s][i] = c
          BY <2>5, <3>1, RangeOf
        <4>2. QED
          BY <3>1, <4>1
      <3>3. QED
        BY <2>2, <3>2 DEF WaitingOK, SocketsOK
    <2>6. ASSUME NEW c \in Calls, phase[c] = "answered" PROVE \E i \in 1..Len(jobs) : jobs[i].call = c
      <3>1. jobs \in Seq(JobSet)
        BY <2>2 DEF Typed, CallTyped
      <3>2. PICK job \in Range(jobs) : job.call = c
        BY <2>2, <2>6 DEF JobsOK, HasJob
      <3>3. PICK i \in 1..Len(jobs) : jobs[i] = job
        BY <3>1, RangeOf
      <3>4. QED
        BY <3>2, <3>3
    <2>7. /\ Range(pending) = {c \in Calls : phase[c] = "sent"} /\ IsInjective(pending)
          /\ phase \in [Calls -> {"idle", "connecting", "sent", "answered", "done", "failed"}]
          /\ step \in [Calls -> {1, 2}] /\ stopped \subseteq Handles
      BY <2>2 DEF PendingOK, Typed, CallTyped
    <2>8. handlers \subseteq Handles /\ \A h \in Handles : Len(early[h]) <= EarlyLimit
      BY <2>2 DEF Typed, SiphonTyped
    <2>9. QED
      BY <2>3, <2>4, <2>5, <2>6, <2>7, <2>8 DEF TypeOK
  <1>2. QED
    BY <1>1, SdkClientInvariance, PTL

\* An ingest call that succeeded has its event in the store, and none stores two,
\* whatever is lost, refused or timed out before its retry (Thalweg.ingest).
THEOREM IngestOnce == Spec => []IngestedOnce
  <1>1. IInv => IngestedOnce
    <2>1. SUFFICES ASSUME IInv, NEW c \in Ingests
                   PROVE  /\ phase[c] = "done" => EventID(c) \in store
                          /\ Cardinality({id \in store : id[1] = c}) <= 1
      BY DEF IngestedOnce
    <2>2. phase[c] = "done" => EventID(c) \in store
      BY <2>1 DEF IInv, AnswersTrue
    <2> DEFINE own == {id \in store : id[1] = c}
    <2>3. own \subseteq {<<c, 1>>}
      <3>1. store \subseteq Ingests \X {1}
        BY <2>1 DEF IInv, Typed, ServerTyped
      <3>2. QED
        BY <3>1
    <2>4. IsFiniteSet({<<c, 1>>}) /\ Cardinality({<<c, 1>>}) = 1
      BY FS_Singleton
    <2>5. Cardinality(own) <= 1
      BY <2>3, <2>4, FS_Subset
    <2>6. QED
      BY <2>2, <2>5
  <1>2. QED
    BY <1>1, SdkClientInvariance, PTL

\* The callback of a siphon is given what was broadcast to its subscription, in
\* order and without a gap, unless an overflow or a mix-up has been noted.
THEOREM NoGap == Spec => []NoSilentGap
  <1>1. IInv => NoSilentGap
    BY DEF IInv, Chain, Clean, NoSilentGap, Typed, ServerTyped, SiphonTyped
  <1>2. QED
    BY <1>1, SdkClientInvariance, PTL

\* Once stop() is past the registration the callback is not called any more,
\* whatever the daemon goes on sending.
THEOREM Silence == Spec => SilentAfterStop
  <1>1. ASSUME IInv, [Next]_vars, NEW h \in Handles, step[h] = 2
        PROVE  handled'[h] = handled[h]
    <2>1. Typed /\ SocketsOK /\ CallsOK /\ h \notin handlers
      BY <1>1 DEF IInv, CallsOK, Silenced
    <2>2. CASE UNCHANGED vars \/ UNCHANGED client
      BY <2>2 DEF vars, client, siphons
    <2>3. CASE ClientStep
      <3>1. Unconcerned(h) \/ Forgotten(h) \/ Subscribes(h) \/ Gives(h)
        BY <2>1, <2>3, ClientSiphon
      <3>2. ~Subscribes(h)
        BY <1>1 DEF Subscribes
      <3>3. Gives(h) => handled'[h] = handled[h]
        BY <2>1 DEF Gives
      <3>4. QED
        BY <3>1, <3>2, <3>3 DEF Unconcerned, Forgotten
    <2>4. QED
      BY <1>1, <2>2, <2>3, NextSplit
  <1>2. IInv /\ [Next]_vars => [\A h \in Handles : step[h] = 2 => handled'[h] = handled[h]]_vars
    BY <1>1
  <1>3. QED
    BY <1>2, SdkClientInvariance, PTL DEF Spec, SilentAfterStop
=============================================================================
