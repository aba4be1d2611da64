--------------------------- MODULE EnrollmentProofs ---------------------------
(***************************************************************************)
(* Theorems about Enrollment, for any daemons, operators and bounds: who    *)
(* did not make a network was invited or approved, a request is decided     *)
(* once, the list shows undecided requests that somebody handles, and an    *)
(* approval is kept unless it came too late.                                *)
(***************************************************************************)
EXTENDS Enrollment, TLAPS

\* Nothing is decided before the handler looks, and nothing answered before it ends;
\* what it accepts was decided; who joined read such an answer from a handler that is gone.
Answered ==
  \A r \in Made :
    /\ request[r].handler = "arriving" => request[r].decision = None
    /\ request[r].answer \notin {None, Lost} => request[r].handler \in {"ending", "gone"}
    /\ request[r].answer \in Decisions \ {Refused} => request[r].decision = request[r].answer
    /\ request[r].client = "joined" =>
         request[r].answer \in Decisions \ {Refused} /\ request[r].handler = "gone"

\* Nothing is accepted, nor about to be, but what a user approved.
ByUsers ==
  /\ \A r \in Made : Approved(r) => r \in approved
  /\ \A c \in Operators : op[c] # Idle /\ op[c].approve => op[c].request \in approved

\* A request in the hands of a call is off the list, and its handler was there.
InHand ==
  \A c \in Operators : op[c] # Idle =>
    /\ op[c].request \notin pending
    /\ request[op[c].request].handler # "arriving"

\* A request on the list is undecided and has a handler, which waits or ends.
Listed ==
  \A r \in pending : request[r].decision = None /\ request[r].handler \in {"waiting", "ending"}

\* What relates requests, calls and users.
Core == TypeOK /\ Answered /\ ByUsers /\ InHand /\ OneDecision /\ Listed

\* A handler that ends undecided is late.
GivenUp ==
  \A r \in Made : request[r].handler = "ending" /\ request[r].decision = None => Late(r)

\* A refusal given while a call has the request in hand was due to the expiry or
\* the end of the sponsor.
Overtaken ==
  \A c \in Operators : op[c] # Idle /\ request[op[c].request].answer = Refused =>
    Late(op[c].request)

\* A network that a daemon did not make nor was invited to, it has by a request of its own.
Admitted ==
  \A d \in Daemons : mounted[d] # None /\ mounted[d][1] # d /\ d \notin invited =>
    \E r \in Made : /\ Applicant(r) = d /\ request[r].client = "joined"
                    /\ request[r].answer = Accept(mounted[d])

\* The inductive invariant.
IInv == Core /\ GivenUp /\ Overtaken /\ DecisionsAreKept /\ Admitted

\* What is recorded of an enrollment, and the operators that select from it.
LEMMA MadeTyped ==
  ASSUME TypeOK, NEW r \in Made
  PROVE  /\ r \in Requests /\ request[r] \in Enrollments /\ request[r] # None
         /\ Applicant(r) \in Daemons /\ Sponsor(r) \in Daemons
  BY DEF TypeOK, Made, Enrollments, Requests, Offers, Applicant, Sponsor

\* A call at work has a request and a decision (decideEnrollment).
LEMMA OpTyped ==
  ASSUME TypeOK, NEW c \in Operators, op[c] # Idle
  PROVE  op[c].request \in Made /\ op[c].approve \in BOOLEAN
  BY DEF TypeOK, Idle

\* Only an acceptance carries a network.
LEMMA Acceptance ==
  /\ Refused \in Decisions /\ ~Refused.accepted
  /\ \A n \in Networks : /\ Accept(n) \in Decisions /\ Accept(n).accepted
                         /\ Accept(n) # Refused /\ Accept(n).network = n
  /\ \A e \in Decisions : /\ e.accepted <=> e # Refused
                          /\ e.accepted => e.network \in Networks /\ e = Accept(e.network)
  <1>1. Refused.accepted = FALSE /\ Refused \in Decisions
    BY DEF Decisions, Refused
  <1>2. ASSUME NEW n \in Networks
        PROVE  Accept(n).accepted = TRUE /\ Accept(n).network = n /\ Accept(n) \in Decisions
    BY DEF Decisions, Accept
  <1>3. \A n \in Networks : Accept(n) # Refused
    BY <1>1, <1>2
  <1>4. \A e \in Decisions : e = Refused \/ \E n \in Networks : e = Accept(n)
    BY DEF Decisions
  <1>5. QED
    BY <1>1, <1>2, <1>3, <1>4

\* What a handler chooses from are answers (handleEnrollmentRequest).
LEMMA ChoicesTyped ==
  ASSUME TypeOK, NEW r \in Made, NEW e \in Choices(r)
  PROVE  e \in Decisions
  BY MadeTyped, Acceptance DEF Choices, Decided, TimesOut, Cancelled, Enrollments

\* A decision is one to accept exactly if the user approves and it can be made.
LEMMA DecisionTyped ==
  ASSUME TypeOK, NEW r \in Made, NEW approve \in BOOLEAN
  PROVE  /\ Decision(r, approve) \in Decisions \cup {None}
         /\ Decision(r, approve) # None => (Decision(r, approve).accepted <=> approve)
  BY MadeTyped, Acceptance, NoneAssumption DEF Decision, TypeOK

\* At first there are no requests and no calls.
LEMMA InitInvariant == Init => IInv
  <1> SUFFICES ASSUME Init PROVE IInv
    OBVIOUS
  <1>1. Made = {} /\ \A c \in Operators : op[c] = Idle
    BY DEF Init, Made
  <1>2. TypeOK
    BY <1>1, BoundsAssumption DEF Init, TypeOK
  <1>3. QED
    BY <1>1, <1>2 DEF IInv, Core, GivenUp, Overtaken, Init, Answered, ByUsers, InHand, OneDecision,
                      Listed, DecisionsAreKept, Admitted

\* Only the record of r changes.
Writes(r, e) ==
  /\ e \in Enrollments
  /\ request' = [request EXCEPT ![r] = e]

\* What a write leaves alone, and that nothing else loses its type by it.
LEMMA WritesTyped ==
  ASSUME TypeOK, NEW r \in Requests, NEW e, Writes(r, e)
  PROVE  /\ request' \in [Requests -> Enrollments \cup {None}]
         /\ request'[r] = e /\ Made' = Made \cup {r}
         /\ \A s \in Requests \ {r} : request'[s] = request[s]
  BY NoneAssumption DEF TypeOK, Writes, Made

\* What a handler writes that chooses its answer; a lost stream stays lost (Answers).
LEMMA AnswersWrites ==
  ASSUME TypeOK, NEW r \in Made, NEW x \in Decisions, NEW h \in {"ending", "gone"}, Answers(r, x, h)
  PROVE  \E e : /\ Writes(r, e)
                /\ e.offer = request[r].offer /\ e.client = request[r].client
                /\ e.decision = request[r].decision /\ e.handler = h
                /\ e.answer = IF request[r].answer = Lost THEN Lost ELSE x
  <1> DEFINE e == [request[r] EXCEPT !.handler = h,
                                     !.answer = IF request[r].answer = Lost THEN Lost ELSE x]
  <1>1. request[r] \in Enrollments /\ r \in Requests
    BY MadeTyped
  <1>2. e \in Enrollments
    BY <1>1 DEF Enrollments
  <1>3. request' = [request EXCEPT ![r] = e]
    BY <1>1 DEF Answers, TypeOK
  <1>4. QED
    BY <1>1, <1>2, <1>3 DEF Writes, Enrollments

\* The request of a new call.
LEMMA RequestWrites ==
  ASSUME TypeOK, NEW a \in Daemons, Request(a)
  PROVE  \E r \in Requests, e \in Enrollments :
           /\ Writes(r, e) /\ r \notin Made
           /\ e.client = "asking" /\ e.handler = "arriving" /\ e.decision = None /\ e.answer = None
  <1>1. PICK k \in 1..MaxRequests, o \in Offers :
          /\ request[<<a, k>>] = None
          /\ request' = [request EXCEPT ![<<a, k>>] =
                           [offer |-> o, client |-> "asking", handler |-> "arriving",
                            decision |-> None, answer |-> None]]
    BY DEF Request
  <1> DEFINE r == <<a, k>>
             e == [offer |-> o, client |-> "asking", handler |-> "arriving",
                   decision |-> None, answer |-> None]
  <1>2. r \in Requests /\ r \notin Made
    BY <1>1 DEF Requests, Made
  <1>3. e \in Enrollments
    BY NoneAssumption DEF Enrollments
  <1>4. Writes(r, e)
    BY <1>1, <1>3 DEF Writes
  <1>5. e.client = "asking" /\ e.handler = "arriving" /\ e.decision = None /\ e.answer = None
    OBVIOUS
  <1> HIDE DEF r, e
  <1>6. QED
    BY <1>2, <1>4, <1>5 DEF Writes

\* A handler that looks at its request ends, or waits with the request on the list.
LEMMA ReceiveWrites ==
  ASSUME TypeOK, NEW r \in Requests, Receive(r)
  PROVE  /\ r \in Made /\ request[r].handler = "arriving"
         /\ \E e : /\ Writes(r, e)
                   /\ e.offer = request[r].offer /\ e.client = request[r].client
                   /\ e.decision = request[r].decision
                   /\ \/ e.handler = "waiting" /\ e.answer = request[r].answer
                         /\ pending' = pending \cup {r}
                      \/ /\ e.handler = "gone" /\ pending' = pending
                         /\ e.answer = IF request[r].answer = Lost THEN Lost ELSE Refused
  <1>1. r \in Made /\ request[r].handler = "arriving" /\ request[r] \in Enrollments
    BY MadeTyped DEF Receive, Made
  <1>2. CASE request[r].offer \in open
    <2> DEFINE e == [request[r] EXCEPT !.handler = "waiting"]
    <2>1. e \in Enrollments
      BY <1>1 DEF Enrollments
    <2>2. request' = [request EXCEPT ![r] = e] /\ pending' = pending \cup {r}
      BY <1>2 DEF Receive
    <2>3. QED
      BY <1>1, <2>1, <2>2 DEF Writes, Enrollments
  <1>3. CASE request[r].offer \notin open
    <2>1. Answers(r, Refused, "gone") /\ pending' = pending
      BY <1>3 DEF Receive
    <2>2. PICK e : /\ Writes(r, e)
                   /\ e.offer = request[r].offer /\ e.client = request[r].client
                   /\ e.decision = request[r].decision /\ e.handler = "gone"
                   /\ e.answer = IF request[r].answer = Lost THEN Lost ELSE Refused
      BY <1>1, <2>1, AnswersWrites, Acceptance
    <2>3. QED
      BY <1>1, <2>1, <2>2
  <1>4. QED
    BY <1>2, <1>3

\* The return of a call: it joins by an acceptance, or fails and mounts nothing.
LEMMA ReturnWrites ==
  ASSUME TypeOK, NEW r \in Requests, Return(r)
  PROVE  /\ r \in Made /\ request[r].client = "asking"
         /\ \E e : /\ Writes(r, e)
                   /\ e.offer = request[r].offer /\ e.handler = request[r].handler
                   /\ e.decision = request[r].decision /\ e.answer = request[r].answer
                   /\ \/ e.client = "failed" /\ mounted' = mounted
                      \/ /\ e.client = "joined"
                         /\ request[r].answer \in Decisions \ {Refused}
                         /\ request[r].handler = "gone"
                         /\ mounted' = [mounted EXCEPT ![Applicant(r)] = request[r].answer.network]
  <1>1. /\ r \in Made /\ request[r] \in Enrollments
        /\ request[r].client = "asking" /\ request[r].answer # None
        /\ request[r].answer = Lost \/ request[r].handler = "gone"
    BY MadeTyped, LostAssumption DEF Return, Asking, HasAnswer, Made
  <1> DEFINE joins == request[r].answer # Lost /\ request[r].answer.accepted
                      /\ mounted[Applicant(r)] \in {None, request[r].answer.network}
             e(client) == [request[r] EXCEPT !.client = client]
  <1>2. CASE joins
    <2>1. e("joined") \in Enrollments
      BY <1>1 DEF Enrollments
    <2>2. /\ request' = [request EXCEPT ![r] = e("joined")]
          /\ mounted' = [mounted EXCEPT ![Applicant(r)] = request[r].answer.network]
      BY <1>2 DEF Return
    <2>3. request[r].answer \in Decisions \ {Refused} /\ request[r].handler = "gone"
      BY <1>1, <1>2, Acceptance DEF Enrollments
    <2>4. QED
      BY <1>1, <2>1, <2>2, <2>3 DEF Writes, Enrollments
  <1>3. CASE ~joins
    <2>1. e("failed") \in Enrollments
      BY <1>1 DEF Enrollments
    <2>2. request' = [request EXCEPT ![r] = e("failed")] /\ mounted' = mounted
      BY <1>3 DEF Return
    <2>3. QED
      BY <1>1, <2>1, <2>2 DEF Writes, Enrollments
  <1>4. QED
    BY <1>2, <1>3

\* A broken stream, and the handler it ends.
LEMMA LoseWrites ==
  ASSUME TypeOK, NEW r \in Requests, LoseStream(r)
  PROVE  /\ r \in Made /\ request[r].client = "asking"
         /\ \E e : /\ Writes(r, e)
                   /\ e.offer = request[r].offer /\ e.client = request[r].client
                   /\ e.decision = request[r].decision /\ e.answer = Lost
                   /\ e.handler = IF request[r].handler = "arriving" THEN "gone"
                                  ELSE request[r].handler
  <1>1. r \in Made /\ request[r] \in Enrollments /\ request[r].client = "asking"
    BY MadeTyped DEF LoseStream, Asking, Made
  <1> DEFINE e == [request[r] EXCEPT !.answer = Lost,
                     !.handler = IF request[r].handler = "arriving" THEN "gone"
                                 ELSE request[r].handler]
  <1>2. e \in Enrollments
    BY <1>1 DEF Enrollments
  <1>3. request' = [request EXCEPT ![r] = e]
    BY <1>1 DEF LoseStream, TypeOK
  <1>4. QED
    BY <1>1, <1>2, <1>3 DEF Writes, Enrollments

\* A handler that waits chooses its answer; the list stays as it is.
LEMMA WakeWrites ==
  ASSUME TypeOK, NEW r \in Requests, Wake(r)
  PROVE  /\ r \in Made /\ request[r].handler = "waiting" /\ pending' = pending
         /\ \E e, x :
              /\ Writes(r, e) /\ x \in Choices(r)
              /\ e.offer = request[r].offer /\ e.client = request[r].client
              /\ e.decision = request[r].decision /\ e.handler = "ending"
              /\ e.answer = IF request[r].answer = Lost THEN Lost ELSE x
  <1>1. r \in Made /\ request[r].handler = "waiting" /\ pending' = pending
    BY DEF Wake, Made
  <1>2. PICK x \in Choices(r) : Answers(r, x, "ending")
    BY DEF Wake
  <1>3. x \in Decisions
    BY <1>1, ChoicesTyped
  <1>4. QED
    BY <1>1, <1>2, <1>3, AnswersWrites

\* A handler that has chosen takes its request off the list and is gone.
LEMMA FinishWrites ==
  ASSUME TypeOK, NEW r \in Requests, Finish(r)
  PROVE  /\ r \in Made /\ request[r].handler = "ending" /\ pending' = pending \ {r}
         /\ \E e : /\ Writes(r, e)
                   /\ e.offer = request[r].offer /\ e.client = request[r].client
                   /\ e.decision = request[r].decision /\ e.answer = request[r].answer
                   /\ e.handler = "gone"
  <1>1. /\ r \in Made /\ request[r] \in Enrollments
        /\ request[r].handler = "ending" /\ pending' = pending \ {r}
    BY MadeTyped DEF Finish, Ends, Made
  <1> DEFINE e == [request[r] EXCEPT !.handler = "gone"]
  <1>2. e \in Enrollments
    BY <1>1 DEF Enrollments
  <1>3. request' = [request EXCEPT ![r] = e]
    BY <1>1 DEF Finish, Ends
  <1>4. QED
    BY <1>1, <1>2, <1>3 DEF Writes, Enrollments

\* A call that gives its decision to the handler, or cannot.
LEMMA AnswerWrites ==
  ASSUME TypeOK, NEW c \in Operators, Answer(c)
  PROVE  /\ op[c] # Idle /\ op' = [op EXCEPT ![c] = Idle]
         /\ LET r == op[c].request IN
            \/ request' = request
            \/ /\ request[r].decision = None
               /\ \E e : /\ Writes(r, e)
                         /\ e.offer = request[r].offer /\ e.client = request[r].client
                         /\ e.decision \in Decisions
                         /\ e.decision # Refused => op[c].approve
                         /\ e.handler = request[r].handler /\ e.answer = request[r].answer
  <1> DEFINE r == op[c].request
             x == Decision(r, op[c].approve)
             e == [request[r] EXCEPT !.decision = x]
  <1>1. op[c] # Idle /\ op' = [op EXCEPT ![c] = Idle]
    BY DEF Answer
  <1>2. /\ r \in Made /\ op[c].approve \in BOOLEAN
        /\ x \in Decisions \cup {None} /\ (x # None => (x.accepted <=> op[c].approve))
    BY <1>1, OpTyped, DecisionTyped
  <1>3. request[r] \in Enrollments /\ r \in Requests
    BY <1>2, MadeTyped
  <1>4. CASE x = None
    BY <1>1, <1>4 DEF Answer
  <1>5. CASE x # None
    <2>1. x \in Decisions /\ (x # Refused => op[c].approve)
      BY <1>2, <1>5, Acceptance
    <2>2. request[r].decision = None /\ request' = [request EXCEPT ![r].decision = x]
      BY <1>5 DEF Answer
    <2>3. e \in Enrollments
      BY <1>3, <2>1 DEF Enrollments
    <2>4. request' = [request EXCEPT ![r] = e]
      BY <2>2
    <2>5. /\ e.offer = request[r].offer /\ e.client = request[r].client /\ e.decision = x
          /\ e.handler = request[r].handler /\ e.answer = request[r].answer
      BY <1>3 DEF Enrollments
    <2>6. Writes(r, e)
      BY <2>3, <2>4 DEF Writes
    <2> HIDE DEF e, x, r
    <2>7. QED
      BY <1>1, <2>1, <2>2, <2>5, <2>6 DEF r
  <1>6. QED
    BY <1>4, <1>5

\* The end of a daemon breaks its streams and ends its calls.
LEMMA GoneWrites ==
  ASSUME TypeOK, NEW d \in Daemons, Gone(d)
  PROVE  /\ request' \in [Requests -> Enrollments \cup {None}] /\ Made' = Made
         /\ \A r \in Made :
              /\ request'[r].offer = request[r].offer /\ request'[r].decision = request[r].decision
              /\ request'[r].client \in {request[r].client, "failed"}
              /\ request'[r].client = "joined" => request[r].client = "joined"
              /\ request[r].client = "joined" => request'[r].client = "joined"
              /\ request'[r].handler = IF Sponsor(r) = d THEN "gone" ELSE request[r].handler
              /\ \/ request'[r].answer = request[r].answer
                 \/ request[r].handler # "gone" /\ request'[r].answer = Lost
  <1> DEFINE e(r) == [request[r] EXCEPT
               !.client  = IF @ = "asking" /\ Applicant(r) = d THEN "failed" ELSE @,
               !.handler = IF Sponsor(r) = d THEN "gone" ELSE @,
               !.answer  = IF Sponsor(r) = d /\ request[r].handler # "gone" THEN Lost ELSE @]
  <1>1. \A r \in Requests : request'[r] = IF request[r] = None THEN None ELSE e(r)
    BY DEF Gone
  <1>2. \A r \in Made : e(r) \in Enrollments
    BY MadeTyped, ZenonT(60) DEF Enrollments
  <1>3. request' \in [Requests -> Enrollments \cup {None}] /\ Made' = Made
    BY <1>1, <1>2, NoneAssumption, ZenonT(60) DEF Gone, Made
  <1>4. ASSUME NEW r \in Made
        PROVE  /\ request'[r].offer = request[r].offer
               /\ request'[r].decision = request[r].decision
               /\ request'[r].client =
                    IF request[r].client = "asking" /\ Applicant(r) = d THEN "failed"
                    ELSE request[r].client
               /\ request'[r].handler = IF Sponsor(r) = d THEN "gone" ELSE request[r].handler
               /\ request'[r].answer =
                    IF Sponsor(r) = d /\ request[r].handler # "gone" THEN Lost
                    ELSE request[r].answer
    <2>1. request'[r] = e(r) /\ request[r] \in Enrollments
      BY <1>1, <1>4, MadeTyped DEF Made
    <2>2. QED
      BY <2>1 DEF Enrollments
  <1>5. QED
    BY <1>3, <1>4

\* A step keeps the types.
LEMMA TypeStep == TypeOK /\ [Next]_vars => TypeOK'
  <1> SUFFICES ASSUME TypeOK, [Next]_vars PROVE TypeOK'
    OBVIOUS
  <1>0. /\ \A d \in Daemons, k \in 1..MaxNetworks : <<d, k>> \in Networks
        /\ \A d \in Daemons, k \in 1..MaxOffers : <<d, k>> \in Offers
        /\ MaxNetworks \in Nat /\ MaxOffers \in Nat /\ MaxFaults \in Nat
    BY BoundsAssumption DEF Networks, Offers
  <1>1. ASSUME UNCHANGED vars PROVE TypeOK'
    BY <1>1 DEF vars, membership, offering, TypeOK, Made
  <1>2. ASSUME NEW d \in Daemons, CreateNetwork(d) PROVE TypeOK'
    BY <1>0, <1>2 DEF CreateNetwork, TypeOK, Made, offering
  <1>3. ASSUME NEW d \in Daemons, JoinNetwork(d) \/ LeaveNetwork(d) PROVE TypeOK'
    BY <1>3 DEF JoinNetwork, LeaveNetwork, TypeOK, Made, offering
  <1>4. ASSUME NEW d \in Daemons, Listen(d) PROVE TypeOK'
    BY <1>0, <1>4 DEF Listen, TypeOK, Made, membership
  <1>5. ASSUME NEW o \in Offers, CloseOffer(o) \/ Expire(o) PROVE TypeOK'
    BY <1>5 DEF CloseOffer, Expire, TypeOK, Made, membership
  <1>6. ASSUME NEW d \in Daemons, Request(d) PROVE TypeOK'
    <2>1. PICK r \in Requests, e \in Enrollments : Writes(r, e)
      BY <1>6, RequestWrites
    <2>2. request' \in [Requests -> Enrollments \cup {None}] /\ Made' = Made \cup {r}
      BY <2>1, WritesTyped
    <2>3. UNCHANGED <<membership, offering, pending, op, approved, running, faults>>
      BY <1>6 DEF Request
    <2>4. QED
      BY <2>2, <2>3 DEF TypeOK, membership, offering
  <1>7. ASSUME NEW r \in Requests, Receive(r) PROVE TypeOK'
    BY <1>7, ReceiveWrites, WritesTyped DEF Receive, TypeOK, membership, offering
  <1>8. ASSUME NEW r \in Requests, Wake(r) PROVE TypeOK'
    BY <1>8, WakeWrites, WritesTyped DEF Wake, TypeOK, membership, offering
  <1>9. ASSUME NEW r \in Requests, Finish(r) PROVE TypeOK'
    BY <1>9, FinishWrites, WritesTyped DEF Finish, TypeOK, membership, offering
  <1>10. ASSUME NEW r \in Requests, Return(r) PROVE TypeOK'
    <2>1. mounted' \in [Daemons -> Networks \cup {None}]
      BY <1>10, ReturnWrites, MadeTyped, Acceptance DEF TypeOK
    <2>2. QED
      BY <1>10, <2>1, ReturnWrites, WritesTyped DEF Return, TypeOK, offering
  <1>11. ASSUME NEW r \in Requests, LoseStream(r) PROVE TypeOK'
    <2>1. faults' \in 0..MaxFaults
      BY <1>0, <1>11 DEF LoseStream, Fault, TypeOK
    <2>2. PICK e : r \in Made /\ Writes(r, e)
      BY <1>11, LoseWrites
    <2>3. request' \in [Requests -> Enrollments \cup {None}] /\ Made' = Made
      BY <2>2, WritesTyped
    <2>4. QED
      BY <1>11, <2>1, <2>3 DEF LoseStream, TypeOK, membership, offering
  <1>12. ASSUME NEW c \in Operators, Decide(c) PROVE TypeOK'
    BY <1>12 DEF Decide, Take, Begins, TypeOK, Made, membership, offering
  <1>13. ASSUME NEW c \in Operators, Answer(c) PROVE TypeOK'
    <2>1. op[c].request \in Made /\ op[c].request \in Requests
      BY <1>13, AnswerWrites, OpTyped, MadeTyped
    <2>2. request' \in [Requests -> Enrollments \cup {None}] /\ Made' = Made
      BY <1>13, <2>1, AnswerWrites, WritesTyped DEF TypeOK, Made
    <2>3. op' \in [Operators -> {Idle} \cup [do : {"decide"}, request : Made', approve : BOOLEAN]]
      BY <1>13, <2>2, AnswerWrites DEF TypeOK
    <2>4. QED
      BY <1>13, <2>2, <2>3 DEF Answer, TypeOK, membership, offering
  <1>14. ASSUME NEW d \in Daemons, Close(d) PROVE TypeOK'
    BY <1>14 DEF Close, TypeOK, Made, membership, offering
  <1>15. ASSUME NEW d \in Daemons, Stop(d) PROVE TypeOK'
    BY <1>15, GoneWrites DEF Stop, Gone, TypeOK, membership
  <1>16. ASSUME NEW d \in Daemons, Crash(d) PROVE TypeOK'
    <2>1. faults' \in 0..MaxFaults
      BY <1>0, <1>16 DEF Crash, Fault, TypeOK
    <2>2. request' \in [Requests -> Enrollments \cup {None}] /\ Made' = Made
      BY <1>16, GoneWrites DEF Crash
    <2>3. op' \in [Operators -> {Idle} \cup [do : {"decide"}, request : Made', approve : BOOLEAN]]
      BY <1>16, <2>2 DEF Crash, TypeOK
    <2>4. QED
      BY <1>16, <2>1, <2>2, <2>3 DEF Crash, Gone, TypeOK, membership
  <1>17. QED
    BY <1>1, <1>2, <1>3, <1>4, <1>5, <1>6, <1>7, <1>8, <1>9, <1>10, <1>11, <1>12, <1>13, <1>14,
       <1>15, <1>16 DEF Next, Must

\* The invariant without the types, for the lemmas on single actions.
Bonds == Answered /\ ByUsers /\ InHand /\ OneDecision /\ Listed

\* The bonds are about requests, calls and users only.
LEMMA FrameStep ==
  ASSUME Core, UNCHANGED <<request, pending, op, approved>>
  PROVE  Bonds'
  BY DEF Core, Bonds, Answered, ByUsers, Approved, InHand, OneDecision, Listed, Made

\* A new request has nobody who knows it yet.
LEMMA RequestStep ==
  ASSUME Core, NEW a \in Daemons, Request(a)
  PROVE  Bonds'
  <1>1. PICK r \in Requests, e \in Enrollments :
          /\ Writes(r, e) /\ r \notin Made
          /\ e.client = "asking" /\ e.handler = "arriving" /\ e.decision = None /\ e.answer = None
    BY RequestWrites DEF Core
  <1>2. /\ Made' = Made \cup {r} /\ request'[r] = e
        /\ \A s \in Made : request'[s] = request[s]
    BY <1>1, WritesTyped, MadeTyped DEF Core
  <1>3. pending' = pending /\ op' = op /\ approved' = approved
    BY DEF Request
  <1>4. /\ pending \subseteq Made /\ r \notin pending
        /\ \A c \in Operators : op[c] # Idle => op[c].request \in Made /\ op[c].request # r
    BY <1>1, OpTyped DEF Core, TypeOK
  <1>5. Answered'
    BY <1>1, <1>2, NoneAssumption DEF Core, Answered
  <1>6. ByUsers'
    BY <1>1, <1>2, <1>3, NoneAssumption DEF Core, ByUsers, Approved
  <1>7. InHand' /\ OneDecision' /\ Listed'
    BY <1>2, <1>3, <1>4 DEF Core, InHand, OneDecision, Listed
  <1>8. QED
    BY <1>5, <1>6, <1>7 DEF Bonds

\* The request that a handler puts on the list is undecided and in nobody's hands.
LEMMA ReceiveStep ==
  ASSUME Core, NEW r \in Requests, Receive(r)
  PROVE  Bonds'
  <1>1. r \in Made /\ request[r].handler = "arriving"
    BY ReceiveWrites DEF Core
  <1>2. PICK e :
          /\ Writes(r, e)
          /\ e.offer = request[r].offer /\ e.client = request[r].client
          /\ e.decision = request[r].decision
          /\ \/ e.handler = "waiting" /\ e.answer = request[r].answer
                /\ pending' = pending \cup {r}
             \/ /\ e.handler = "gone" /\ pending' = pending
                /\ e.answer = IF request[r].answer = Lost THEN Lost ELSE Refused
    BY ReceiveWrites DEF Core
  <1>3. Made' = Made /\ request'[r] = e /\ \A s \in Made \ {r} : request'[s] = request[s]
    BY <1>1, <1>2, WritesTyped, MadeTyped DEF Core
  <1>4. op' = op /\ approved' = approved
    BY DEF Receive
  <1>5. /\ r \notin pending /\ request[r].decision = None
        /\ request[r].answer \in {None, Lost} /\ request[r].client # "joined"
        /\ \A c \in Operators : op[c] # Idle => op[c].request # r
    BY <1>1 DEF Core, Listed, Answered, InHand
  <1>6. pending \subseteq Made /\ \A c \in Operators : op[c] # Idle => op[c].request \in Made
    BY OpTyped DEF Core, TypeOK
  <1>7. Answered'
    BY <1>1, <1>2, <1>3, <1>5, NoneAssumption, LostAssumption DEF Core, Answered
  <1>8. ByUsers'
    BY <1>2, <1>3, <1>4, <1>5, NoneAssumption DEF Core, ByUsers, Approved
  <1>9. InHand' /\ OneDecision' /\ Listed'
    BY <1>2, <1>3, <1>4, <1>5, <1>6 DEF Core, InHand, OneDecision, Listed
  <1>10. QED
    BY <1>7, <1>8, <1>9 DEF Bonds

\* What a handler accepts was decided.
LEMMA WakeStep ==
  ASSUME Core, NEW r \in Requests, Wake(r)
  PROVE  Bonds'
  <1>1. r \in Made /\ request[r].handler = "waiting" /\ pending' = pending
    BY WakeWrites DEF Core
  <1>2. PICK e, x :
          /\ Writes(r, e) /\ x \in Choices(r)
          /\ e.offer = request[r].offer /\ e.client = request[r].client
          /\ e.decision = request[r].decision /\ e.handler = "ending"
          /\ e.answer = IF request[r].answer = Lost THEN Lost ELSE x
    BY WakeWrites DEF Core
  <1>3. Made' = Made /\ request'[r] = e /\ \A s \in Made \ {r} : request'[s] = request[s]
    BY <1>1, <1>2, WritesTyped, MadeTyped DEF Core
  <1>4. op' = op /\ approved' = approved
    BY DEF Wake
  <1>5. request[r].answer \in {None, Lost} /\ request[r].client # "joined"
    BY <1>1 DEF Core, Answered
  <1>6. x # Refused => x = request[r].decision
    BY <1>2 DEF Choices, Decided, TimesOut, Cancelled
  <1>7. pending \subseteq Made /\ \A c \in Operators : op[c] # Idle => op[c].request \in Made
    BY OpTyped DEF Core, TypeOK
  <1>8. Answered'
    BY <1>1, <1>2, <1>3, <1>5, <1>6, LostAssumption DEF Core, Answered
  <1>9. ByUsers'
    BY <1>2, <1>3, <1>4 DEF Core, ByUsers, Approved
  <1>10. InHand' /\ OneDecision' /\ Listed'
    BY <1>1, <1>2, <1>3, <1>4, <1>7 DEF Core, InHand, OneDecision, Listed
  <1>11. QED
    BY <1>8, <1>9, <1>10 DEF Bonds

\* The end of a handler changes nothing of its answer.
LEMMA FinishStep ==
  ASSUME Core, NEW r \in Requests, Finish(r)
  PROVE  Bonds'
  <1>1. r \in Made /\ request[r].handler = "ending" /\ pending' = pending \ {r}
    BY FinishWrites DEF Core
  <1>2. PICK e :
          /\ Writes(r, e) /\ e.offer = request[r].offer /\ e.client = request[r].client
          /\ e.decision = request[r].decision /\ e.answer = request[r].answer
          /\ e.handler = "gone"
    BY FinishWrites DEF Core
  <1>3. Made' = Made /\ request'[r] = e /\ \A s \in Made \ {r} : request'[s] = request[s]
    BY <1>1, <1>2, WritesTyped, MadeTyped DEF Core
  <1>4. op' = op /\ approved' = approved
    BY DEF Finish
  <1>5. pending \subseteq Made /\ \A c \in Operators : op[c] # Idle => op[c].request \in Made
    BY OpTyped DEF Core, TypeOK
  <1>6. Answered' /\ ByUsers'
    BY <1>2, <1>3, <1>4 DEF Core, Answered, ByUsers, Approved
  <1>7. InHand' /\ OneDecision' /\ Listed'
    BY <1>1, <1>2, <1>3, <1>4, <1>5 DEF Core, InHand, OneDecision, Listed
  <1>8. QED
    BY <1>6, <1>7 DEF Bonds

\* The return of a call changes nothing of the answer it has.
LEMMA ReturnStep ==
  ASSUME Core, NEW r \in Requests, Return(r)
  PROVE  Bonds'
  <1>1. r \in Made
    BY ReturnWrites DEF Core
  <1>2. PICK e :
          /\ Writes(r, e)
          /\ e.offer = request[r].offer /\ e.handler = request[r].handler
          /\ e.decision = request[r].decision /\ e.answer = request[r].answer
          /\ e.client = "joined" =>
               request[r].answer \in Decisions \ {Refused} /\ request[r].handler = "gone"
    BY ReturnWrites DEF Core
  <1>3. Made' = Made /\ request'[r] = e /\ \A s \in Made \ {r} : request'[s] = request[s]
    BY <1>1, <1>2, WritesTyped, MadeTyped DEF Core
  <1>4. op' = op /\ approved' = approved /\ pending' = pending
    BY DEF Return
  <1>5. pending \subseteq Made /\ \A c \in Operators : op[c] # Idle => op[c].request \in Made
    BY OpTyped DEF Core, TypeOK
  <1>6. Answered' /\ ByUsers'
    BY <1>2, <1>3, <1>4 DEF Core, Answered, ByUsers, Approved
  <1>7. InHand' /\ OneDecision' /\ Listed'
    BY <1>2, <1>3, <1>4, <1>5 DEF Core, InHand, OneDecision, Listed
  <1>8. QED
    BY <1>6, <1>7 DEF Bonds

\* A broken stream ends a handler that has not seen the request, and no other.
LEMMA LoseStep ==
  ASSUME Core, NEW r \in Requests, LoseStream(r)
  PROVE  Bonds'
  <1>1. r \in Made /\ request[r].client = "asking"
    BY LoseWrites DEF Core
  <1>2. PICK e :
          /\ Writes(r, e)
          /\ e.offer = request[r].offer /\ e.client = request[r].client
          /\ e.decision = request[r].decision /\ e.answer = Lost
          /\ e.handler = IF request[r].handler = "arriving" THEN "gone" ELSE request[r].handler
    BY LoseWrites DEF Core
  <1>3. Made' = Made /\ request'[r] = e /\ \A s \in Made \ {r} : request'[s] = request[s]
    BY <1>1, <1>2, WritesTyped, MadeTyped DEF Core
  <1>4. op' = op /\ approved' = approved /\ pending' = pending
    BY DEF LoseStream
  <1>5. pending \subseteq Made /\ \A c \in Operators : op[c] # Idle => op[c].request \in Made
    BY OpTyped DEF Core, TypeOK
  <1>6. Answered'
    BY <1>1, <1>2, <1>3, LostAssumption DEF Core, Answered
  <1>7. ByUsers'
    BY <1>2, <1>3, <1>4 DEF Core, ByUsers, Approved
  <1>8. InHand' /\ OneDecision' /\ Listed'
    BY <1>2, <1>3, <1>4, <1>5 DEF Core, InHand, OneDecision, Listed
  <1>9. QED
    BY <1>6, <1>7, <1>8 DEF Bonds

\* The call that takes a request off the list is the only one to have it.
LEMMA DecideStep ==
  ASSUME Core, NEW c \in Operators, Decide(c)
  PROVE  Bonds'
  <1>1. PICK r \in pending, approve \in BOOLEAN :
          /\ op' = [op EXCEPT ![c] = [do |-> "decide", request |-> r, approve |-> approve]]
          /\ approved' = IF approve THEN approved \cup {r} ELSE approved
          /\ pending' = pending \ {r}
    BY DEF Decide, Take, Begins
  <1>2. request' = request /\ Made' = Made
    BY DEF Decide, Made
  <1>3. /\ op'[c].request = r /\ op'[c].approve = approve
        /\ \A o \in Operators \ {c} : op'[o] = op[o]
    BY <1>1 DEF Core, TypeOK
  <1>4. \A o \in Operators \ {c} : op[o] # Idle => op[o].request # r
    BY DEF Core, InHand
  <1>5. request[r].decision = None /\ request[r].handler # "arriving"
    BY DEF Core, Listed
  <1>6. Answered'
    BY <1>2 DEF Core, Answered
  <1>7. ByUsers'
    BY <1>1, <1>2, <1>3 DEF Core, ByUsers, Approved
  <1>8. InHand' /\ OneDecision' /\ Listed'
    BY <1>1, <1>2, <1>3, <1>4, <1>5 DEF Core, InHand, OneDecision, Listed
  <1>9. QED
    BY <1>6, <1>7, <1>8 DEF Bonds

\* A decision goes to a request that has none.
LEMMA AnswerStep ==
  ASSUME Core, NEW c \in Operators, Answer(c)
  PROVE  Bonds'
  <1> DEFINE r == op[c].request
  <1>1. /\ op[c] # Idle /\ op' = [op EXCEPT ![c] = Idle] /\ approved' = approved
        /\ r \in Made /\ r \in Requests /\ pending' = pending
    BY AnswerWrites, OpTyped, MadeTyped DEF Core, Answer
  <1>2. /\ request[r].decision = None /\ request[r].handler # "arriving" /\ r \notin pending
        /\ request[r].answer \notin Decisions \ {Refused}
        /\ op[c].approve => r \in approved
        /\ \A o \in Operators \ {c} : op[o] # Idle => op[o].request # r
    BY <1>1, NoneAssumption DEF Core, OneDecision, InHand, ByUsers, Answered
  <1>3. /\ op'[c] = Idle
        /\ \A o \in Operators \ {c} : op'[o] = op[o]
    BY <1>1 DEF Core, TypeOK
  <1>4. pending \subseteq Made /\ \A o \in Operators : op[o] # Idle => op[o].request \in Made
    BY OpTyped DEF Core, TypeOK
  <1>5. CASE request' = request
    <2>1. Answered' /\ ByUsers'
      BY <1>1, <1>3, <1>5 DEF Core, Answered, ByUsers, Approved, Made
    <2>2. InHand' /\ OneDecision' /\ Listed'
      BY <1>1, <1>3, <1>5 DEF Core, InHand, OneDecision, Listed
    <2>3. QED
      BY <2>1, <2>2 DEF Bonds
  <1>6. ASSUME NEW e, Writes(r, e), e.client = request[r].client,
               e.decision \in Decisions, e.decision # Refused => op[c].approve,
               e.handler = request[r].handler, e.answer = request[r].answer
        PROVE  Bonds'
    <2>1. Made' = Made /\ request'[r] = e /\ \A s \in Made \ {r} : request'[s] = request[s]
      BY <1>1, <1>6, WritesTyped, MadeTyped DEF Core
    <2>2. Answered'
      BY <1>2, <1>6, <2>1 DEF Core, Answered
    <2>3. ByUsers'
      BY <1>1, <1>2, <1>3, <1>6, <2>1 DEF Core, ByUsers, Approved
    <2>4. InHand' /\ OneDecision' /\ Listed'
      BY <1>1, <1>2, <1>3, <1>4, <1>6, <2>1 DEF Core, InHand, OneDecision, Listed
    <2>5. QED
      BY <2>2, <2>3, <2>4 DEF Bonds
  <1>7. QED
    BY <1>5, <1>6, AnswerWrites DEF Core

\* What a daemon takes with it when it ends, whatever becomes of the calls.
LEMMA GoneStep ==
  ASSUME Core, NEW d \in Daemons, Gone(d),
         \A c \in Operators : op'[c] \in {op[c], Idle}
  PROVE  Bonds'
  <1>1. /\ Made' = Made
        /\ \A r \in Made :
             /\ request'[r].decision = request[r].decision
             /\ request'[r].client = "joined" => request[r].client = "joined"
             /\ request'[r].handler = IF Sponsor(r) = d THEN "gone" ELSE request[r].handler
             /\ \/ request'[r].answer = request[r].answer
                \/ request[r].handler # "gone" /\ request'[r].answer = Lost
    BY GoneWrites DEF Core
  <1>2. approved' = approved /\ pending' = {r \in pending : Sponsor(r) # d}
    BY DEF Gone
  <1>3. pending \subseteq Made /\ \A c \in Operators : op[c] # Idle => op[c].request \in Made
    BY OpTyped DEF Core, TypeOK
  <1>4. Answered'
    BY <1>1, LostAssumption DEF Core, Answered
  <1>5. ByUsers'
    BY <1>1, <1>2 DEF Core, ByUsers, Approved
  <1>6. InHand' /\ OneDecision' /\ Listed'
    BY <1>1, <1>2, <1>3 DEF Core, InHand, OneDecision, Listed
  <1>7. QED
    BY <1>4, <1>5, <1>6 DEF Bonds

\* Every step keeps the bonds between requests, calls and users.
LEMMA CoreStep == Core /\ [Next]_vars => Core'
  <1> SUFFICES ASSUME Core, [Next]_vars PROVE Bonds'
    BY TypeStep DEF Core, Bonds
  <1>1. CASE UNCHANGED vars
    BY <1>1, FrameStep DEF vars
  <1>2. ASSUME NEW d \in Daemons,
               CreateNetwork(d) \/ JoinNetwork(d) \/ LeaveNetwork(d) \/ Listen(d) \/ Close(d)
        PROVE  Bonds'
    BY <1>2, FrameStep DEF CreateNetwork, JoinNetwork, LeaveNetwork, Listen, Close
  <1>3. ASSUME NEW o \in Offers, CloseOffer(o) \/ Expire(o) PROVE Bonds'
    BY <1>3, FrameStep DEF CloseOffer, Expire
  <1>4. ASSUME NEW d \in Daemons, Stop(d) PROVE Bonds'
    BY <1>4, GoneStep DEF Stop
  <1>5. ASSUME NEW d \in Daemons, Crash(d) PROVE Bonds'
    <2>1. \A c \in Operators : op'[c] \in {op[c], Idle}
      BY <1>5 DEF Crash
    <2>2. QED
      BY <1>5, <2>1, GoneStep DEF Crash
  <1>6. QED
    BY <1>1, <1>2, <1>3, <1>4, <1>5, RequestStep, ReceiveStep, WakeStep, FinishStep, ReturnStep,
       LoseStep, DecideStep, AnswerStep DEF Next, Must

\* The ways in which a step may change the record of a request: its handler takes it
\* up, chooses its answer or ends, its call or its stream ends, a call decides it.
TakenUp(r) ==
  /\ request[r].handler = "arriving" /\ request'[r].handler \in {"waiting", "gone"}
  /\ request'[r].decision = request[r].decision
Chosen(r) ==
  /\ request[r].handler = "waiting" /\ request'[r].handler = "ending"
  /\ request'[r].decision = request[r].decision
  /\ \E x \in Choices(r) : request'[r].answer \in {x, Lost}
Ended(r) ==
  /\ request'[r].decision = request[r].decision
  /\ request'[r].handler \in {request[r].handler, "gone"}
  /\ request'[r].answer \in {request[r].answer, Lost}
DecidedBy(r) ==
  /\ \E c \in Operators : op[c] # Idle /\ op[c].request = r
  /\ request'[r].handler = request[r].handler /\ request'[r].answer = request[r].answer
  /\ request'[r].decision # None
Changes(r) ==
  /\ r \in Made' /\ request'[r].offer = request[r].offer
  /\ request[r].client = "joined" =>
       request'[r].client = "joined" /\ request'[r].answer = request[r].answer
  /\ TakenUp(r) \/ Chosen(r) \/ Ended(r) \/ DecidedBy(r)

\* A request that is not concerned only stays as it is.
LEMMA Untouched ==
  ASSUME Core, NEW r \in Made,
         \/ request' = request
         \/ \E s \in Requests \ {r} : \E e : Writes(s, e)
  PROVE  Changes(r)
  <1>1. r \in Requests /\ request[r] # None
    BY MadeTyped DEF Core
  <1>2. r \in Made' /\ request'[r] = request[r]
    BY <1>1, WritesTyped DEF Core, Made
  <1>3. QED
    BY <1>2 DEF Changes, Ended

\* What becomes of a request in a step.
LEMMA RequestsChange ==
  ASSUME Core, [Next]_vars, NEW r \in Made
  PROVE  Changes(r)
  <1>1. /\ r \in Requests /\ (request[r].handler = "arriving" => request[r].client # "joined")
        /\ request[r].client = "joined" =>
             request[r].handler = "gone" /\ request[r].decision # None
    BY MadeTyped, NoneAssumption DEF Core, Answered
  <1>2. \A e : Writes(r, e) => r \in Made' /\ request'[r] = e
    BY <1>1, WritesTyped DEF Core
  <1>3. ASSUME NEW a \in Daemons, Request(a) PROVE Changes(r)
    BY <1>3, RequestWrites, Untouched DEF Core
  <1>4. ASSUME Receive(r) PROVE Changes(r)
    BY <1>1, <1>2, <1>4, ReceiveWrites DEF Core, Changes, TakenUp
  <1>5. ASSUME Wake(r) PROVE Changes(r)
    BY <1>1, <1>2, <1>5, WakeWrites DEF Core, Changes, Chosen
  <1>6. ASSUME Finish(r) PROVE Changes(r)
    BY <1>1, <1>2, <1>6, FinishWrites DEF Core, Changes, Ended
  <1>7. ASSUME Return(r) PROVE Changes(r)
    BY <1>1, <1>2, <1>7, ReturnWrites DEF Core, Changes, Ended
  <1>8. ASSUME LoseStream(r) PROVE Changes(r)
    BY <1>1, <1>2, <1>8, LoseWrites DEF Core, Changes, Ended
  <1>9. ASSUME NEW s \in Requests \ {r},
               Receive(s) \/ Wake(s) \/ Finish(s) \/ Return(s) \/ LoseStream(s)
        PROVE  Changes(r)
    BY <1>9, ReceiveWrites, WakeWrites, FinishWrites, ReturnWrites, LoseWrites, Untouched DEF Core
  <1>10. ASSUME NEW c \in Operators, Answer(c) PROVE Changes(r)
    <2>1. op[c] # Idle /\ op[c].request \in Requests
      BY <1>10, AnswerWrites, OpTyped, MadeTyped DEF Core
    <2>2. CASE request' = request \/ op[c].request # r
      BY <1>10, <2>1, <2>2, AnswerWrites, Untouched DEF Core
    <2>3. CASE request' # request /\ op[c].request = r
      BY <1>1, <1>2, <1>10, <2>1, <2>3, AnswerWrites, NoneAssumption DEF Core, Changes, DecidedBy
    <2>4. QED
      BY <2>2, <2>3
  <1>11. ASSUME NEW d \in Daemons, Stop(d) \/ Crash(d) PROVE Changes(r)
    BY <1>1, <1>11, GoneWrites DEF Stop, Crash, Core, Changes, Ended
  <1>12. CASE \/ \E d \in Daemons : \/ CreateNetwork(d) \/ JoinNetwork(d) \/ LeaveNetwork(d)
                                    \/ Listen(d) \/ Close(d)
              \/ \E o \in Offers : CloseOffer(o) \/ Expire(o)
              \/ \E c \in Operators : Decide(c)
              \/ UNCHANGED vars
    BY <1>12, Untouched DEF CreateNetwork, JoinNetwork, LeaveNetwork, Listen, Close, CloseOffer,
                            Expire, Decide, vars
  <1>13. QED
    BY <1>1, <1>3, <1>4, <1>5, <1>6, <1>7, <1>8, <1>9, <1>10, <1>11, <1>12 DEF Next, Must

\* A new request is undecided and unanswered.
LEMMA RequestsBegin ==
  ASSUME Core, [Next]_vars, NEW r \in Made', r \notin Made
  PROVE  request'[r].handler = "arriving" /\ request'[r].decision = None /\ request'[r].answer = None
  <1>1. ASSUME NEW a \in Daemons, Request(a)
        PROVE  /\ request'[r].handler = "arriving" /\ request'[r].decision = None
               /\ request'[r].answer = None
    BY <1>1, RequestWrites, WritesTyped DEF Core
  <1>2. ASSUME NEW s \in Requests,
               Receive(s) \/ Wake(s) \/ Finish(s) \/ Return(s) \/ LoseStream(s)
        PROVE  FALSE
    BY <1>2, ReceiveWrites, WakeWrites, FinishWrites, ReturnWrites, LoseWrites, WritesTyped DEF Core
  <1>3. ASSUME NEW c \in Operators, Answer(c) PROVE FALSE
    <2>1. op[c].request \in Made /\ op[c].request \in Requests
      BY <1>3, AnswerWrites, OpTyped, MadeTyped DEF Core
    <2>2. Made' = Made
      BY <1>3, <2>1, AnswerWrites, WritesTyped DEF Core, Made
    <2>3. QED
      BY <2>2
  <1>4. ASSUME NEW d \in Daemons, Stop(d) \/ Crash(d) PROVE FALSE
    BY <1>4, GoneWrites DEF Stop, Crash, Core
  <1>5. CASE UNCHANGED request
    BY <1>5 DEF Made
  <1>6. QED
    BY <1>1, <1>2, <1>3, <1>4, <1>5
      DEF Next, Must, CreateNetwork, JoinNetwork, LeaveNetwork, Listen, Close, CloseOffer, Expire,
          Decide, vars

\* What is late stays late: requests keep their offer.
LEMMA LateStays ==
  ASSUME Core, [Next]_vars, NEW r \in Made, Late(r)
  PROVE  Late(r)'
  <1>1. request'[r].offer = request[r].offer /\ Sponsor(r) \in Daemons
    BY RequestsChange, MadeTyped DEF Core, Changes
  <1>2. expired \subseteq expired'
    BY DEF Next, Must, CreateNetwork, JoinNetwork, LeaveNetwork, Listen, CloseOffer, Expire, Request,
           Receive, Wake, Finish, Return, LoseStream, Decide, Answer, Close, Stop, Crash, Gone,
           offering, vars
  <1>3. \A d \in Daemons : running[d] # "up" => running'[d] # "up"
    BY DEF Next, Must, CreateNetwork, JoinNetwork, LeaveNetwork, Listen, CloseOffer, Expire, Request,
           Receive, Wake, Finish, Return, LoseStream, Decide, Answer, Close, Stop, Crash, Gone, Core,
           TypeOK, offering, vars
  <1>4. QED
    BY <1>1, <1>2, <1>3 DEF Late, Sponsor

\* A call that gets to work takes its request off the list.
LEMMA CallsTake ==
  ASSUME Core, [Next]_vars, NEW c \in Operators
  PROVE  \/ op'[c] \in {op[c], Idle}
         \/ op'[c].request \in pending /\ request' = request
  <1>1. CASE UNCHANGED op
    BY <1>1
  <1>2. ASSUME NEW o \in Operators, Decide(o)
        PROVE  (op'[c] = op[c] \/ op'[c].request \in pending) /\ request' = request
    BY <1>2 DEF Decide, Take, Begins, Core, TypeOK
  <1>3. ASSUME NEW o \in Operators, Answer(o) PROVE op'[c] \in {op[c], Idle}
    BY <1>3, AnswerWrites DEF Core, TypeOK
  <1>4. ASSUME NEW d \in Daemons, Stop(d) \/ Crash(d) PROVE op'[c] \in {op[c], Idle}
    BY <1>4 DEF Stop, Crash
  <1>5. QED
    BY <1>1, <1>2, <1>3, <1>4
      DEF Next, Must, CreateNetwork, JoinNetwork, LeaveNetwork, Listen, Close, Request, CloseOffer,
          Expire, Receive, Wake, Finish, Return, LoseStream, vars

\* What a late handler chooses by itself is a refusal.
LEMMA LateChoice ==
  ASSUME NEW r \in Made, NEW x \in Choices(r), x # request[r].decision
  PROVE  x = Refused /\ Late(r)
  BY DEF Choices, Decided, TimesOut, Cancelled, Late

\* A handler that ends with a decision still to come does so late.
LEMMA GivenUpStep == Core /\ GivenUp /\ [Next]_vars => GivenUp'
  <1> SUFFICES ASSUME Core, GivenUp, [Next]_vars, NEW r \in Made',
                      request'[r].handler = "ending", request'[r].decision = None
               PROVE  Late(r)'
    BY DEF GivenUp, Late
  <1>1. r \in Made
    BY RequestsBegin
  <1>2. CASE Chosen(r)
    <2>1. request[r].decision = None
      BY <1>2 DEF Chosen
    <2>2. \E x \in Choices(r) : x # None
      BY <1>1, <1>2, ChoicesTyped, NoneAssumption DEF Core, Chosen
    <2>3. Late(r)
      BY <1>1, <2>1, <2>2, LateChoice
    <2>4. QED
      BY <1>1, <2>3, LateStays
  <1>3. CASE TakenUp(r)
    BY <1>3 DEF TakenUp
  <1>4. CASE Ended(r) \/ DecidedBy(r)
    <2>1. Late(r)
      BY <1>1, <1>4 DEF Ended, DecidedBy, GivenUp
    <2>2. QED
      BY <1>1, <2>1, LateStays
  <1>5. QED
    BY <1>1, <1>2, <1>3, <1>4, RequestsChange DEF Changes

\* A refusal of a request that is in hand or approved is an old one, or late.
LEMMA Refusals ==
  ASSUME Core, [Next]_vars, NEW r \in Made, request'[r].answer = Refused,
         request[r].handler # "arriving", request[r].decision # Refused
  PROVE  request[r].answer = Refused \/ Late(r)
  <1>1. Lost # Refused
    BY Acceptance, LostAssumption
  <1>2. CASE Chosen(r)
    BY <1>1, <1>2, LateChoice DEF Chosen
  <1>3. CASE TakenUp(r) \/ Ended(r) \/ DecidedBy(r)
    BY <1>1, <1>3 DEF TakenUp, Ended, DecidedBy
  <1>4. QED
    BY <1>2, <1>3, RequestsChange DEF Changes

\* A request in hand that is refused was refused late.
LEMMA OvertakenStep == Core /\ GivenUp /\ Overtaken /\ [Next]_vars => Overtaken'
  <1> SUFFICES ASSUME Core, GivenUp, Overtaken, [Next]_vars, NEW c \in Operators, NEW r,
                      op'[c] # Idle, op'[c].request = r, request'[r].answer = Refused
               PROVE  Late(r)'
    BY DEF Overtaken, Late
  <1>1. CASE op'[c] = op[c]
    <2>1. /\ r \in Made /\ request[r].decision = None /\ request[r].handler # "arriving"
          /\ request[r].answer = Refused => Late(r)
      BY <1>1, OpTyped DEF Core, OneDecision, InHand, Overtaken
    <2>2. Late(r)
      BY <2>1, Refusals, Acceptance, NoneAssumption
    <2>3. QED
      BY <2>1, <2>2, LateStays
  <1>2. CASE r \in pending /\ request' = request
    <2>1. r \in Made /\ request[r].decision = None /\ request[r].handler = "ending"
      BY <1>2, Acceptance, NoneAssumption, LostAssumption DEF Core, TypeOK, Listed, Answered
    <2>2. QED
      BY <2>1, LateStays DEF GivenUp
  <1>3. QED
    BY <1>1, <1>2, CallsTake

\* An approved request that is refused was refused late.
LEMMA KeptStep ==
  Core /\ Overtaken /\ DecisionsAreKept /\ [Next]_vars => DecisionsAreKept'
  <1> SUFFICES ASSUME Core, Overtaken, DecisionsAreKept, [Next]_vars, NEW r \in Made',
                      Approved(r)', request'[r].answer = Refused
               PROVE  Late(r)'
    BY DEF DecisionsAreKept, Late
  <1>1. r \in Made
    BY RequestsBegin, NoneAssumption DEF Approved
  <1>2. CASE Approved(r)
    <2>1. request[r].decision # Refused /\ request[r].handler # "arriving"
      BY <1>1, <1>2, NoneAssumption DEF Approved, Core, Answered
    <2>2. Late(r)
      BY <1>1, <1>2, <2>1, Refusals DEF DecisionsAreKept
    <2>3. QED
      BY <1>1, <2>2, LateStays
  <1>3. CASE DecidedBy(r)
    <2>1. Late(r)
      BY <1>3 DEF DecidedBy, Overtaken
    <2>2. QED
      BY <1>1, <2>1, LateStays
  <1>4. CASE TakenUp(r) \/ Chosen(r) \/ Ended(r)
    BY <1>2, <1>4 DEF TakenUp, Chosen, Ended, Approved
  <1>5. QED
    BY <1>1, <1>2, <1>3, <1>4, RequestsChange DEF Changes

\* Who has joined has read the acceptance of a request that a user approved.
LEMMA JoinedTyped ==
  ASSUME Core, NEW r \in Made, request[r].client = "joined"
  PROVE  r \in approved /\ request[r].answer \in Decisions \ {Refused}
  BY DEF Core, Answered, ByUsers, Approved

\* A daemon gets a network by making it, by an invitation, or by a request of its own.
LEMMA AdmittedStep == Core /\ Admitted /\ [Next]_vars => Admitted'
  <1> SUFFICES ASSUME Core, Admitted, [Next]_vars,
                      NEW d \in Daemons, mounted'[d] # None, mounted'[d][1] # d, d \notin invited'
               PROVE  \E r \in Made' :
                        /\ Applicant(r)' = d /\ request'[r].client = "joined"
                        /\ request'[r].answer = Accept(mounted'[d])
    BY DEF Admitted, Accept
  <1>1. CASE mounted'[d] = mounted[d] /\ d \notin invited
    <2>1. PICK r \in Made : /\ Applicant(r) = d /\ request[r].client = "joined"
                            /\ request[r].answer = Accept(mounted[d])
      BY <1>1 DEF Admitted
    <2>2. /\ r \in Made' /\ request'[r].client = "joined"
          /\ request'[r].answer = request[r].answer
      BY <2>1, RequestsChange DEF Changes
    <2>3. QED
      BY <1>1, <2>1, <2>2 DEF Applicant
  <1>2. ASSUME NEW r \in Requests, Return(r), mounted'[d] # mounted[d]
        PROVE  /\ r \in Made' /\ Applicant(r) = d /\ request'[r].client = "joined"
               /\ request'[r].answer = Accept(mounted'[d])
    <2>1. PICK e :
            /\ r \in Made /\ Writes(r, e) /\ e.client = "joined"
            /\ e.answer = request[r].answer /\ request[r].answer \in Decisions \ {Refused}
            /\ mounted' = [mounted EXCEPT ![Applicant(r)] = request[r].answer.network]
      BY <1>2, ReturnWrites DEF Core
    <2>2. r \in Made' /\ request'[r] = e
      BY <2>1, WritesTyped DEF Core
    <2>3. Applicant(r) = d /\ mounted'[d] = request[r].answer.network
      BY <1>2, <2>1 DEF Core, TypeOK
    <2>4. request[r].answer = Accept(mounted'[d])
      BY <2>1, <2>3, Acceptance
    <2>5. QED
      BY <2>1, <2>2, <2>3, <2>4
  <1>3. ASSUME NEW r \in Requests, Return(r) PROVE d \notin invited
    BY <1>3 DEF Return
  <1>4. ASSUME NEW a \in Daemons, CreateNetwork(a) PROVE mounted'[d] = mounted[d] /\ d \notin invited
    BY <1>4 DEF CreateNetwork, Core, TypeOK
  <1>5. ASSUME NEW a \in Daemons, JoinNetwork(a) PROVE mounted'[d] = mounted[d] /\ d \notin invited
    BY <1>5 DEF JoinNetwork, Core, TypeOK
  <1>6. ASSUME NEW a \in Daemons, LeaveNetwork(a) PROVE mounted'[d] = mounted[d] /\ d \notin invited
    BY <1>6 DEF LeaveNetwork, Core, TypeOK
  <1>7. ASSUME ~\E a \in Daemons : CreateNetwork(a) \/ JoinNetwork(a) \/ LeaveNetwork(a),
               ~\E r \in Requests : Return(r)
        PROVE  mounted' = mounted /\ invited' = invited
    BY <1>7 DEF Next, Must, Listen, Request, Close, Crash, CloseOffer, Expire, LoseStream, Decide,
                Receive, Wake, Finish, Answer, Stop, Gone, membership, vars
  <1>8. QED
    BY <1>1, <1>2, <1>3, <1>4, <1>5, <1>6, <1>7 DEF Applicant

\* Every step keeps the invariant.
LEMMA StepInvariant == IInv /\ [Next]_vars => IInv'
  BY CoreStep, GivenUpStep, OvertakenStep, KeptStep, AdmittedStep DEF IInv

\* The invariant holds in every behaviour: what the applicants mounted agrees with what
\* the handlers sent, and that with what users decided (handleEnrollmentRequest,
\* decideEnrollment, requestEnrollment).
THEOREM EnrollmentInvariance == Spec => []IInv
  BY InitInvariant, StepInvariant, PTL DEF Spec

\* Types, and: whatever is accepted carries a credential (decideEnrollment).
THEOREM EnrollmentTypes == Spec => []TypeOK
  <1>1. IInv => TypeOK
    BY DEF IInv, Core
  <1>2. QED
    BY <1>1, EnrollmentInvariance, PTL

\* enrollment_join succeeds only by a user's approval of that request; and who has the
\* network of another daemon was invited to it (network_join) or has such a request
\* (requestEnrollment, decideEnrollment).
THEOREM MembershipIsApproved == Spec => []NeedsApproval
  <1>1. IInv => NeedsApproval
    BY JoinedTyped, Acceptance DEF IInv, Admitted, NeedsApproval
  <1>2. QED
    BY <1>1, EnrollmentInvariance, PTL

\* With any number of users, one call at most decides a request, and it never blocks
\* on the channel of the handler (decideEnrollment).
THEOREM DecidedOnce == Spec => []OneDecision
  <1>1. IInv => OneDecision
    BY DEF IInv, Core
  <1>2. QED
    BY <1>1, EnrollmentInvariance, PTL

\* A request on the list is undecided, and its handler waits for the decision or has
\* given it up late and not taken it off yet (handleEnrollmentRequest).
THEOREM ListIsHeard == Spec => []PendingIsHeard
  <1>1. IInv => PendingIsHeard
    BY DEF IInv, Core, TypeOK, Listed, GivenUp, PendingIsHeard
  <1>2. QED
    BY <1>1, EnrollmentInvariance, PTL

\* What a user approved is not turned into a refusal, but by the expiry of the offer or
\* the end of the sponsor (handleEnrollmentRequest, decideEnrollment).
THEOREM ApprovalsAreKept == Spec => []DecisionsAreKept
  <1>1. IInv => DecisionsAreKept
    BY DEF IInv
  <1>2. QED
    BY <1>1, EnrollmentInvariance, PTL
=============================================================================
