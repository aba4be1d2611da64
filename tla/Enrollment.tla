----------------------------- MODULE Enrollment -----------------------------
(***************************************************************************)
(* Enrollment: a daemon offers membership of a network for a while; the    *)
(* daemon of another device asks for it, the users of the first one        *)
(* approve or deny, and the credential goes to the applicant, which mounts *)
(* it. Every daemon does both, may leave its network and create another    *)
(* one or join one by an invitation at any time, and closes or crashes.    *)
(* (core/daemon/enrollment.go, the network operations of membership.go,    *)
(* Daemon.Close)                                                           *)
(*                                                                         *)
(* All networks have the same name here. Daemons do not come back. Time is *)
(* left out: an offer expires when it does. network_invite changes nothing *)
(* and is no action: it repeats the invitation that network_create gave.   *)
(***************************************************************************)
EXTENDS Naturals, FiniteSets

CONSTANTS
  Daemons,
  Operators,    \* clients that decide
  Home,         \* the daemon to which such a client is connected
  Invitees,     \* bound: the daemons whose users join by an invitation
  MaxNetworks, MaxOffers, MaxRequests, \* bounds: of each daemon
  MaxFaults,    \* bound: streams lost, daemons that crash
  None, Lost

ASSUME BoundsAssumption == {MaxNetworks, MaxOffers, MaxRequests, MaxFaults} \subseteq Nat
ASSUME HomeAssumption == Home \in [Operators -> Daemons]

\* Identities and credentials are drawn at random; here they are whose and which.
Networks == Daemons \X (1..MaxNetworks)
Offers   == Daemons \X (1..MaxOffers)
Requests == Daemons \X (1..MaxRequests)

Refused   == [accepted |-> FALSE, network |-> None]
Accept(n) == [accepted |-> TRUE, network |-> n]
Decisions == {Refused} \cup {Accept(n) : n \in Networks}

\* An enrollment_join call, the handler of its stream at the sponsor, the channel of
\* the handler and what it answers: chosen while it is "ending", sent when it is "gone".
Enrollments ==
  [ offer    : Offers,
    client   : {"asking", "joined", "failed"},
    handler  : {"arriving", "waiting", "ending", "gone"},
    decision : Decisions \cup {None},
    answer   : Decisions \cup {None, Lost} ]

ASSUME NoneAssumption == None \notin Networks /\ None \notin Decisions /\ None \notin Enrollments
ASSUME LostAssumption == Lost \notin Decisions /\ Lost # None

VARIABLES
  mounted,  \* the credential of the mounted membership of a daemon, or None
  invited,  \* the daemons that mounted their network by an invitation (network_join)
  created,  \* how many networks, and offers, a daemon has made
  offered,
  open,     \* enrollmentOffers of all daemons, but for those that have expired
  expired,  \* the offers whose time is over
  request,  \* the enrollment_join calls, their streams and the handlers of these
  pending,  \* enrollmentRequests of all daemons
  op,       \* the enrollment_approve and enrollment_deny calls
  approved, \* history: the requests that a user decided to approve
  running,  \* a daemon is "up", "closing" (its context is cancelled) or "stopped"
  faults

offering   == <<offered, open, expired>>
membership == <<mounted, invited, created>>
vars == <<membership, offering, request, pending, op, approved, running, faults>>

Idle == [do |-> "idle"]

Init ==
  /\ mounted = [d \in Daemons |-> None]
  /\ invited = {} /\ created = [d \in Daemons |-> 0] /\ offered = [d \in Daemons |-> 0]
  /\ open = {} /\ expired = {}
  /\ request = [r \in Requests |-> None] /\ pending = {}
  /\ op = [o \in Operators |-> Idle] /\ approved = {}
  /\ running = [d \in Daemons |-> "up"] /\ faults = 0

Fault == faults < MaxFaults /\ faults' = faults + 1
Runs(d) == running[d] # "stopped"

Applicant(r) == r[1]
Sponsor(r)   == request[r].offer[1]
Made         == {r \in Requests : request[r] # None}

\* A request of the applicant that has not returned.
Asking(r) == request[r] # None /\ request[r].client = "asking"

-----------------------------------------------------------------------------
(* Networks and offers. *)

\* The user is given the invitation, and may pass it on.
CreateNetwork(d) ==
  /\ Runs(d) /\ mounted[d] = None
  /\ created[d] < MaxNetworks /\ created' = [created EXCEPT ![d] = @ + 1]
  /\ mounted' = [mounted EXCEPT ![d] = <<d, created'[d]>>]
  /\ UNCHANGED <<invited, offering, request, pending, op, approved, running, faults>>

\* network_join, with the invitation of any network there is.
JoinNetwork(d) ==
  /\ d \in Invitees /\ Runs(d) /\ mounted[d] = None
  /\ \E n \in Networks : n[2] <= created[n[1]] /\ mounted' = [mounted EXCEPT ![d] = n]
  /\ invited' = invited \cup {d}
  /\ UNCHANGED <<created, offering, request, pending, op, approved, running, faults>>

\* Offers and requests for the network stay.
LeaveNetwork(d) ==
  /\ Runs(d) /\ mounted[d] # None
  /\ mounted' = [mounted EXCEPT ![d] = None] /\ invited' = invited \ {d}
  /\ UNCHANGED <<created, offering, request, pending, op, approved, running, faults>>

Listen(d) ==
  /\ Runs(d) /\ mounted[d] # None
  /\ offered[d] < MaxOffers /\ offered' = [offered EXCEPT ![d] = @ + 1]
  /\ open' = open \cup {<<d, offered'[d]>>}
  /\ UNCHANGED <<membership, expired, request, pending, op, approved, running, faults>>

\* Requests that name the offer stay pending.
CloseOffer(o) ==
  /\ o \in open
  /\ open' = open \ {o}
  /\ UNCHANGED <<membership, offered, expired, request, pending, op, approved, running, faults>>

\* Whoever looks at the offers next forgets this one (activeEnrollmentOffers).
Expire(o) ==
  /\ o[2] <= offered[o[1]] /\ o \notin expired
  /\ expired' = expired \cup {o} /\ open' = open \ {o}
  /\ UNCHANGED <<membership, offered, request, pending, op, approved, running, faults>>

-----------------------------------------------------------------------------
(* Requests: the applicant's call and the sponsor's handler of its stream. *)

\* enrollment_join; it waits for the answer, without a deadline.
Request(a) ==
  /\ running[a] = "up"
  /\ \E k \in 1..MaxRequests, o \in Offers :
       /\ request[<<a, k>>] = None /\ \A j \in 1..(k - 1) : request[<<a, j>>] # None
       /\ o[1] # a /\ o[2] <= offered[o[1]] /\ Runs(o[1])
       /\ request' = [request EXCEPT ![<<a, k>>] =
                        [offer |-> o, client |-> "asking", handler |-> "arriving",
                         decision |-> None, answer |-> None]]
  /\ UNCHANGED <<membership, offering, pending, op, approved, running, faults>>

\* Nobody reads what is written to a broken stream.
Answers(r, answer, handler) ==
  request' = [request EXCEPT ![r].handler = handler,
                             ![r].answer = IF @ = Lost THEN Lost ELSE answer]

\* Mutant: the invitation is sent at once.
Receive_Answers(r) ==
  /\ request[r] # None /\ request[r].handler = "arriving"
  /\ Answers(r, IF request[r].offer \in open /\ mounted[Sponsor(r)] # None
                THEN Accept(mounted[Sponsor(r)]) ELSE Refused, "gone")
  /\ UNCHANGED <<membership, offering, pending, op, approved, running, faults>>

\* The handler takes the request up, if its offer is still active.
Receive(r) ==
  /\ request[r] # None /\ request[r].handler = "arriving"
  /\ IF request[r].offer \in open
     THEN request' = [request EXCEPT ![r].handler = "waiting"] /\ pending' = pending \cup {r}
     ELSE Answers(r, Refused, "gone") /\ UNCHANGED pending
  /\ UNCHANGED <<membership, offering, op, approved, running, faults>>

Decided(r) == IF request[r].decision # None THEN {request[r].decision} ELSE {}
TimesOut(r) == IF request[r].offer \in expired THEN {Refused} ELSE {}
Cancelled(r) == IF running[Sponsor(r)] # "up" THEN {Refused} ELSE {}

\* Mutants: the handler does not look at its timer, not at the context of the
\* daemon, or it also ends when the offer is closed.
Choices_NoTimer(r) == Decided(r) \cup Cancelled(r)
Choices_NoContext(r) == Decided(r) \cup TimesOut(r)
Choices_ClosedOffer(r) ==
  Decided(r) \cup TimesOut(r) \cup Cancelled(r) \cup (IF request[r].offer \in open THEN {} ELSE {Refused})

\* The ready cases of the handler's select, any of which may be taken.
Choices(r) == Decided(r) \cup TimesOut(r) \cup Cancelled(r)

\* The select, without the lock: the request is still on the list.
Wake(r) ==
  /\ request[r] # None /\ request[r].handler = "waiting"
  /\ \E answer \in Choices(r) : Answers(r, answer, "ending")
  /\ UNCHANGED <<membership, offering, pending, op, approved, running, faults>>

Ends(r) ==
  /\ request[r] # None /\ request[r].handler = "ending"
  /\ request' = [request EXCEPT ![r].handler = "gone"]

\* Mutant: the request stays on the list.
Finish_LeavesPending(r) ==
  /\ Ends(r)
  /\ UNCHANGED <<membership, offering, pending, op, approved, running, faults>>

\* The request leaves the list, if no call has taken it, and the answer is sent.
Finish(r) ==
  /\ Ends(r) /\ pending' = pending \ {r}
  /\ UNCHANGED <<membership, offering, op, approved, running, faults>>

\* There is something to read for the applicant, or the end of the stream.
HasAnswer(r) == \/ request[r].answer = Lost
                \/ request[r].answer # None /\ request[r].handler = "gone"

\* The applicant reads the answer and mounts the network, unless it has another
\* one. The first synchronization is the matter of MeshPeers.
Return(r) ==
  LET a == Applicant(r)  answer == request[r].answer IN
  /\ Asking(r) /\ HasAnswer(r)
  /\ IF answer # Lost /\ answer.accepted /\ mounted[a] \in {None, answer.network}
     THEN /\ mounted' = [mounted EXCEPT ![a] = answer.network]
          /\ request' = [request EXCEPT ![r].client = "joined"]
     ELSE request' = [request EXCEPT ![r].client = "failed"] /\ UNCHANGED mounted
  /\ UNCHANGED <<invited, created, offering, pending, op, approved, running, faults>>

\* The connection breaks. The handler waits on.
LoseStream(r) ==
  /\ Asking(r) /\ request[r].answer # Lost /\ Fault
  /\ request' = [request EXCEPT ![r].answer = Lost, ![r].handler =
                   IF @ = "arriving" THEN "gone" ELSE @]
  /\ UNCHANGED <<membership, offering, pending, op, approved, running>>

-----------------------------------------------------------------------------
(* Decisions: decideEnrollment. *)

Begins(c, r, approve) ==
  /\ op' = [op EXCEPT ![c] = [do |-> "decide", request |-> r, approve |-> approve]]
  /\ approved' = IF approve THEN approved \cup {r} ELSE approved

\* Mutant: the request stays on the list until its handler wakes up.
Take_Leaves(c, r, approve) == Begins(c, r, approve) /\ pending' = pending

\* At most one call gets a request.
Take(c, r, approve) == Begins(c, r, approve) /\ pending' = pending \ {r}

Decide(c) ==
  /\ op[c] = Idle
  /\ \E r \in pending, approve \in BOOLEAN : Sponsor(r) = Home[c] /\ Take(c, r, approve)
  /\ UNCHANGED <<membership, offering, request, running, faults>>

\* Mutant: an invitation that could not be made is sent nevertheless.
Decision_Unchecked(r, approve) == IF approve THEN Accept(mounted[Sponsor(r)]) ELSE Refused

\* The credential is that of the network mounted now, whatever was offered.
Decision(r, approve) ==
  IF ~approve THEN Refused
  ELSE IF mounted[Sponsor(r)] = None THEN None ELSE Accept(mounted[Sponsor(r)])

\* The decision goes to the handler; the user gets the reply of the call later, and
\* nothing depends on when. Without an invitation the call fails, the request is off
\* the list, and the applicant waits for the offer to expire.
Answer(c) ==
  LET r == op[c].request  decision == Decision(r, op[c].approve) IN
  /\ op[c] # Idle
  /\ op' = [op EXCEPT ![c] = Idle]
  /\ IF decision = None
     THEN UNCHANGED request
     ELSE /\ request[r].decision = None  \* the channel holds one decision
          /\ request' = [request EXCEPT ![r].decision = decision]
  /\ UNCHANGED <<membership, offering, pending, approved, running, faults>>

-----------------------------------------------------------------------------
(* The end of a daemon. *)

\* Close cancels the context and waits for the handlers of clients.
Close(d) ==
  /\ running[d] = "up"
  /\ running' = [running EXCEPT ![d] = "closing"]
  /\ UNCHANGED <<membership, offering, request, pending, op, approved, faults>>

\* The process is gone: its streams break, its calls end, nothing is pending.
Gone(d) ==
  /\ running' = [running EXCEPT ![d] = "stopped"]
  /\ open' = {o \in open : o[1] # d}
  /\ pending' = {r \in pending : Sponsor(r) # d}
  /\ request' = [r \in Requests |->
       IF request[r] = None THEN None
       ELSE [request[r] EXCEPT
               !.client  = IF @ = "asking" /\ Applicant(r) = d THEN "failed" ELSE @,
               !.handler = IF Sponsor(r) = d THEN "gone" ELSE @,
               !.answer  = IF Sponsor(r) = d /\ request[r].handler # "gone" THEN Lost ELSE @]]
  /\ UNCHANGED <<membership, offered, expired, approved>>

Busy(d) ==
  \/ \E r \in Made : Asking(r) /\ Applicant(r) = d
  \/ \E c \in Operators : op[c] # Idle /\ Sponsor(op[c].request) = d

Stop(d) ==
  /\ running[d] = "closing" /\ ~Busy(d)
  /\ Gone(d)
  /\ UNCHANGED <<op, faults>>

Crash(d) ==
  /\ Runs(d) /\ Fault
  /\ Gone(d)
  /\ op' = [c \in Operators |-> IF op[c] # Idle /\ Sponsor(op[c].request) = d THEN Idle ELSE op[c]]

-----------------------------------------------------------------------------
\* What a call or a handler that has begun does next.
Must ==
  \/ \E r \in Requests : Receive(r) \/ Wake(r) \/ Finish(r) \/ Return(r)
  \/ \E c \in Operators : Answer(c)
  \/ \E d \in Daemons : Stop(d)

Next ==
  \/ \E d \in Daemons : CreateNetwork(d) \/ JoinNetwork(d) \/ LeaveNetwork(d) \/ Listen(d)
                        \/ Request(d) \/ Close(d) \/ Crash(d)
  \/ \E o \in Offers : CloseOffer(o) \/ Expire(o)
  \/ \E r \in Requests : LoseStream(r)
  \/ \E c \in Operators : Decide(c)
  \/ Must

\* Handlers go on. Nothing is assumed of users, and not even that time passes.
Spec == Init /\ [][Next]_vars /\ WF_vars(Must)

-----------------------------------------------------------------------------
(* Properties. *)

\* The states have their types; an accepted decision carries a credential.
TypeOK ==
  /\ mounted \in [Daemons -> Networks \cup {None}] /\ invited \subseteq Daemons
  /\ created \in [Daemons -> 0..MaxNetworks] /\ offered \in [Daemons -> 0..MaxOffers]
  /\ open \subseteq Offers /\ expired \subseteq Offers
  /\ request \in [Requests -> Enrollments \cup {None}]
  /\ pending \subseteq Made
  /\ op \in [Operators -> {Idle} \cup [do : {"decide"}, request : Made, approve : BOOLEAN]]
  /\ approved \subseteq Made
  /\ running \in [Daemons -> {"up", "closing", "stopped"}] /\ faults \in 0..MaxFaults

\* enrollment_join succeeds by the approval of that very request only; and a network
\* that a daemon neither created nor joined by an invitation (network_join), it has by
\* such a request (docs/ENROLLMENT.md:21-24; handleEnrollmentRequest, decideEnrollment).
NeedsApproval ==
  /\ \A r \in Made : request[r].client = "joined" => r \in approved /\ request[r].answer.accepted
  /\ \A d \in Daemons : mounted[d] # None /\ mounted[d][1] # d /\ d \notin invited =>
       \E r \in Made : /\ Applicant(r) = d /\ request[r].client = "joined"
                       /\ request[r].answer = Accept(mounted[d])

\* A request is in the hands of one call at most, with any number of users: the channel
\* of the handler is empty, so that the call cannot block (decideEnrollment).
OneDecision ==
  \A c \in Operators : op[c] # Idle =>
    /\ request[op[c].request].decision = None
    /\ \A other \in Operators \ {c} : op[other] # Idle => op[other].request # op[c].request

\* The offer of the request has expired, or its sponsor closes.
Late(r) == request[r].offer \in expired \/ running[Sponsor(r)] # "up"

\* A request on the list is undecided, and its handler waits for the decision or has
\* given up, without the lock, because it is late (handleEnrollmentRequest).
PendingIsHeard ==
  \A r \in pending : /\ request[r].decision = None
                     /\ request[r].handler = "waiting" \/ (request[r].handler = "ending" /\ Late(r))

\* The credential is in the channel of the handler.
Approved(r) == request[r].decision \in Decisions \ {Refused}

\* What a user decided gets to the applicant: an approval is answered by a refusal only
\* if the offer has expired or the sponsor closes (handleEnrollmentRequest).
DecisionsAreKept ==
  \A r \in Made : Approved(r) /\ request[r].answer = Refused => Late(r)

\* A request that ought to end.
Overdue(r) == Asking(r) /\ Late(r)

\* "Requests also end when the offer expires or the daemon stops"
\* (docs/ENROLLMENT.md:66): even one whose approval failed, or that nobody sees
\* (handleEnrollmentRequest, requestEnrollment).
RequestsEnd == (\E r \in Requests : Overdue(r)) ~> (\A r \in Requests : ~Overdue(r))

\* Two daemons that close while each waits for the other's answer do not wait for
\* ever: handlers of streams outlive the wait for the handlers of clients (Close).
ClosesEnd ==
  (\A d \in Daemons : running[d] # "up") ~> (\A d \in Daemons : running[d] = "stopped")
=============================================================================
