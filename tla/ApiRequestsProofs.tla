------------------------- MODULE ApiRequestsProofs -------------------------
(***************************************************************************)
(* The trail of what was requested, and the tokens of a login, for any     *)
(* requests and members and all faults.                                    *)
(***************************************************************************)
EXTENDS ApiRequests, FiniteSetTheorems, SequenceTheorems, TLAPS

PCs == {"idle", "handling", "rotating", "revoking", "sending", "assuming",
        "answered", "done", "untold", "raised", "lost"}
Names == OpenRoutes \cup {route.name : route \in Routes}

Token == [user: Users, login: Nat, by: Requests \cup {None},
          ended: {None, "refresh", "logout"}, expired: BOOLEAN]
Request == [pc: PCs, route: Names \cup {None}, user: Users \cup {None},
            token: Nat, answer: {0, 200, 400, 500},
            stored: {None, "stored", "failed"}]
Event == [request: Requests, actor: Users, outcome: {"success", "rejected"}]

Types ==
    /\ users \subseteq Users
    /\ sessions \in Seq(Token)
    /\ overtaken \subseteq Requests
    /\ request \in [Requests -> Request]
    /\ connections \in [Users -> {None, "pending", "verified", "failed"}]
    /\ events \subseteq Event

(* What a route does, looked up by its name.                               *)
Does(name) == (CHOOSE route \in Routes : route.name = name).does

(* What is stored was asked for by a member, whom the event will name, and *)
(* the answer says whether it is a success.                                *)
Sound(q) ==
    /\ q.stored # None => q.user # None
    /\ q.pc \in {"idle", "handling", "rotating", "revoking", "assuming"}
           => q.stored = None
    /\ q.pc \in {"idle", "rotating", "revoking"} => q.user = None
    /\ q.pc = "handling" => (q.user = None <=> q.route \in OpenRoutes)
    /\ q.pc = "assuming" => q.user # None /\ Does(q.route) = "verify"
    /\ q.pc = "sending" => q.stored = "stored" /\ Does(q.route) # "verify"
    /\ q.pc = "answered" /\ q.user # None
           => (q.answer < 400 <=> q.stored = "stored")

(* What a verification found depends on the account of the role only.      *)
Verifications ==
    /\ \A u \in Users : connections[u] = "verified" => u \in RightAccount
    /\ \A r \in Requests :
          request[r].stored # None /\ Does(request[r].route) = "verify" =>
              /\ connections[request[r].user] # None
              /\ connections[request[r].user] = "verified"
                     <=> request[r].stored = "stored"
              /\ request[r].user \in RightAccount
                     <=> request[r].stored = "stored"

(* An event is about a request that is done, and there is no other.        *)
Trail ==
    /\ \A e \in events :
          /\ request[e.request].pc = "done"
          /\ e.actor = request[e.request].user
          /\ e.outcome = "success" <=> request[e.request].stored = "stored"
    /\ \A e, f \in events : e.request = f.request => e = f
    /\ \A r \in Requests :
          request[r].pc = "done" /\ request[r].user # None
              => \E e \in events : e.request = r

ApiInv == /\ Types
          /\ \A r \in Requests : Sound(request[r])
          /\ Verifications
          /\ Trail
-----------------------------------------------------------------------------
LEMMA RouteDoes ==
  ASSUME NEW r \in Requests
  PROVE  RouteOf(r).does = Does(request[r].route)
  BY DEF RouteOf, Does

(* The forms of a step of a request, field by field.                       *)
Answered(q, c) ==
    [q EXCEPT !.pc = "answered", !.answer = c]
Responded(q, c, stored) ==
    [q EXCEPT !.pc = "answered", !.answer = c, !.stored = stored]
Left(q, end, stored) ==
    [q EXCEPT !.pc = end, !.stored = stored]
Gone(q, end) ==
    [q EXCEPT !.pc = end]
Routed(q, name) ==
    [q EXCEPT !.pc = "handling", !.route = name]
Arrived(q, name, u) ==
    [q EXCEPT !.pc = "handling", !.route = name, !.user = u]
Looked(q, end, t) ==
    [q EXCEPT !.pc = end, !.token = t]

LEMMA BecomesEffect ==
  ASSUME Types, NEW r \in Requests, NEW q, Becomes(r, q)
  PROVE  request'[r] = q /\ \A z \in Requests \ {r} : request'[z] = request[z]
  BY DEF Types, Becomes

LEMMA AnsweredFields ==
  ASSUME NEW q \in Request, NEW c \in {200, 400, 500},
         NEW n, n = Answered(q, c)
  PROVE  n =
             [pc |-> "answered", route |-> q.route, user |-> q.user,
              token |-> q.token, answer |-> c, stored |-> q.stored]
  BY DEF Request, Answered

LEMMA AnsweredEffect ==
  ASSUME Types, NEW r \in Requests, NEW c \in {200, 400, 500},
         Answers(r, c)
  PROVE  /\ \A z \in Requests \ {r} : request'[z] = request[z]
         /\ request'[r] \in Request
         /\ request'[r].pc = "answered"
         /\ request'[r].route = request[r].route
         /\ request'[r].user = request[r].user
         /\ request'[r].token = request[r].token
         /\ request'[r].answer = c
         /\ request'[r].stored = request[r].stored
  <1>1. /\ request'[r] = Answered(request[r], c)
        /\ \A z \in Requests \ {r} : request'[z] = request[z]
    BY BecomesEffect DEF Answered, Answers
  <1>2. request[r] \in Request
    BY DEF Types
  <1>3. request'[r] =
            [pc |-> "answered", route |-> request[r].route,
             user |-> request[r].user,
             token |-> request[r].token, answer |-> c, stored |-> request[r].stored]
    BY <1>1, <1>2, AnsweredFields
  <1> QED
    BY <1>1, <1>2, <1>3 DEF Request, PCs

LEMMA RespondedFields ==
  ASSUME NEW q \in Request, NEW c \in {200, 400, 500},
         NEW stored \in {None, "stored", "failed"},
         NEW n, n = Responded(q, c, stored)
  PROVE  n =
             [pc |-> "answered", route |-> q.route, user |-> q.user,
              token |-> q.token, answer |-> c, stored |-> stored]
  BY DEF Request, Responded

LEMMA RespondedEffect ==
  ASSUME Types, NEW r \in Requests, NEW c \in {200, 400, 500},
         NEW stored \in {None, "stored", "failed"},
         Responds(r, c, stored)
  PROVE  /\ \A z \in Requests \ {r} : request'[z] = request[z]
         /\ request'[r] \in Request
         /\ request'[r].pc = "answered"
         /\ request'[r].route = request[r].route
         /\ request'[r].user = request[r].user
         /\ request'[r].token = request[r].token
         /\ request'[r].answer = c
         /\ request'[r].stored = stored
  <1>1. /\ request'[r] = Responded(request[r], c, stored)
        /\ \A z \in Requests \ {r} : request'[z] = request[z]
    BY BecomesEffect DEF Responded, Responds
  <1>2. request[r] \in Request
    BY DEF Types
  <1>3. request'[r] =
            [pc |-> "answered", route |-> request[r].route,
             user |-> request[r].user,
             token |-> request[r].token, answer |-> c, stored |-> stored]
    BY <1>1, <1>2, RespondedFields
  <1> QED
    BY <1>1, <1>2, <1>3 DEF Request, PCs

LEMMA LeftFields ==
  ASSUME NEW q \in Request, NEW end \in PCs,
         NEW stored \in {None, "stored", "failed"},
         NEW n, n = Left(q, end, stored)
  PROVE  n =
             [pc |-> end, route |-> q.route, user |-> q.user,
              token |-> q.token, answer |-> q.answer, stored |-> stored]
  BY DEF Request, Left

LEMMA LeftEffect ==
  ASSUME Types, NEW r \in Requests, NEW end \in PCs,
         NEW stored \in {None, "stored", "failed"},
         Leaves(r, end, stored)
  PROVE  /\ \A z \in Requests \ {r} : request'[z] = request[z]
         /\ request'[r] \in Request
         /\ request'[r].pc = end
         /\ request'[r].route = request[r].route
         /\ request'[r].user = request[r].user
         /\ request'[r].token = request[r].token
         /\ request'[r].stored = stored
  <1>1. /\ request'[r] = Left(request[r], end, stored)
        /\ \A z \in Requests \ {r} : request'[z] = request[z]
    BY BecomesEffect DEF Left, Leaves
  <1>2. request[r] \in Request
    BY DEF Types
  <1>3. request'[r] =
            [pc |-> end, route |-> request[r].route,
             user |-> request[r].user,
             token |-> request[r].token, answer |-> request[r].answer, stored |-> stored]
    BY <1>1, <1>2, LeftFields
  <1> QED
    BY <1>1, <1>2, <1>3 DEF Request

LEMMA GoneFields ==
  ASSUME NEW q \in Request, NEW end \in PCs,
         NEW n, n = Gone(q, end)
  PROVE  n =
             [pc |-> end, route |-> q.route, user |-> q.user,
              token |-> q.token, answer |-> q.answer, stored |-> q.stored]
  BY DEF Request, Gone

LEMMA GoneEffect ==
  ASSUME Types, NEW r \in Requests, NEW end \in PCs,
         Becomes(r, [request[r] EXCEPT !.pc = end])
  PROVE  /\ \A z \in Requests \ {r} : request'[z] = request[z]
         /\ request'[r] \in Request
         /\ request'[r].pc = end
         /\ request'[r].route = request[r].route
         /\ request'[r].user = request[r].user
         /\ request'[r].token = request[r].token
         /\ request'[r].stored = request[r].stored
  <1>1. /\ request'[r] = Gone(request[r], end)
        /\ \A z \in Requests \ {r} : request'[z] = request[z]
    BY BecomesEffect DEF Gone
  <1>2. request[r] \in Request
    BY DEF Types
  <1> QED
    BY <1>1, <1>2, GoneFields DEF Request

LEMMA RoutedFields ==
  ASSUME NEW q \in Request, NEW name \in Names,
         NEW n, n = Routed(q, name)
  PROVE  n =
             [pc |-> "handling", route |-> name, user |-> q.user,
              token |-> q.token, answer |-> q.answer, stored |-> q.stored]
  BY DEF Request, Routed

LEMMA RoutedEffect ==
  ASSUME Types, NEW r \in Requests, NEW name \in Names,
         Becomes(r, [request[r] EXCEPT !.pc = "handling", !.route = name])
  PROVE  /\ \A z \in Requests \ {r} : request'[z] = request[z]
         /\ request'[r] \in Request
         /\ request'[r].pc = "handling"
         /\ request'[r].route = name
         /\ request'[r].user = request[r].user
         /\ request'[r].token = request[r].token
         /\ request'[r].stored = request[r].stored
  <1>1. /\ request'[r] = Routed(request[r], name)
        /\ \A z \in Requests \ {r} : request'[z] = request[z]
    BY BecomesEffect DEF Routed
  <1>2. request[r] \in Request
    BY DEF Types
  <1> QED
    BY <1>1, <1>2, RoutedFields DEF Request, PCs

LEMMA ArrivedFields ==
  ASSUME NEW q \in Request, NEW name \in Names, NEW u \in Users,
         NEW n, n = Arrived(q, name, u)
  PROVE  n =
             [pc |-> "handling", route |-> name, user |-> u,
              token |-> q.token, answer |-> q.answer, stored |-> q.stored]
  BY DEF Request, Arrived

LEMMA ArrivedEffect ==
  ASSUME Types, NEW r \in Requests, NEW name \in Names, NEW u \in Users,
         Becomes(r, [request[r] EXCEPT !.pc = "handling", !.route = name, !.user = u])
  PROVE  /\ \A z \in Requests \ {r} : request'[z] = request[z]
         /\ request'[r] \in Request
         /\ request'[r].pc = "handling"
         /\ request'[r].route = name
         /\ request'[r].user = u
         /\ request'[r].token = request[r].token
         /\ request'[r].stored = request[r].stored
  <1>1. /\ request'[r] = Arrived(request[r], name, u)
        /\ \A z \in Requests \ {r} : request'[z] = request[z]
    BY BecomesEffect DEF Arrived
  <1>2. request[r] \in Request
    BY DEF Types
  <1> QED
    BY <1>1, <1>2, ArrivedFields DEF Request, PCs

LEMMA LookedFields ==
  ASSUME NEW q \in Request, NEW end \in PCs, NEW t \in Nat,
         NEW n, n = Looked(q, end, t)
  PROVE  n =
             [pc |-> end, route |-> q.route, user |-> q.user,
              token |-> t, answer |-> q.answer, stored |-> q.stored]
  BY DEF Request, Looked

LEMMA LookedEffect ==
  ASSUME Types, NEW r \in Requests, NEW end \in PCs, NEW t \in Nat,
         Becomes(r, [request[r] EXCEPT !.pc = end, !.token = t])
  PROVE  /\ \A z \in Requests \ {r} : request'[z] = request[z]
         /\ request'[r] \in Request
         /\ request'[r].pc = end
         /\ request'[r].route = request[r].route
         /\ request'[r].user = request[r].user
         /\ request'[r].token = t
         /\ request'[r].stored = request[r].stored
  <1>1. /\ request'[r] = Looked(request[r], end, t)
        /\ \A z \in Requests \ {r} : request'[z] = request[z]
    BY BecomesEffect DEF Looked
  <1>2. request[r] \in Request
    BY DEF Types
  <1> QED
    BY <1>1, <1>2, LookedFields DEF Request

-----------------------------------------------------------------------------
(* What a step of a request is to the trail and to the connections.        *)
Tells(r) ==
    /\ request[r].pc = "answered" /\ request'[r].pc = "done"
    /\ request'[r].user = request[r].user
    /\ request'[r].stored = request[r].stored
    /\ events' = IF request[r].user = None THEN events
                 ELSE events \cup {[request |-> r, actor |-> request[r].user,
                                    outcome |-> Outcome(request[r].answer)]}
NoTelling(r) == request'[r].pc # "done" /\ UNCHANGED events

NoVerification(r) ==
    /\ UNCHANGED connections
    /\ request'[r].stored # None /\ Does(request'[r].route) = "verify" =>
          /\ request'[r].stored = request[r].stored
          /\ request'[r].user = request[r].user
          /\ request'[r].route = request[r].route
Connects(r) ==
    /\ connections[request[r].user] = None
    /\ connections' = [connections EXCEPT ![request[r].user] = "pending"]
    /\ Does(request'[r].route) # "verify"
Verifies(r) ==
    /\ request[r].user \in Users
    /\ request'[r].user = request[r].user
    /\ request'[r].stored =
           IF request[r].user \in RightAccount THEN "stored" ELSE "failed"
    /\ connections' = [connections EXCEPT ![request[r].user] =
           IF request[r].user \in RightAccount THEN "verified" ELSE "failed"]

Summary(r) ==
    /\ \A z \in Requests \ {r} : request'[z] = request[z]
    /\ request'[r] \in Request
    /\ Sound(request'[r])
    /\ request[r].pc # "done"
    /\ request'[r].pc \in {"rotating", "revoking"} => IdentityStep(r)
    /\ Tells(r) \/ NoTelling(r)
    /\ NoVerification(r) \/ Connects(r) \/ Verifies(r)

LEMMA OpenOrNot == \A route \in Routes : route.name \notin OpenRoutes
  BY DEF Routes, OpenRoutes, Route, StartInventoryScan, StartCostSync,
     StartMetricSync, StartSourceSync, Evaluate, UpdateStatus, AddComment,
     CreateReport, CreateSchedule, UpdateSchedule, CreateConnection,
     VerifyConnection

LEMMA AtRoute ==
  ASSUME ApiInv, NEW r \in Requests, NEW does, IsAt(r, does)
  PROVE  /\ request[r].pc = "handling" /\ request[r].stored = None
         /\ request[r].user # None /\ request[r].user \in Users
         /\ Does(request[r].route) = does
  BY RouteDoes DEF IsAt, ApiInv, Sound, Types, Request

LEMMA StepSummary ==
  ASSUME ApiInv, NEW r \in Requests, RequestStep(r)
  PROVE  Summary(r)
  <1> USE DEF Summary, NoTelling, NoVerification
  <1>0. Types /\ Sound(request[r]) /\ request[r] \in Request
    BY DEF ApiInv, Types
  <1>1. ASSUME TurnAway(r) PROVE Summary(r)
    BY <1>0, <1>1, AnsweredEffect DEF TurnAway, Sound
  <1>2. ASSUME ArriveOpen(r) PROVE Summary(r)
    <2>1. PICK name \in OpenRoutes :
             Becomes(r, [request[r] EXCEPT !.pc = "handling", !.route = name])
      BY <1>2 DEF ArriveOpen
    <2>2. name \in Names
      BY DEF Names
    <2> QED
      BY <1>0, <1>2, <2>1, <2>2, RoutedEffect DEF ArriveOpen, Sound
  <1>3. ASSUME NEW u \in Users, Authenticate(r, u) PROVE Summary(r)
    <2>1. PICK route \in Routes :
             Becomes(r, [request[r] EXCEPT !.pc = "handling",
                                           !.route = route.name, !.user = u])
      BY <1>3 DEF Authenticate
    <2>2. route.name \in Names /\ route.name \notin OpenRoutes
      BY OpenOrNot DEF Names
    <2>3. u # None
      BY SessionsAssumption
    <2> QED
      BY <1>0, <1>3, <2>1, <2>2, <2>3, ArrivedEffect DEF Authenticate, Sound
  <1>4. ASSUME Refuse(r) PROVE Summary(r)
    BY <1>0, <1>4, RespondedEffect, ApiAssumption DEF Refuse, Sound
  <1>5. ASSUME Write(r) PROVE Summary(r)
    <2>1. /\ request[r].user # None /\ Does(request[r].route) = "write"
          /\ request[r].pc = "handling"
      BY <1>5, AtRoute DEF Write
    <2> QED
      BY <1>0, <1>5, <2>1, RespondedEffect, ApiAssumption DEF Write, Sound
  <1>6. ASSUME Store(r) PROVE Summary(r)
    <2>1. /\ request[r].user # None /\ Does(request[r].route) # "verify"
          /\ request[r].pc = "handling"
      BY <1>6, AtRoute DEF Store, Starts
    <2> QED
      BY <1>0, <1>6, <2>1, LeftEffect, ApiAssumption DEF Store, Sound, PCs
  <1>7. ASSUME Send(r) PROVE Summary(r)
    BY <1>0, <1>7, RespondedEffect, ApiAssumption DEF Send, Sound
  <1>8. ASSUME Connect(r) PROVE Summary(r)
    <2>1. /\ request[r].user # None /\ Does(request[r].route) = "connect"
          /\ request[r].pc = "handling"
      BY <1>8, AtRoute DEF Connect
    <2> QED
      BY <1>0, <1>8, <2>1, RespondedEffect, LeftEffect, ApiAssumption
      DEF Connect, Connects, Sound, PCs
  <1>9. ASSUME ReadConnection(r) PROVE Summary(r)
    <2>1. /\ request[r].user # None /\ Does(request[r].route) = "verify"
          /\ request[r].pc = "handling"
      BY <1>9, AtRoute DEF ReadConnection
    <2> QED
      BY <1>0, <1>9, <2>1, LeftEffect, ApiAssumption
      DEF ReadConnection, Sound, PCs
  <1>10. ASSUME Verify(r) PROVE Summary(r)
    <2>1. /\ request[r].pc = "assuming" /\ request[r].user # None
          /\ request[r].user \in Users
      BY <1>0, <1>10 DEF Verify, Sound, Request
    <2> QED
      BY <1>0, <1>10, <2>1, RespondedEffect, ApiAssumption
      DEF Verify, Verifies, Sound
  <1>11. ASSUME Tell(r) PROVE Summary(r)
    BY <1>0, <1>11, GoneEffect DEF Tell, Tells, IsTold, Sound, PCs
  <1>12. ASSUME Raise(r) PROVE Summary(r)
    BY <1>0, <1>12, GoneEffect DEF Raise, Sound, PCs
  <1>13. ASSUME IdentityStep(r), UNCHANGED <<connections, events, faults>>
         PROVE  Summary(r)
    <2>1. ASSUME request[r].pc = "handling",
                 request[r].route \in {"register", "login", "refresh", "logout"}
          PROVE  request[r].user = None
      BY <1>0, <2>1 DEF Sound, OpenRoutes
    <2>2. ASSUME NEW c \in {200, 400}, Answers(r, c), request[r].user = None,
                 request[r].pc \in {"handling", "rotating", "revoking"}
          PROVE  Summary(r)
      BY <1>0, <1>13, <2>2, AnsweredEffect DEF Sound
    <2>3. ASSUME NEW t \in Nat, NEW end \in {"rotating", "revoking"},
                 Becomes(r, [request[r] EXCEPT !.pc = end, !.token = t]),
                 request[r].user = None, request[r].pc = "handling"
          PROVE  Summary(r)
      BY <1>0, <1>13, <2>3, LookedEffect DEF Sound, PCs
    <2>4. Tokens \subseteq Nat
      BY <1>0 DEF Tokens, Types
    <2> HIDE DEF Summary
    <2>5. ASSUME NEW u \in Users, Register(r, u) \/ Login(r, u)
          PROVE  Summary(r)
      BY <2>1, <2>2, <2>5 DEF Register, Login
    <2>6. ASSUME NEW t \in Tokens, ReadRefresh(r, t) \/ ReadLogout(r, t)
          PROVE  Summary(r)
      BY <2>1, <2>2, <2>3, <2>4, <2>6 DEF ReadRefresh, ReadLogout
    <2>7. ASSUME Rotate(r) \/ LogOut(r)
          PROVE  Summary(r)
      BY <1>0, <2>2, <2>7 DEF Rotate, LogOut, Sound
    <2> QED
      BY <1>13, <2>5, <2>6, <2>7 DEF IdentityStep
  <1> QED
    BY <1>1, <1>2, <1>3, <1>4, <1>5, <1>6, <1>7, <1>8, <1>9, <1>10, <1>11,
       <1>12, <1>13 DEF RequestStep

(* A crash ends what is under way and stores nothing.                      *)
LEMMA CrashSummary ==
  ASSUME ApiInv, Crash, NEW r \in Requests
  PROVE  /\ request'[r] \in Request
         /\ Sound(request'[r])
         /\ request'[r].pc = "done" <=> request[r].pc = "done"
         /\ request'[r].route = request[r].route
         /\ request'[r].user = request[r].user
         /\ request'[r].stored = request[r].stored
  <1>1. request[r] \in Request /\ Sound(request[r])
    BY DEF ApiInv, Types
  <1>2. CASE request[r].pc \in {"idle", "done", "untold", "raised"}
    BY <1>1, <1>2 DEF Crash
  <1>3. CASE request[r].pc \notin {"idle", "done", "untold", "raised"}
    <2>1. request'[r] = Gone(request[r], "lost")
      BY <1>3 DEF Crash, Gone
    <2>2. "lost" \in PCs
      BY DEF PCs
    <2>3. request'[r] =
             [pc |-> "lost", route |-> request[r].route,
              user |-> request[r].user, token |-> request[r].token,
              answer |-> request[r].answer, stored |-> request[r].stored]
      BY <1>1, <2>1, <2>2, GoneFields
    <2> QED
      BY <1>1, <1>3, <2>3 DEF Request, PCs, Sound
  <1> QED
    BY <1>2, <1>3

LEMMA SoundKept ==
  ASSUME ApiInv, [Next]_vars
  PROVE  /\ request' \in [Requests -> Request]
         /\ \A r \in Requests : Sound(request'[r])
  <1>1. request \in [Requests -> Request]
    BY DEF ApiInv, Types
  <1>2. CASE Crash
    <2>1. request' = [r \in Requests |-> request'[r]]
      BY <1>2 DEF Crash
    <2> QED
      BY <1>2, <2>1, CrashSummary
  <1>3. ASSUME NEW r \in Requests, RequestStep(r)
        PROVE  /\ request' \in [Requests -> Request]
               /\ \A z \in Requests : Sound(request'[z])
    <2>1. Summary(r)
      BY <1>3, StepSummary
    <2>2. request' = [z \in Requests |-> request'[z]]
      BY <1>3, <1>1
      DEF RequestStep, TurnAway, ArriveOpen, Authenticate, Refuse, Write,
          Store, Send, Connect, ReadConnection, Verify, Tell, Raise,
          IdentityStep, Register, Login, ReadRefresh, Rotate, ReadLogout,
          LogOut, Responds, Leaves, Answers, Becomes
    <2> QED
      BY <2>1, <2>2 DEF Summary, ApiInv, Types
  <1>4. CASE UNCHANGED request
    BY <1>4 DEF ApiInv, Types
  <1> QED
    BY <1>2, <1>3, <1>4 DEF Next, Expire, vars

(* The account of a role decides, and a connection is created once.        *)
LEMMA VerificationsKept ==
  ASSUME ApiInv, [Next]_vars
  PROVE  Verifications'
  <1> USE DEF Verifications
  <1>1. CASE UNCHANGED <<request, connections>>
    BY <1>1 DEF ApiInv
  <1>2. CASE Crash
    <2>1. UNCHANGED connections
      BY <1>2 DEF Crash
    <2> QED
      BY <1>2, <2>1, CrashSummary DEF ApiInv
  <1>3. ASSUME NEW r \in Requests, RequestStep(r) PROVE Verifications'
    <2>1. Summary(r)
      BY <1>3, StepSummary
    <2>2. connections \in [Users -> {None, "pending", "verified", "failed"}]
      BY DEF ApiInv, Types
    <2>3. Verifications
      BY DEF ApiInv
    <2>4. CASE NoVerification(r)
      BY <2>1, <2>3, <2>4 DEF Summary, NoVerification
    <2>5. CASE Connects(r)
      BY <2>1, <2>2, <2>3, <2>5 DEF Summary, Connects
    <2>6. CASE Verifies(r)
      BY <2>1, <2>2, <2>3, <2>6, ApiAssumption DEF Summary, Verifies
    <2> QED
      BY <2>1, <2>4, <2>5, <2>6 DEF Summary
  <1> QED
    BY <1>1, <1>2, <1>3 DEF Next, Expire, vars

(* A request is done when it is told, and is told once.                    *)
LEMMA TrailKept ==
  ASSUME ApiInv, [Next]_vars
  PROVE  Trail'
  <1> USE DEF Trail
  <1>0. Trail /\ events \subseteq Event
    BY DEF ApiInv, Types
  <1>1. CASE UNCHANGED <<request, events>>
    BY <1>0, <1>1
  <1>2. CASE Crash
    <2>1. UNCHANGED events /\ events \subseteq Event
      BY <1>0, <1>2 DEF Crash
    <2>2. \A e \in events : e.request \in Requests
      BY <2>1 DEF Event
    <2> QED
      BY <1>0, <1>2, <2>1, <2>2, CrashSummary
  <1>3. ASSUME NEW r \in Requests, RequestStep(r) PROVE Trail'
    <2>1. Summary(r)
      BY <1>3, StepSummary
    <2>2. \A e \in events : e.request \in Requests /\ e.request # r
      BY <1>0, <2>1 DEF Summary, Event
    <2>3. CASE NoTelling(r)
      BY <1>0, <2>1, <2>2, <2>3 DEF Summary, NoTelling
    <2>4. CASE Tells(r) /\ request[r].user = None
      <3>1. UNCHANGED events
        BY <2>4 DEF Tells
      <3> QED
        BY <1>0, <2>1, <2>2, <2>4, <3>1 DEF Summary, Tells
    <2>5. CASE Tells(r) /\ request[r].user # None
      <3> DEFINE new == [request |-> r, actor |-> request[r].user,
                         outcome |-> Outcome(request[r].answer)]
      <3>1. events' = events \cup {new}
        BY <2>5 DEF Tells
      <3>2. /\ request[r].answer < 400 <=> request[r].stored = "stored"
            /\ request'[r].stored = request[r].stored
            /\ request'[r].user = request[r].user
            /\ request'[r].pc = "done"
        BY <2>5 DEF Tells, ApiInv, Sound
      <3>3. /\ new.request = r
            /\ new.actor = request[r].user
            /\ new.outcome = "success" <=> request[r].stored = "stored"
        BY <3>2 DEF Outcome
      <3> HIDE DEF new
      <3>4. \A e \in events' : e = new \/ e \in events
        BY <3>1
      <3>5. \A e \in events' :
               /\ request'[e.request].pc = "done"
               /\ e.actor = request'[e.request].user
               /\ e.outcome = "success" <=> request'[e.request].stored = "stored"
        BY <1>0, <2>1, <2>2, <3>2, <3>3, <3>4 DEF Summary
      <3>6. \A e, f \in events' : e.request = f.request => e = f
        BY <1>0, <2>2, <3>3, <3>4
      <3>7. \A z \in Requests :
               request'[z].pc = "done" /\ request'[z].user # None
                  => \E e \in events' : e.request = z
        BY <1>0, <2>1, <3>1, <3>3 DEF Summary
      <3> QED
        BY <3>5, <3>6, <3>7
    <2> QED
      BY <2>1, <2>3, <2>4, <2>5 DEF Summary
  <1> QED
    BY <1>1, <1>2, <1>3 DEF Next, Expire, vars

LEMMA EventsTyped ==
  ASSUME ApiInv, [Next]_vars
  PROVE  /\ events' \subseteq Event
         /\ connections' \in [Users -> {None, "pending", "verified", "failed"}]
  <1>0. /\ events \subseteq Event
        /\ connections \in [Users -> {None, "pending", "verified", "failed"}]
        /\ request \in [Requests -> Request]
    BY DEF ApiInv, Types
  <1>1. CASE UNCHANGED <<events, connections>>
    BY <1>0, <1>1
  <1>2. ASSUME NEW r \in Requests, RequestStep(r)
        PROVE  /\ events' \subseteq Event
               /\ connections' \in [Users -> {None, "pending", "verified", "failed"}]
    <2>1. Summary(r)
      BY <1>2, StepSummary
    <2>2. events' \subseteq Event
      <3>1. CASE Tells(r) /\ request[r].user # None
        <4>1. request[r].user \in Users
          BY <1>0, <3>1 DEF Request
        <4> QED
          BY <1>0, <3>1, <4>1 DEF Tells, Event, Outcome
      <3> QED
        BY <1>0, <2>1, <3>1 DEF Summary, Tells, NoTelling
    <2>3. connections' \in [Users -> {None, "pending", "verified", "failed"}]
      BY <1>0, <2>1 DEF Summary, NoVerification, Connects, Verifies
    <2> QED
      BY <2>2, <2>3
  <1> QED
    BY <1>1, <1>2 DEF Next, Expire, Crash, vars
-----------------------------------------------------------------------------
(* The tokens.                                                             *)
TokensKnown ==
    /\ \A t \in Tokens : sessions[t].login \in Tokens
    /\ \A r \in Requests :
          request[r].pc \in {"rotating", "revoking"} => request[r].token \in Tokens
    /\ \A r \in Requests :
          request[r].pc = "rotating" /\ Revoked(request[r].token)
              => r \in overtaken

(* What a step is to the tokens: what is revoked stays revoked.            *)
Kept(t) == /\ sessions'[t].login = sessions[t].login
           /\ sessions'[t].by = sessions[t].by
           /\ sessions'[t].ended = sessions[t].ended

Nothing == /\ Len(sessions') = Len(sessions)
           /\ \A t \in Tokens : Kept(t)
LogsOut(t) == /\ Len(sessions') = Len(sessions)
              /\ t \in Tokens /\ ~Revoked(t)
              /\ \A z \in Tokens \ {t} : Kept(z)
              /\ sessions'[t].login = sessions[t].login
              /\ sessions'[t].by = sessions[t].by
              /\ sessions'[t].ended = "logout"
Rotates(r, t) == /\ Len(sessions') = Len(sessions) + 1
                 /\ t \in Tokens
                 /\ \A z \in Tokens \ {t} : Kept(z)
                 /\ sessions'[t].login = sessions[t].login
                 /\ sessions'[t].by = sessions[t].by
                 /\ sessions'[t].ended =
                        IF Revoked(t) THEN sessions[t].ended ELSE "refresh"
                 /\ sessions'[Len(sessions) + 1].login = sessions[t].login
                 /\ sessions'[Len(sessions) + 1].by = r
                 /\ sessions'[Len(sessions) + 1].ended = None
                 /\ Revoked(t) => r \in overtaken
Enters == /\ Len(sessions') = Len(sessions) + 1
          /\ \A t \in Tokens : Kept(t)
          /\ sessions'[Len(sessions) + 1].login = Len(sessions) + 1
          /\ sessions'[Len(sessions) + 1].ended = None

TokenSummary ==
    /\ sessions' \in Seq(Token)
    /\ users' \subseteq Users
    /\ overtaken \subseteq overtaken' /\ overtaken' \subseteq Requests
    /\ \/ Nothing
       \/ \E t \in Tokens : LogsOut(t)
       \/ \E r \in Requests, t \in Tokens : Rotates(r, t)
       \/ Enters

Ended(q, how) == [q EXCEPT !.ended = how]
Aged(q) == [q EXCEPT !.expired = TRUE]

LEMMA EndedFields ==
  ASSUME NEW q \in Token, NEW how \in {None, "refresh", "logout"},
         NEW n, n = Ended(q, how)
  PROVE  n = [user |-> q.user, login |-> q.login, by |-> q.by, ended |-> how,
              expired |-> q.expired]
  BY DEF Token, Ended

LEMMA AgedFields ==
  ASSUME NEW q \in Token, NEW n, n = Aged(q)
  PROVE  n = [user |-> q.user, login |-> q.login, by |-> q.by,
              ended |-> q.ended, expired |-> TRUE]
  BY DEF Token, Aged

LEMMA RevokeEffect ==
  ASSUME sessions \in Seq(Token), NEW t \in Tokens,
         NEW how \in {"refresh", "logout"}
  PROVE  /\ Revoke(t, how) \in Seq(Token)
         /\ Len(Revoke(t, how)) = Len(sessions)
         /\ \A z \in Tokens \ {t} : Revoke(t, how)[z] = sessions[z]
         /\ Revoke(t, how)[t].login = sessions[t].login
         /\ Revoke(t, how)[t].by = sessions[t].by
         /\ Revoke(t, how)[t].ended =
                IF Revoked(t) THEN sessions[t].ended ELSE how
  <1>1. sessions[t] \in Token
    BY ElementOfSeq DEF Tokens
  <1> DEFINE end == IF Revoked(t) THEN sessions[t].ended ELSE how
             n == Ended(sessions[t], end)
  <1>2. end \in {None, "refresh", "logout"}
    BY <1>1 DEF Token
  <1>3. Revoke(t, how) = [sessions EXCEPT ![t] = n]
    BY DEF Revoke, Ended
  <1> HIDE DEF end
  <1>4. n = [user |-> sessions[t].user, login |-> sessions[t].login,
             by |-> sessions[t].by, ended |-> end,
             expired |-> sessions[t].expired]
    BY <1>1, <1>2, EndedFields
  <1> HIDE DEF n
  <1>5. n \in Token
    BY <1>1, <1>2, <1>4 DEF Token
  <1> QED
    BY <1>3, <1>4, <1>5, ExceptSeq DEF Tokens, end

LEMMA IssueEffect ==
  ASSUME NEW rows \in Seq(Token), NEW u \in Users, NEW l \in Nat,
         NEW r \in Requests
  PROVE  /\ Issue(rows, u, l, r) \in Seq(Token)
         /\ Len(Issue(rows, u, l, r)) = Len(rows) + 1
         /\ \A z \in 1..Len(rows) : Issue(rows, u, l, r)[z] = rows[z]
         /\ Issue(rows, u, l, r)[Len(rows) + 1].login = l
         /\ Issue(rows, u, l, r)[Len(rows) + 1].by = r
         /\ Issue(rows, u, l, r)[Len(rows) + 1].ended = None
  <1>1. Session(u, l, r) \in Token
    BY DEF Session, Token
  <1> QED
    BY <1>1, AppendProperties DEF Issue, Session

LEMMA ExpireEffect ==
  ASSUME sessions \in Seq(Token), NEW t \in Tokens, Expire(t)
  PROVE  sessions' \in Seq(Token) /\ Nothing
  <1> DEFINE n == Aged(sessions[t])
  <1>1. sessions[t] \in Token
    BY ElementOfSeq DEF Tokens
  <1>2. sessions' = [sessions EXCEPT ![t] = n]
    BY DEF Expire, Aged
  <1>3. n = [user |-> sessions[t].user, login |-> sessions[t].login,
             by |-> sessions[t].by, ended |-> sessions[t].ended,
             expired |-> TRUE]
    BY <1>1, AgedFields
  <1> HIDE DEF n
  <1>4. n \in Token
    BY <1>1, <1>3 DEF Token
  <1> QED
    BY <1>2, <1>3, <1>4, ExceptSeq DEF Tokens, Nothing, Kept

LEMMA RotateEffect ==
  ASSUME Types, TokensKnown, NEW r \in Requests, Rotate(r)
  PROVE  /\ sessions' \in Seq(Token) /\ users' \subseteq Users
         /\ overtaken \subseteq overtaken' /\ overtaken' \subseteq Requests
         /\ Rotates(r, request[r].token)
  <1>0. /\ sessions \in Seq(Token) /\ users \subseteq Users
        /\ overtaken \subseteq Requests
        /\ Len(sessions) \in Nat /\ Tokens = 1..Len(sessions)
        /\ \A t \in Tokens : sessions[t] \in Token
    BY ElementOfSeq DEF Types, Tokens
  <1> DEFINE t == request[r].token
             rows == Revoke(t, "refresh")
  <1>1. /\ t \in Tokens
        /\ Revoked(t) => r \in overtaken
        /\ sessions[t] \in Token
    BY <1>0 DEF Rotate, TokensKnown
  <1>2. sessions' = Issue(rows, sessions[t].user, sessions[t].login, r)
    BY DEF Rotate
  <1>3. /\ UNCHANGED users /\ overtaken \subseteq overtaken'
        /\ overtaken' \subseteq Requests
    BY <1>0 DEF Rotate, Overtakes
  <1>4. sessions[t].user \in Users /\ sessions[t].login \in Nat
    BY <1>1 DEF Token
  <1> HIDE DEF t, rows
  <1>5. /\ rows \in Seq(Token) /\ Len(rows) = Len(sessions)
        /\ \A z \in Tokens \ {t} : rows[z] = sessions[z]
        /\ rows[t].login = sessions[t].login
        /\ rows[t].by = sessions[t].by
        /\ rows[t].ended = IF Revoked(t) THEN sessions[t].ended ELSE "refresh"
    BY <1>0, <1>1, RevokeEffect DEF rows
  <1>6. /\ sessions' \in Seq(Token)
        /\ Len(sessions') = Len(rows) + 1
        /\ \A z \in 1..Len(rows) : sessions'[z] = rows[z]
        /\ sessions'[Len(rows) + 1].login = sessions[t].login
        /\ sessions'[Len(rows) + 1].by = r
        /\ sessions'[Len(rows) + 1].ended = None
    <2> DEFINE u == sessions[t].user
               l == sessions[t].login
    <2>1. u \in Users /\ l \in Nat /\ rows \in Seq(Token)
      BY <1>4, <1>5
    <2>2. sessions' = Issue(rows, u, l, r)
      BY <1>2
    <2> HIDE DEF u, l
    <2>3. /\ sessions' \in Seq(Token)
          /\ Len(sessions') = Len(rows) + 1
          /\ \A z \in 1..Len(rows) : sessions'[z] = rows[z]
          /\ sessions'[Len(rows) + 1].login = l
          /\ sessions'[Len(rows) + 1].by = r
          /\ sessions'[Len(rows) + 1].ended = None
      BY <2>1, <2>2, IssueEffect
    <2> QED
      BY <2>3 DEF l
  <1>7. /\ sessions' \in Seq(Token)
        /\ Len(sessions') = Len(sessions) + 1
        /\ \A z \in Tokens : sessions'[z] = rows[z]
        /\ sessions'[Len(sessions) + 1].login = sessions[t].login
        /\ sessions'[Len(sessions) + 1].by = r
        /\ sessions'[Len(sessions) + 1].ended = None
    BY <1>0, <1>5, <1>6
  <1>8. Rotates(r, t)
    BY <1>1, <1>5, <1>7 DEF Rotates, Kept
  <1> QED
    BY <1>0, <1>1, <1>3, <1>7, <1>8 DEF t

LEMMA LogOutEffect ==
  ASSUME Types, TokensKnown, NEW r \in Requests, LogOut(r)
  PROVE  /\ sessions' \in Seq(Token) /\ users' \subseteq Users
         /\ overtaken \subseteq overtaken' /\ overtaken' \subseteq Requests
         /\ request[r].token \in Tokens
         /\ Nothing \/ LogsOut(request[r].token)
  <1>0. /\ sessions \in Seq(Token) /\ users \subseteq Users
        /\ overtaken \subseteq Requests
        /\ Len(sessions) \in Nat /\ Tokens = 1..Len(sessions)
        /\ \A t \in Tokens : sessions[t] \in Token
    BY ElementOfSeq DEF Types, Tokens
  <1> DEFINE t == request[r].token
  <1>1. t \in Tokens
    BY DEF LogOut, TokensKnown
  <1>2. sessions' = Revoke(t, "logout")
    BY DEF LogOut
  <1>3. /\ UNCHANGED users /\ overtaken \subseteq overtaken'
        /\ overtaken' \subseteq Requests
    BY <1>0 DEF LogOut, Overtakes
  <1> HIDE DEF t
  <1>4. /\ sessions' \in Seq(Token) /\ Len(sessions') = Len(sessions)
        /\ \A z \in Tokens \ {t} : sessions'[z] = sessions[z]
        /\ sessions'[t].login = sessions[t].login
        /\ sessions'[t].by = sessions[t].by
        /\ sessions'[t].ended = IF Revoked(t) THEN sessions[t].ended ELSE "logout"
    BY <1>0, <1>1, <1>2, RevokeEffect
  <1>5. Nothing \/ LogsOut(t)
    BY <1>1, <1>4 DEF Nothing, LogsOut, Kept
  <1> QED
    BY <1>0, <1>1, <1>3, <1>4, <1>5 DEF t

LEMMA TokensStep ==
  ASSUME Types, TokensKnown, [Next]_vars
  PROVE  TokenSummary
  <1> USE DEF TokenSummary
  <1>0. /\ sessions \in Seq(Token) /\ users \subseteq Users
        /\ overtaken \subseteq Requests
        /\ Len(sessions) \in Nat /\ Tokens = 1..Len(sessions)
        /\ \A t \in Tokens : sessions[t] \in Token
    BY ElementOfSeq DEF Types, Tokens
  <1>1. CASE UNCHANGED sessionVars
    BY <1>0, <1>1 DEF sessionVars, Nothing, Kept
  <1>2. ASSUME NEW t \in Tokens, Expire(t) PROVE TokenSummary
    BY <1>0, <1>2, ExpireEffect DEF Expire
  <1>3. ASSUME NEW u \in Users, NEW r \in Requests,
               sessions' = Issue(sessions, u, Len(sessions) + 1, r),
               users' \subseteq Users, UNCHANGED overtaken
        PROVE  TokenSummary
    <2>1. Len(sessions) + 1 \in Nat
      BY <1>0
    <2>2. Enters /\ sessions' \in Seq(Token)
      BY <1>0, <1>3, <2>1, IssueEffect DEF Enters, Kept
    <2> QED
      BY <1>0, <1>3, <2>2
  <1>4. ASSUME NEW r \in Requests, NEW u \in Users, Register(r, u)
        PROVE  TokenSummary
    BY <1>0, <1>1, <1>3, <1>4 DEF Register, sessionVars
  <1>5. ASSUME NEW r \in Requests, NEW u \in Users, Login(r, u)
        PROVE  TokenSummary
    BY <1>0, <1>1, <1>3, <1>5 DEF Login, sessionVars
  <1>6. ASSUME NEW r \in Requests, Rotate(r) PROVE TokenSummary
    BY <1>6, RotateEffect DEF Rotates
  <1>7. ASSUME NEW r \in Requests, LogOut(r) PROVE TokenSummary
    BY <1>7, LogOutEffect DEF LogsOut
  <1> HIDE DEF TokenSummary
  <1> QED
    BY <1>1, <1>2, <1>4, <1>5, <1>6, <1>7
    DEF Next, RequestStep, TurnAway, ArriveOpen, Authenticate, Refuse, Write,
        Store, Send, Connect, ReadConnection, Verify, Tell, Raise, Crash,
        IdentityStep, ReadRefresh, ReadLogout, vars, sessionVars

(* A request whose token is revoked under it is known to be overtaken.     *)
LEMMA TokensKnownKept ==
  ASSUME ApiInv, TokensKnown, [Next]_vars
  PROVE  TokensKnown'
  <1>1. Types
    BY DEF ApiInv
  <1>2. TokenSummary
    BY <1>1, TokensStep
  <1>3. Len(sessions) \in Nat /\ Tokens = 1..Len(sessions)
    BY <1>1, LenProperties DEF Types, Tokens
  <1>4. Tokens' = 1..Len(sessions')
    BY DEF Tokens
  <1>5. \A t \in Tokens' : sessions'[t].login \in Tokens'
    BY <1>2, <1>3, <1>4
    DEF TokensKnown, TokenSummary, Nothing, LogsOut, Rotates, Enters, Kept
  <1>6. Tokens \subseteq Tokens'
    BY <1>2, <1>3, <1>4 DEF TokenSummary, Nothing, LogsOut, Rotates, Enters
  <1> DEFINE Good(r) ==
        /\ request'[r].pc \in {"rotating", "revoking"}
               => request'[r].token \in Tokens'
        /\ (request'[r].pc = "rotating"
              /\ sessions'[request'[r].token].ended # None)
               => r \in overtaken'
  <1> SUFFICES \A r \in Requests : Good(r)
    BY <1>5 DEF TokensKnown, Revoked
  <1>7. ASSUME NEW r \in Requests, request'[r].pc \notin {"rotating", "revoking"}
        PROVE  Good(r)
    BY <1>7
  <1>8. ASSUME NEW r \in Requests, request'[r] = request[r],
               \A t \in Tokens : sessions'[t].ended = sessions[t].ended
        PROVE  Good(r)
    BY <1>2, <1>6, <1>8 DEF TokensKnown, TokenSummary, Revoked
  <1>9. ASSUME NEW r \in Requests, request'[r] = request[r],
               NEW q \in Requests, q # r, Overtakes(q, request[q].token),
               \A t \in Tokens \ {request[q].token} :
                  sessions'[t].ended = sessions[t].ended
        PROVE  Good(r)
    BY <1>2, <1>6, <1>9 DEF TokensKnown, TokenSummary, Revoked, Overtakes
  <1>10. CASE UNCHANGED request /\ \A t \in Tokens :
                  sessions'[t].ended = sessions[t].ended
    BY <1>8, <1>10
  <1>11. CASE Crash
    <2>1. ASSUME NEW r \in Requests PROVE Good(r)
      <3>1. CASE request'[r] = request[r]
        BY <1>8, <1>11, <3>1 DEF Crash, sessionVars
      <3>2. CASE request'[r] # request[r]
        <4>1. request'[r] = Gone(request[r], "lost")
          BY <1>11, <3>2 DEF Crash, Gone
        <4>2. request[r] \in Request /\ "lost" \in PCs
          BY <1>1 DEF Types, PCs
        <4>3. request'[r].pc = "lost"
          BY <4>1, <4>2, GoneFields
        <4> QED
          BY <1>7, <4>3
      <3> QED
        BY <3>1, <3>2
    <2> QED
      BY <2>1
  <1>12. ASSUME NEW q \in Requests, RequestStep(q)
         PROVE  \A r \in Requests : Good(r)
    <2>1. \A r \in Requests \ {q} : request'[r] = request[r]
      BY <1>12, StepSummary DEF Summary
    <2>2. ASSUME request'[q].pc \notin {"rotating", "revoking"},
                 \A t \in Tokens : sessions'[t].ended = sessions[t].ended
          PROVE  \A r \in Requests : Good(r)
      BY <1>7, <1>8, <2>1, <2>2
    <2>3. ASSUME request'[q].pc \notin {"rotating", "revoking"},
                 UNCHANGED sessionVars
          PROVE  \A r \in Requests : Good(r)
      BY <2>2, <2>3 DEF sessionVars
    <2>4. CASE ~IdentityStep(q)
      <3>1. UNCHANGED sessionVars
        BY <1>12, <2>4
        DEF RequestStep, TurnAway, Authenticate, ArriveOpen, Refuse, Write,
            Store, Send, Connect, ReadConnection, Verify, Tell, Raise
      <3>2. request'[q].pc \notin {"rotating", "revoking"}
        BY <1>12, <2>4, StepSummary DEF Summary
      <3> QED
        BY <2>3, <3>1, <3>2
    <2>5. ASSUME NEW c \in {200, 400}, Answers(q, c),
                 \A t \in Tokens : sessions'[t].ended = sessions[t].ended
          PROVE  \A r \in Requests : Good(r)
      BY <1>1, <2>2, <2>5, AnsweredEffect
    <2>6. ASSUME NEW u \in Users, Register(q, u) \/ Login(q, u)
          PROVE  \A r \in Requests : Good(r)
      <3>1. ASSUME UNCHANGED sessions
            PROVE  \A t \in Tokens : sessions'[t].ended = sessions[t].ended
        BY <3>1
      <3>2. ASSUME sessions' = Issue(sessions, u, Len(sessions) + 1, q)
            PROVE  \A t \in Tokens : sessions'[t].ended = sessions[t].ended
        <4>1. sessions \in Seq(Token) /\ Len(sessions) + 1 \in Nat
          BY <1>1, <1>3 DEF Types
        <4> QED
          BY <1>3, <3>2, <4>1, IssueEffect
      <3> QED
        BY <2>5, <2>6, <3>1, <3>2 DEF Register, Login
    <2>7. ASSUME NEW t \in Tokens, ReadRefresh(q, t) \/ ReadLogout(q, t)
          PROVE  \A r \in Requests : Good(r)
      <3>1. UNCHANGED <<sessions, overtaken>>
        BY <2>7 DEF ReadRefresh, ReadLogout, sessionVars
      <3>2. ASSUME NEW end \in {"rotating", "revoking"}, ~Revoked(t),
                   Becomes(q, [request[q] EXCEPT !.pc = end, !.token = t])
            PROVE  \A r \in Requests : Good(r)
        <4>1. end \in PCs /\ t \in Nat
          BY <1>3 DEF PCs
        <4>2. request'[q].token = t
          BY <1>1, <3>2, <4>1, LookedEffect
        <4>3. Good(q)
          BY <1>6, <3>1, <3>2, <4>2 DEF Revoked
        <4> QED
          BY <1>8, <2>1, <3>1, <4>3
      <3> QED
        BY <2>5, <2>7, <3>1, <3>2 DEF ReadRefresh, ReadLogout, Usable
    <2>8. ASSUME Rotate(q) \/ LogOut(q)
          PROVE  \A r \in Requests : Good(r)
      <3> DEFINE t == request[q].token
      <3>1. t \in Tokens
        BY <2>8 DEF TokensKnown, Rotate, LogOut
      <3>2. Overtakes(q, t) /\ Answers(q, 200)
        BY <2>8 DEF Rotate, LogOut
      <3>3. \A z \in Tokens \ {t} : sessions'[z].ended = sessions[z].ended
        BY <1>1, <2>8, RotateEffect, LogOutEffect
        DEF Rotates, LogsOut, Nothing, Kept
      <3>4. request'[q].pc = "answered"
        BY <1>1, <3>2, AnsweredEffect
      <3> QED
        BY <1>7, <1>9, <2>1, <3>2, <3>3, <3>4
    <2> QED
      BY <2>4, <2>6, <2>7, <2>8 DEF IdentityStep
  <1>13. ASSUME NEW t \in Tokens, Expire(t) PROVE \A r \in Requests : Good(r)
    BY <1>1, <1>10, <1>13, ExpireEffect DEF Types, Expire, Nothing, Kept
  <1> QED
    BY <1>10, <1>11, <1>12, <1>13 DEF Next, vars, sessionVars

(* A login's usable tokens and those it was logged out with, counted.      *)
Live(l) == {t \in Tokens : sessions[t].login = l /\ ~Revoked(t)}

LEMMA Counts ==
  ASSUME NEW L, NEW O, NEW S, NEW L2, NEW O2, NEW S2, NEW t, NEW n,
         IsFiniteSet(L), IsFiniteSet(O), IsFiniteSet(S2), S \subseteq S2,
         Cardinality(L) + Cardinality(O) <= 1 + Cardinality(S),
         \/ L2 = L /\ O2 = O
         \/ t \in L /\ L2 = L \ {t} /\ O2 = O \cup {t}
         \/ t \in L /\ L2 = (L \ {t}) \cup {n} /\ O2 = O
         \/ n \notin S /\ L2 = L \cup {n} /\ O2 = O /\ n \in S2
         \/ L = {} /\ O = {} /\ L2 = {n} /\ O2 = {}
  PROVE  Cardinality(L2) + Cardinality(O2) <= 1 + Cardinality(S2)
  <1>1. IsFiniteSet(S)
    BY FS_Subset
  <1>2. /\ Cardinality(L) \in Nat /\ Cardinality(O) \in Nat
        /\ Cardinality(S) \in Nat /\ Cardinality(S2) \in Nat
    BY <1>1, FS_CardinalityType
  <1>3. Cardinality(S) <= Cardinality(S2)
    BY FS_Subset
  <1>4. CASE L2 = L /\ O2 = O
    BY <1>2, <1>3, <1>4
  <1>5. CASE t \in L /\ L2 = L \ {t} /\ O2 = O \cup {t}
    <2>1. Cardinality(L2) = Cardinality(L) - 1
      BY <1>5, FS_RemoveElement
    <2>2. Cardinality(O2) \in {Cardinality(O), Cardinality(O) + 1}
      BY <1>5, FS_AddElement
    <2> QED
      BY <1>2, <1>3, <2>1, <2>2
  <1>6. CASE t \in L /\ L2 = (L \ {t}) \cup {n} /\ O2 = O
    <2>1. IsFiniteSet(L \ {t}) /\ Cardinality(L \ {t}) = Cardinality(L) - 1
      BY <1>6, FS_RemoveElement
    <2>2. Cardinality(L2) \in {Cardinality(L \ {t}), Cardinality(L \ {t}) + 1}
      BY <1>6, <2>1, FS_AddElement
    <2> QED
      BY <1>2, <1>3, <1>6, <2>1, <2>2
  <1>7. CASE n \notin S /\ L2 = L \cup {n} /\ O2 = O /\ n \in S2
    <2>1. Cardinality(L2) \in {Cardinality(L), Cardinality(L) + 1}
      BY <1>7, FS_AddElement
    <2>2. S \cup {n} \subseteq S2
      BY <1>7
    <2>3. Cardinality(S \cup {n}) = Cardinality(S) + 1
      BY <1>1, <1>7, FS_AddElement
    <2>4. Cardinality(S \cup {n}) <= Cardinality(S2)
      BY <2>2, FS_Subset
    <2> QED
      BY <1>2, <1>7, <2>1, <2>3, <2>4
  <1>8. CASE L = {} /\ O = {} /\ L2 = {n} /\ O2 = {}
    <2>1. Cardinality(L2) = 1 /\ Cardinality(O2) = 0
      BY <1>8, FS_Singleton, FS_EmptySet
    <2> QED
      BY <1>2, <2>1
  <1> QED
    BY <1>4, <1>5, <1>6, <1>7, <1>8

LEMMA OneLiveTokenKept ==
  ASSUME Types, TokensKnown, OneLiveToken, TokenSummary
  PROVE  OneLiveToken'
  <1>1. /\ Len(sessions) \in Nat /\ Tokens = 1..Len(sessions)
        /\ Len(sessions') \in Nat /\ Tokens' = 1..Len(sessions')
    BY LenProperties DEF Types, Tokens, TokenSummary
  <1> DEFINE n == Len(sessions) + 1
  <1> SUFFICES ASSUME NEW l \in Tokens'
               PROVE  Cardinality(Live(l)') + Cardinality(LoggedOut(l)')
                          <= 1 + Cardinality(Second(l)')
    BY DEF OneLiveToken, Live
  <1>2. l \in Tokens \/ (l = n /\ n \notin Tokens)
    BY <1>1 DEF TokenSummary, Nothing, LogsOut, Rotates, Enters
  <1>3. /\ IsFiniteSet(Live(l)) /\ IsFiniteSet(LoggedOut(l))
        /\ IsFiniteSet(Second(l)')
    <2>1. IsFiniteSet(Tokens) /\ IsFiniteSet(Tokens')
      BY <1>1, FS_Interval
    <2>2. /\ Live(l) \subseteq Tokens /\ LoggedOut(l) \subseteq Tokens
          /\ Second(l)' \subseteq Tokens'
      BY DEF Live, LoggedOut, Second
    <2> QED
      BY <2>1, <2>2, FS_Subset
  <1>4. l = n => Live(l) = {} /\ LoggedOut(l) = {}
    BY <1>1 DEF TokensKnown, Live, LoggedOut
  <1>5. Cardinality(Live(l)) + Cardinality(LoggedOut(l))
            <= 1 + Cardinality(Second(l))
    <2>1. CASE l \in Tokens
      BY <2>1 DEF OneLiveToken, Live
    <2>2. CASE l = n
      <3>1. Second(l) = {}
        BY <1>1, <2>2 DEF TokensKnown, Second
      <3>2. Live(l) = {} /\ LoggedOut(l) = {}
        BY <1>4, <2>2
      <3>3. Cardinality({}) = 0
        BY FS_EmptySet
      <3> QED
        BY <3>1, <3>2, <3>3
    <2> QED
      BY <1>2, <2>1, <2>2
  <1>6. Second(l) \subseteq Second(l)'
    BY <1>1 DEF TokenSummary, Nothing, LogsOut, Rotates, Enters, Kept, Second
  <1>7. CASE Nothing
    <2>1. Live(l)' = Live(l) /\ LoggedOut(l)' = LoggedOut(l)
      BY <1>1, <1>7 DEF Nothing, Kept, Live, LoggedOut, Revoked
    <2> QED
      BY <1>3, <1>5, <1>6, <2>1, Counts
  <1>8. ASSUME NEW t \in Tokens, LogsOut(t)
        PROVE  Cardinality(Live(l)') + Cardinality(LoggedOut(l)')
                   <= 1 + Cardinality(Second(l)')
    <2>1. CASE sessions[t].login # l
      <3>1. Live(l)' = Live(l) /\ LoggedOut(l)' = LoggedOut(l)
        BY <1>1, <1>8, <2>1 DEF LogsOut, Kept, Live, LoggedOut, Revoked
      <3> QED
        BY <1>3, <1>5, <1>6, <3>1, Counts
    <2>2. CASE sessions[t].login = l
      <3>1. /\ t \in Live(l)
            /\ Live(l)' = Live(l) \ {t}
            /\ LoggedOut(l)' = LoggedOut(l) \cup {t}
        BY <1>1, <1>8, <2>2, SessionsAssumption
        DEF LogsOut, Kept, Live, LoggedOut, Revoked
      <3> QED
        BY <1>3, <1>5, <1>6, <3>1, Counts
    <2> QED
      BY <2>1, <2>2
  <1>9. ASSUME NEW r \in Requests, NEW t \in Tokens, Rotates(r, t)
        PROVE  Cardinality(Live(l)') + Cardinality(LoggedOut(l)')
                   <= 1 + Cardinality(Second(l)')
    <2>4. Tokens' = Tokens \cup {n} /\ sessions'[n].ended # "logout"
      BY <1>1, <1>9, SessionsAssumption DEF Rotates
    <2>5. sessions'[t].ended = "logout" <=> sessions[t].ended = "logout"
      BY <1>9, SessionsAssumption DEF Rotates, Revoked
    <2>6. \A z \in Tokens :
             /\ sessions'[z].login = sessions[z].login
             /\ sessions'[z].ended = "logout" <=> sessions[z].ended = "logout"
      BY <1>9, <2>5 DEF Rotates, Kept
    <2>0. LoggedOut(l)' = LoggedOut(l)
      BY <2>4, <2>6 DEF LoggedOut
    <2>1. CASE sessions[t].login # l
      <3>1. Live(l)' = Live(l)
        BY <1>1, <1>9, <2>1 DEF Rotates, Kept, Live, Revoked
      <3> QED
        BY <1>3, <1>5, <1>6, <2>0, <3>1, Counts
    <2>2. CASE sessions[t].login = l /\ ~Revoked(t)
      <3>1. t \in Live(l) /\ Live(l)' = (Live(l) \ {t}) \cup {n}
        BY <1>1, <1>9, <2>2, SessionsAssumption
        DEF Rotates, Kept, Live, Revoked
      <3> QED
        BY <1>3, <1>5, <1>6, <2>0, <3>1, Counts
    <2>3. CASE sessions[t].login = l /\ Revoked(t)
      <3>1. Live(l)' = Live(l) \cup {n}
        <4>1. \A z \in Tokens :
                 /\ sessions'[z].login = sessions[z].login
                 /\ sessions'[z].ended # None <=> Revoked(z)
          BY <1>9, <2>3 DEF Rotates, Kept, Revoked
        <4>2. sessions'[n].login = l /\ sessions'[n].ended = None
          BY <1>9, <2>3 DEF Rotates
        <4> HIDE DEF n
        <4>3. \A z \in Tokens : z \in Live(l)' <=> z \in Live(l)
          BY <2>4, <4>1 DEF Live, Revoked
        <4>4. n \in Live(l)'
          BY <2>4, <4>2 DEF Live, Revoked
        <4>5. Live(l)' \subseteq Tokens \cup {n} /\ Live(l) \subseteq Tokens
          BY <2>4 DEF Live
        <4> QED
          BY <4>3, <4>4, <4>5
      <3>2. n \notin Second(l) /\ n \in Second(l)'
        BY <1>1, <1>9, <2>3 DEF Rotates, Second, TokenSummary
      <3> HIDE DEF n
      <3> QED
        BY <1>3, <1>5, <1>6, <2>0, <3>1, <3>2, Counts
    <2> QED
      BY <2>1, <2>2, <2>3
  <1>10. CASE Enters
    <2>1. CASE l # n
      <3>1. Live(l)' = Live(l) /\ LoggedOut(l)' = LoggedOut(l)
        BY <1>1, <1>10, <2>1 DEF Enters, Kept, Live, LoggedOut, Revoked
      <3> QED
        BY <1>3, <1>5, <1>6, <3>1, Counts
    <2>2. CASE l = n
      <3>1. Live(l)' = {n} /\ LoggedOut(l)' = {}
        BY <1>1, <1>10, <2>2, SessionsAssumption
        DEF Enters, Kept, Live, LoggedOut, Revoked, TokensKnown
      <3> QED
        BY <1>3, <1>4, <1>5, <1>6, <2>2, <3>1, Counts
    <2> QED
      BY <2>1, <2>2
  <1> QED
    BY <1>7, <1>8, <1>9, <1>10 DEF TokenSummary
-----------------------------------------------------------------------------
IInv == ApiInv /\ TokensKnown /\ OneLiveToken

LEMMA InitHolds == Init => IInv
  <1> SUFFICES ASSUME Init PROVE IInv
    OBVIOUS
  <1>1. /\ Len(SignedIn) \in Nat
        /\ DOMAIN SignedIn = 1..Len(SignedIn)
        /\ \A i \in 1..Len(SignedIn) : SignedIn[i] \in Users
    BY SessionsAssumption, LenProperties, ElementOfSeq
  <1>2. /\ sessions \in Seq(Token)
        /\ Len(sessions) = Len(SignedIn)
        /\ Tokens = 1..Len(SignedIn)
        /\ \A t \in Tokens : sessions[t].login = t /\ sessions[t].ended = None
    <2>1. sessions \in [1..Len(SignedIn) -> Token]
      BY <1>1 DEF Init, Session, Token
    <2>2. sessions \in Seq(Token) /\ Len(sessions) = Len(SignedIn)
      BY <1>1, <2>1
    <2>3. \A i \in 1..Len(SignedIn) : sessions[i].login = i
                                          /\ sessions[i].ended = None
      BY <1>1 DEF Init, Session
    <2> QED
      BY <1>1, <2>2, <2>3 DEF Tokens
  <1>3. \A r \in Requests : request[r] =
           [pc |-> "idle", route |-> None, user |-> None, token |-> 0,
            answer |-> 0, stored |-> None]
    BY DEF Init
  <1>4. ApiInv
    <2>1. Types
      BY <1>2, SessionsAssumption DEF Init, Types, Request, PCs
    <2>2. \A r \in Requests : Sound(request[r])
      BY <1>3 DEF Sound
    <2>3. Verifications /\ Trail
      BY <1>3, ApiAssumption DEF Init, Verifications, Trail
    <2> QED
      BY <2>1, <2>2, <2>3 DEF ApiInv
  <1>5. TokensKnown
    BY <1>2, <1>3 DEF TokensKnown
  <1>6. OneLiveToken
    <2> SUFFICES ASSUME NEW l \in Tokens
                 PROVE  Cardinality(Live(l)) + Cardinality(LoggedOut(l))
                            <= 1 + Cardinality(Second(l))
      BY DEF OneLiveToken, Live
    <2>1. Live(l) = {l} /\ LoggedOut(l) = {}
      BY <1>2, SessionsAssumption DEF Live, LoggedOut, Revoked
    <2>2. Second(l) \subseteq Tokens /\ IsFiniteSet(Tokens)
      BY <1>1, <1>2, FS_Interval DEF Second
    <2>3. Cardinality(Second(l)) \in Nat
      BY <2>2, FS_Subset, FS_CardinalityType
    <2>4. Cardinality({l}) = 1 /\ Cardinality({}) = 0
      BY FS_Singleton, FS_EmptySet
    <2> QED
      BY <2>1, <2>3, <2>4
  <1> QED
    BY <1>4, <1>5, <1>6 DEF IInv

LEMMA InvKept ==
  ASSUME IInv, [Next]_vars
  PROVE  IInv'
  <1>1. ApiInv /\ Types /\ TokensKnown /\ OneLiveToken
    BY DEF IInv, ApiInv
  <1>2. TokenSummary
    BY <1>1, TokensStep
  <1>3. Types'
    BY <1>1, <1>2, SoundKept, EventsTyped DEF Types, TokenSummary
  <1>4. ApiInv'
    BY <1>1, <1>3, SoundKept, VerificationsKept, TrailKept DEF ApiInv
  <1>5. TokensKnown' /\ OneLiveToken'
    BY <1>1, <1>2, TokensKnownKept, OneLiveTokenKept
  <1> QED
    BY <1>4, <1>5 DEF IInv

LEMMA InvHolds == Spec => []IInv
  <1>1. IInv /\ [Next]_vars => IInv'
    BY InvKept
  <1> QED
    BY <1>1, InitHolds, PTL DEF Spec

(* The trail says what the tables hold.  It needs that a handler that      *)
(* answers below 400 has stored something, and that a verification depends *)
(* on nothing that changes afterwards.                                     *)
THEOREM TrailIsTrueHolds == Spec => []TrailIsTrue
  <1>1. IInv => TrailIsTrue
    <2> SUFFICES ASSUME IInv, NEW e \in events
                 PROVE  LET q == request[e.request] IN
                        /\ e.actor = q.user
                        /\ e.outcome = "success" => q.stored = "stored"
                        /\ e.outcome = "rejected" => q.stored \in {None, "failed"}
                        /\ RouteOf(e.request).does = "verify" /\ q.stored # None =>
                              (connections[e.actor] = "verified")
                                  = (e.outcome = "success")
      BY DEF TrailIsTrue
    <2>1. /\ e \in Event
          /\ Verifications /\ Trail
          /\ request \in [Requests -> Request]
      BY DEF IInv, ApiInv, Types
    <2>2. e.request \in Requests /\ request[e.request] \in Request
      BY <2>1 DEF Event
    <2>3. /\ e.actor = request[e.request].user
          /\ e.outcome = "success" <=> request[e.request].stored = "stored"
      BY <2>1 DEF Trail
    <2>4. RouteOf(e.request).does = Does(request[e.request].route)
      BY <2>2, RouteDoes
    <2>5. ASSUME Does(request[e.request].route) = "verify",
                 request[e.request].stored # None
          PROVE  connections[e.actor] = "verified" <=> e.outcome = "success"
      BY <2>1, <2>2, <2>3, <2>5 DEF Verifications
    <2> QED
      BY <2>2, <2>3, <2>4, <2>5 DEF Request
  <1> QED
    BY <1>1, InvHolds, PTL

(* What a member stored is told once: the middleware names whoever it is   *)
(* that the route has authenticated, and a request is done only once.      *)
THEOREM ChangesAreToldHolds == Spec => []ChangesAreTold
  <1>1. IInv => ChangesAreTold
    <2> SUFFICES ASSUME IInv, NEW r \in Requests
                 PROVE  /\ request[r].pc = "done" /\ request[r].stored # None =>
                              \E e \in events : e.request = r
                        /\ Cardinality({e \in events : e.request = r}) <= 1
      BY DEF ChangesAreTold
    <2>1. Trail /\ Sound(request[r])
      BY DEF IInv, ApiInv
    <2> DEFINE told == {e \in events : e.request = r}
    <2>2. \A e, f \in told : e = f
      BY <2>1 DEF Trail
    <2>3. told = {} \/ \E e : told = {e}
      BY <2>2
    <2> HIDE DEF told
    <2>4. ASSUME told = {} PROVE Cardinality(told) <= 1
      BY <2>4, FS_EmptySet
    <2>5. ASSUME NEW e, told = {e} PROVE Cardinality(told) <= 1
      BY <2>5, FS_Singleton
    <2>6. Cardinality(told) <= 1
      BY <2>3, <2>4, <2>5
    <2> QED
      BY <2>1, <2>6 DEF Trail, Sound, told
  <1> QED
    BY <1>1, InvHolds, PTL

(* Whatever refreshes and logouts overlap, a login has one usable token,   *)
(* plus those of refreshes that had read a token when it was revoked.      *)
THEOREM OneLiveTokenHolds == Spec => []OneLiveToken
  BY InvHolds, PTL DEF IInv
=============================================================================
