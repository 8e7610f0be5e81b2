----------------------------- MODULE ApiRequests -----------------------------
(***************************************************************************)
(* The API from the outside in: the audit middleware, the current user,    *)
(* the role a route asks for, the handler with what it stores, the answer  *)
(* and the event that the middleware writes afterwards in a session of its *)
(* own.  Only requests that change something are followed.  What a route   *)
(* starts runs on in other modules; here it is the row that is stored.     *)
(* Each member owns one organization with one connection in it.            *)
(***************************************************************************)
EXTENDS Sessions

CONSTANTS
    RightAccount,  \* members whose connection names the role's own account
    Faults,        \* of {"crash", "database"}
    MaxFaults      \* bound: how many of them happen

ASSUME ApiAssumption ==
    /\ RightAccount \subseteq Users
    /\ Faults \subseteq {"crash", "database"}
    /\ MaxFaults \in Nat
    /\ None \notin {"pending", "verified", "failed", "stored"}

VARIABLES
    connections,  \* status of each organization's connection, None before
    events,       \* audit_events
    faults        \* how many faults happened

vars == <<sessionVars, request, connections, events, faults>>
-----------------------------------------------------------------------------
Operators == {"owner", "admin", "analyst"}
Admins == {"owner", "admin"}

(* A route asks for a role and does one of: "write" is one transaction;    *)
(* "start" stores a row and then sends its id, and so does "collect", for  *)
(* a verified connection only; "connect" and "verify" are about the        *)
(* connection itself.                                                      *)
Route(name, roles, does) == [name |-> name, roles |-> roles, does |-> does]

StartInventoryScan == Route("start_inventory_scan", Operators, "collect")
StartCostSync == Route("start_cost_sync", Operators, "collect")
StartMetricSync == Route("start_metric_sync", Operators, "collect")
StartSourceSync ==
    Route("start_recommendation_source_sync", Operators, "collect")
Evaluate == Route("evaluate_recommendations", Operators, "write")
UpdateStatus == Route("update_recommendation_status", Operators, "write")
AddComment == Route("add_recommendation_comment", Operators, "write")
CreateReport == Route("create_report", Operators, "start")
CreateSchedule == Route("create_report_schedule", Operators, "write")
UpdateSchedule == Route("update_report_schedule", Operators, "write")
CreateConnection == Route("create_connection", Admins, "connect")
VerifyConnection == Route("verify_connection", Admins, "verify")

Routes == {StartInventoryScan, StartCostSync, StartMetricSync,
           StartSourceSync, Evaluate, UpdateStatus, AddComment, CreateReport,
           CreateSchedule, UpdateSchedule, CreateConnection,
           VerifyConnection}
OpenRoutes == {"register", "login", "refresh", "logout"}

RouteOf(r) == CHOOSE route \in Routes : route.name = request[r].route
IsAt(r, does) ==
    /\ request[r].pc = "handling"
    /\ request[r].route \notin OpenRoutes
    /\ RoleOf[request[r].user] \in RouteOf(r).roles
    /\ RouteOf(r).does = does

Starts(r) ==
    \/ IsAt(r, "start")
    \/ IsAt(r, "collect") /\ connections[request[r].user] = "verified"
-----------------------------------------------------------------------------
(* The handler is through; the answer passes capture_status on its way out *)
(* and the middleware goes on behind it.                                   *)
Responds(r, code, stored) ==
    Becomes(r, [request[r] EXCEPT !.pc = "answered", !.answer = code,
                                  !.stored = stored])
Leaves(r, end, stored) ==
    Becomes(r, [request[r] EXCEPT !.pc = end, !.stored = stored])

(* A request that is answered before its route is reached, and without a   *)
(* current user: too large, no JSON body, or no valid access token.        *)
TurnAway(r) ==
    /\ request[r].pc = "idle"
    /\ Answers(r, 400)
    /\ UNCHANGED <<sessionVars, connections, events, faults>>

(* The routes of the identity router ask for no current user.              *)
ArriveOpen(r) ==
    /\ request[r].pc = "idle"
    /\ \E name \in OpenRoutes :
            Becomes(r, [request[r] EXCEPT !.pc = "handling", !.route = name])
    /\ UNCHANGED <<sessionVars, connections, events, faults>>

(* get_current_user: the middleware now knows whom to name.                *)
Authenticate(r, u) ==
    /\ request[r].pc = "idle"
    /\ u \in users
    /\ \E route \in Routes :
            Becomes(r, [request[r] EXCEPT !.pc = "handling",
                                          !.route = route.name, !.user = u])
    /\ UNCHANGED <<sessionVars, connections, events, faults>>

(* 403, 404, 409 or 422: the role does not do, the service knows no such   *)
(* row or refuses it as it stands, or the body is no valid one.            *)
Refuse(r) ==
    /\ request[r].pc = "handling" /\ request[r].user # None
    /\ Responds(r, 400, None)
    /\ UNCHANGED <<sessionVars, connections, events, faults>>

Write(r) ==
    /\ IsAt(r, "write")
    /\ Responds(r, 200, "stored")
    /\ UNCHANGED <<sessionVars, connections, events, faults>>

(* A start: the row is committed, and then its id is sent.                 *)
Store(r) ==
    /\ Starts(r)
    /\ Leaves(r, "sending", "stored")
    /\ UNCHANGED <<sessionVars, connections, events, faults>>

Send(r) ==
    /\ request[r].pc = "sending"
    /\ \/ Responds(r, 200, "stored")
       \/ Responds(r, 500, "failed")
    /\ UNCHANGED <<sessionVars, connections, events, faults>>

(* create_connection: a second one for the role meets the unique index,    *)
(* which nobody translates.                                                *)
Connect(r) ==
    /\ IsAt(r, "connect")
    /\ LET u == request[r].user IN
       IF connections[u] = None
       THEN /\ connections' = [connections EXCEPT ![u] = "pending"]
            /\ Responds(r, 200, "stored")
       ELSE Leaves(r, "raised", None) /\ UNCHANGED connections
    /\ UNCHANGED <<sessionVars, events, faults>>

(* verify_connection reads the row; then AWS is asked by a call that holds *)
(* the event loop, so that nothing comes between it and what it decides.   *)
ReadConnection(r) ==
    /\ IsAt(r, "verify")
    /\ connections[request[r].user] # None
    /\ Leaves(r, "assuming", None)
    /\ UNCHANGED <<sessionVars, connections, events, faults>>

Verify(r) ==
    /\ request[r].pc = "assuming"
    /\ LET u == request[r].user IN
       \/ Responds(r, 500, None) /\ UNCHANGED connections
       \/ /\ u \in RightAccount
          /\ connections' = [connections EXCEPT ![u] = "verified"]
          /\ Responds(r, 200, "stored")
       \/ /\ u \notin RightAccount
          /\ connections' = [connections EXCEPT ![u] = "failed"]
          /\ Responds(r, 500, "failed")
    /\ UNCHANGED <<sessionVars, events, faults>>
-----------------------------------------------------------------------------
(* Mutant: only what the server could not do is a rejection.               *)
OutcomeOfServer(code) == IF code < 500 THEN "success" ELSE "rejected"

Outcome(code) == IF code < 400 THEN "success" ELSE "rejected"

(* Mutant: only what was granted is.                                       *)
IsToldOfSuccess(r) == request[r].user # None /\ request[r].answer < 400

(* What is worth an event: every answer to a current user, which the       *)
(* routes of the identity router have not.                                 *)
IsTold(r) == request[r].user # None

(* AuditTrailMiddleware, after the handler; its own failure is logged and  *)
(* goes no further.                                                        *)
Tell(r) ==
    /\ request[r].pc = "answered"
    /\ \/ /\ IF IsTold(r)
             THEN events' = events \cup
                     {[request |-> r, actor |-> request[r].user,
                       outcome |-> Outcome(request[r].answer)]}
             ELSE UNCHANGED events
          /\ Becomes(r, [request[r] EXCEPT !.pc = "done"])
          /\ UNCHANGED faults
       \/ /\ "database" \in Faults /\ faults < MaxFaults
          /\ Becomes(r, [request[r] EXCEPT !.pc = "untold"])
          /\ faults' = faults + 1
          /\ UNCHANGED events
    /\ UNCHANGED <<sessionVars, connections>>

(* The database fails a query or the commit of a handler: the transaction  *)
(* is gone, what was committed before stays, and the exception passes the  *)
(* middleware by.                                                          *)
Raise(r) ==
    /\ "database" \in Faults /\ faults < MaxFaults
    /\ request[r].pc \in {"handling", "rotating", "revoking", "sending",
                          "assuming"}
    /\ Becomes(r, [request[r] EXCEPT !.pc = "raised"])
    /\ faults' = faults + 1
    /\ UNCHANGED <<sessionVars, connections, events>>

(* The API dies and starts again: what was under way is lost with it.      *)
Crash ==
    /\ "crash" \in Faults /\ faults < MaxFaults
    /\ \E r \in Requests :
            request[r].pc \notin {"idle", "done", "untold", "raised", "lost"}
    /\ request' = [r \in Requests |->
            IF request[r].pc \in {"idle", "done", "untold", "raised"}
            THEN request[r] ELSE [request[r] EXCEPT !.pc = "lost"]]
    /\ faults' = faults + 1
    /\ UNCHANGED <<sessionVars, connections, events>>
-----------------------------------------------------------------------------
Init ==
    /\ users = Members
    /\ sessions = [i \in DOMAIN SignedIn |-> Session(SignedIn[i], i, None)]
    /\ overtaken = {}
    /\ request = [r \in Requests |->
            [pc |-> "idle", route |-> None, user |-> None, token |-> 0,
             answer |-> 0, stored |-> None]]
    /\ connections = [u \in Users |-> None]
    /\ events = {}
    /\ faults = 0

RequestStep(r) ==
    \/ TurnAway(r) \/ ArriveOpen(r)
    \/ \E u \in Users : Authenticate(r, u)
    \/ Refuse(r) \/ Write(r) \/ Store(r) \/ Send(r)
    \/ Connect(r) \/ ReadConnection(r) \/ Verify(r)
    \/ Tell(r) \/ Raise(r)
    \/ IdentityStep(r) /\ UNCHANGED <<connections, events, faults>>

Next ==
    \/ \E r \in Requests : RequestStep(r)
    \/ \E t \in Tokens : Expire(t) /\ UNCHANGED <<connections, events, faults>>
    \/ Crash

Spec == Init /\ [][Next]_vars
-----------------------------------------------------------------------------
(* What the trail says is what the tables hold, whatever was requested     *)
(* meanwhile: an event names who acted, a success is about something that  *)
(* is stored, and for a verification that still stands; a rejection left   *)
(* nothing, or a row that says itself that it failed.                      *)
TrailIsTrue ==
    \A e \in events :
        LET q == request[e.request] IN
        /\ e.actor = q.user
        /\ e.outcome = "success" => q.stored = "stored"
        /\ e.outcome = "rejected" => q.stored \in {None, "failed"}
        /\ RouteOf(e.request).does = "verify" /\ q.stored # None =>
                (connections[e.actor] = "verified") = (e.outcome = "success")

(* Nothing that a member changed goes untold, a failed row included,       *)
(* unless the process died, the handler raised or the event could not be   *)
(* stored; and nobody is named twice for one request.                      *)
ChangesAreTold ==
    \A r \in Requests :
        /\ request[r].pc = "done" /\ request[r].stored # None =>
                \E e \in events : e.request = r
        /\ Cardinality({e \in events : e.request = r}) <= 1
=============================================================================
