------------------------------ MODULE Sessions ------------------------------
(***************************************************************************)
(* Identity: members register and log in, and trade a refresh token for a  *)
(* new one until they log out.  A token is one row of refresh_sessions,    *)
(* which is read without a lock and written in a later step.  Passwords,   *)
(* hashes and signatures are opaque: a login may fail, an access token may *)
(* be refused.                                                             *)
(***************************************************************************)
EXTENDS Integers, FiniteSets, Sequences

CONSTANTS
    Requests,      \* the requests that are made, each of them once
    Users,         \* who may ever have an account, by email
    Members,       \* who has one from the start
    RoleOf,        \* the role of each of them in the organization it owns
    SignedIn,      \* the members who hold a refresh token from the start
    Expiries,      \* bound: how many refresh tokens outlive their time
    None

Roles == {"owner", "admin", "analyst", "viewer"}

ASSUME SessionsAssumption ==
    /\ Members \subseteq Users
    /\ RoleOf \in [Users -> Roles]
    /\ \A u \in Users \ Members : RoleOf[u] = "owner"
    /\ SignedIn \in Seq(Members)
    /\ Expiries \in Nat
    /\ None \notin Users \cup {"refresh", "logout"}

VARIABLES
    users,      \* who has an account, and with it an organization
    sessions,   \* refresh_sessions, in the order of their creation
    overtaken,  \* history: refreshes whose token was revoked under them
    request     \* where each request stands

sessionVars == <<users, sessions, overtaken>>
-----------------------------------------------------------------------------
(* A row of refresh_sessions; `login` is the row of the login it goes back *)
(* to, `by` the request that created it and `ended` what revoked it first. *)
Session(u, login, r) ==
    [user |-> u, login |-> login, by |-> r, ended |-> None, expired |-> FALSE]

Revoked(t) == sessions[t].ended # None
Tokens == 1..Len(sessions)

(* _issue_tokens: one more row.                                            *)
Issue(rows, u, login, r) == Append(rows, Session(u, login, r))

(* What a step sets revoked_at of: the first to do so counts, and whoever  *)
(* has read the row as unrevoked has been overtaken.                       *)
Revoke(t, how) ==
    [sessions EXCEPT ![t].ended = IF Revoked(t) THEN @ ELSE how]
Overtakes(r, t) ==
    overtaken' = overtaken \cup
        {q \in Requests \ {r} : /\ request[q].pc = "rotating"
                                /\ request[q].token = t}

(* What is known of a request from now on.                                 *)
Becomes(r, q) == request' = [request EXCEPT ![r] = q]

(* The answer goes out; a code is known by its class: 200, 400 or 500.     *)
Answers(r, code) ==
    Becomes(r, [request[r] EXCEPT !.pc = "answered", !.answer = code])
-----------------------------------------------------------------------------
(* register: the unique email decides, at the flush.                       *)
Register(r, u) ==
    /\ request[r].pc = "handling" /\ request[r].route = "register"
    /\ IF u \in users
       THEN Answers(r, 400) /\ UNCHANGED <<users, sessions>>
       ELSE /\ users' = users \cup {u}
            /\ sessions' = Issue(sessions, u, Len(sessions) + 1, r)
            /\ Answers(r, 200)
    /\ UNCHANGED overtaken

(* login, of an active member with its first membership.                   *)
Login(r, u) ==
    /\ request[r].pc = "handling" /\ request[r].route = "login"
    /\ \/ Answers(r, 400) /\ UNCHANGED sessions
       \/ /\ u \in users
          /\ sessions' = Issue(sessions, u, Len(sessions) + 1, r)
          /\ Answers(r, 200)
    /\ UNCHANGED <<users, overtaken>>

(* Mutant: revoked_at is not looked at.                                    *)
UsableAgain(t) == ~sessions[t].expired

(* What refresh looks for.                                                 *)
Usable(t) == ~Revoked(t) /\ ~sessions[t].expired

(* The first half of refresh, to the queries it awaits: no lock is taken.  *)
ReadRefresh(r, t) ==
    /\ request[r].pc = "handling" /\ request[r].route = "refresh"
    /\ IF Usable(t)
       THEN Becomes(r, [request[r] EXCEPT !.pc = "rotating", !.token = t])
       ELSE Answers(r, 400)
    /\ UNCHANGED sessionVars

(* The second half: one transaction revokes the old row and adds the new.  *)
Rotate(r) ==
    /\ request[r].pc = "rotating"
    /\ LET t == request[r].token IN
       /\ sessions' = Issue(Revoke(t, "refresh"), sessions[t].user,
                            sessions[t].login, r)
       /\ Overtakes(r, t)
    /\ Answers(r, 200)
    /\ UNCHANGED users

(* logout in the same two halves; an unknown or revoked token is no error. *)
ReadLogout(r, t) ==
    /\ request[r].pc = "handling" /\ request[r].route = "logout"
    /\ IF Revoked(t)
       THEN Answers(r, 200)
       ELSE Becomes(r, [request[r] EXCEPT !.pc = "revoking", !.token = t])
    /\ UNCHANGED sessionVars

LogOut(r) ==
    /\ request[r].pc = "revoking"
    /\ sessions' = Revoke(request[r].token, "logout")
    /\ Overtakes(r, request[r].token)
    /\ Answers(r, 200)
    /\ UNCHANGED users

(* refresh_token_days pass.                                                *)
Expire(t) ==
    /\ ~sessions[t].expired
    /\ Cardinality({s \in Tokens : sessions[s].expired}) < Expiries
    /\ sessions' = [sessions EXCEPT ![t].expired = TRUE]
    /\ UNCHANGED <<users, overtaken, request>>

IdentityStep(r) ==
    \/ \E u \in Users : Register(r, u) \/ Login(r, u)
    \/ \E t \in Tokens : ReadRefresh(r, t) \/ ReadLogout(r, t)
    \/ Rotate(r) \/ LogOut(r)
-----------------------------------------------------------------------------
LoggedOut(l) ==
    {t \in Tokens : sessions[t].login = l /\ sessions[t].ended = "logout"}
Second(l) ==
    {t \in Tokens : sessions[t].login = l /\ sessions[t].by \in overtaken}

(* Rotation replaces: of all the tokens that go back to one login, one is  *)
(* usable, and none after it was logged out; only a refresh that had read  *)
(* its token when it was revoked may add one more.                         *)
OneLiveToken ==
    \A l \in Tokens :
        Cardinality({t \in Tokens : sessions[t].login = l /\ ~Revoked(t)})
            + Cardinality(LoggedOut(l))
            <= 1 + Cardinality(Second(l))
=============================================================================
