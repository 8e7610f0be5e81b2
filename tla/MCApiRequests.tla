---------------------------- MODULE MCApiRequests ----------------------------
(* Values of the constants of ApiRequests for TLC. *)
EXTENDS ApiRequests, TLC

CONSTANTS q1, q2, q3, u1, u2, u3

AllRoles == u1 :> "owner" @@ u2 :> "viewer" @@ u3 :> "owner"
OneSession == <<u1>>
RequestSymmetry == Permutations(Requests)
=============================================================================
