\* Three requests of any kind, by an owner, a viewer and a newcomer.
CONSTANTS
    q1 = q1  q2 = q2  q3 = q3  u1 = u1  u2 = u2  u3 = u3
    None = None
    Requests = {q1, q2, q3}
    Users = {u1, u2, u3}
    Members = {u1, u2}
    RoleOf <- AllRoles
    SignedIn <- OneSession
    Expiries = 1
    RightAccount = {u1}
    Faults = {"crash", "database"}
    MaxFaults = 1
SYMMETRY RequestSymmetry
SPECIFICATION Spec
INVARIANTS OneLiveToken TrailIsTrue ChangesAreTold
CHECK_DEADLOCK FALSE
