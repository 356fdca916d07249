\* Two first requests of one user on a cold server that is never killed.
CONSTANTS
    r1 = r1  r2 = r2  r3 = r3  u1 = u1
    Request = {r1, r2}
    User = {u1}
    UserOf <- ThreeOfOneUser
    SessionModes = {TRUE}
    Threads = 2
    MaxCrashes = 0
    Output = {"sql"}
    RegistryState = {"ok"}
    None = None
SPECIFICATION Spec
INVARIANT SessionExclusive
CHECK_DEADLOCK FALSE
