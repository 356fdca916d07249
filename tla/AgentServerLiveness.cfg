\* Three requests of one user, no symmetry (it is unsound for liveness), no
\* kill, a sound registry, and the lock tables of a pool of one worker.
CONSTANTS
    r1 = r1  r2 = r2  r3 = r3  u1 = u1
    Request = {r1, r2, r3}
    User = {u1}
    UserOf <- ThreeOfOneUser
    SessionModes = {TRUE}
    Threads = 1
    MaxCrashes = 0
    Output = {"marker"}
    RegistryState = {"ok"}
    None = None
SPECIFICATION FairSpec
PROPERTIES Answered LockFreed
CHECK_DEADLOCK FALSE
