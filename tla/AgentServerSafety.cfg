\* Three requests of one user, a cold cache with two pool workers, one kill.
CONSTANTS
    r1 = r1  r2 = r2  r3 = r3  u1 = u1
    Request = {r1, r2, r3}
    User = {u1}
    UserOf <- ThreeOfOneUser
    SessionModes = {TRUE, FALSE}
    Threads = 2
    MaxCrashes = 1
    Output = {"sql", "unread_sql", "marker"}
    RegistryState = {"ok", "undecodable"}
    None = None
SPECIFICATION Spec
SYMMETRY SameUserSymmetry
INVARIANTS TypeOK LockExclusion LockAccounted WokenIsHead NoLostWakeup ResumeExclusive NoStrayProcess AuditTellsReply
CHECK_DEADLOCK FALSE
