\* One request whose run timer expires as its process exits.
CONSTANTS
    r1 = r1  r2 = r2  r3 = r3  u1 = u1
    Request = {r1}
    User = {u1}
    UserOf <- ThreeOfOneUser
    SessionModes = {TRUE}
    Threads = 1
    MaxCrashes = 0
    Output = {"sql"}
    RegistryState = {"ok"}
    None = None
SPECIFICATION Spec
PROPERTY SpawnFailedWhileLaunching
CHECK_DEADLOCK FALSE
