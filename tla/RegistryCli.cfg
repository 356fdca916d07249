\* Three invocations on one registry; out lies outside the allowed roots.
CONSTANTS
    c1 = c1  c2 = c2  c3 = c3  a = a  b = b  p = p  q = q  out = out  bad = bad
    Caller = {c1, c2, c3}
    Name = {a, b}
    Path = {p, q, out, bad}
    BadPath = bad
    Malformed = Malformed
    None = None
    Calls <- Contended
    Allowed = {p, q, bad}
    SyncMayFail = TRUE
SPECIFICATION FairCliSpec
INVARIANTS CliTypeOK UniqueNames NoLitter OnlyAllowedRoots
PROPERTIES MalformedKept Refines InvocationsReturn
CHECK_DEADLOCK FALSE
