\* A register and a delete of one name, and a CRG that never fails.
CONSTANTS
    c1 = c1  c2 = c2  c3 = c3  a = a  b = b  p = p  q = q  out = out  bad = bad
    Caller = {c1, c2}
    Name = {a, b}
    Path = {p, q, out, bad}
    BadPath = bad
    Malformed = Malformed
    None = None
    Calls <- RegisterAndDelete
    Allowed = {p, q, bad}
    SyncMayFail = FALSE
SPECIFICATION CliSpec
INVARIANT CrgInSync
CHECK_DEADLOCK FALSE
