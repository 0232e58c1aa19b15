SPECIFICATION Spec

CONSTANTS
    j1 = j1
    j2 = j2
    s1 = s1
    s2 = s2
    p1 = p1
    p2 = p2
    r1 = r1
    r2 = r2
    h1 = h1
    h2 = h2
    NoSnap = NoSnap
    Job = {j1, j2}
    Snap = {s1, s2}
    Shard = {p1, p2}
    Resource = {r1}
    Finalizer = {h1}
    Drives = {{r1}}
    Cancellable = {j1}
    JobOf <- RerunJobOf
    ResOf <- RerunResOf
    SnapOf <- PairSnapOf

PROPERTY CursorHonest
