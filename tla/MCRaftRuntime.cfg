SPECIFICATION Spec
CONSTANTS
    p1 = p1
    p2 = p2
    p3 = p3
    g1 = g1
    g2 = g2
    e1 = e1
    e2 = e2
    e3 = e3
    m1 = m1
    m2 = m2
    i1 = i1
    v1 = v1
    v2 = v2
    q1 = q1
    x1 = x1
    Proposals = {p1, p2, p3}
    Reads = {g1, g2}
    Appends = {e1, e2, e3}
    Messages = {m1, m2}
    Snapshots = {i1}
    Changes = {v1, v2}
    Statuses = {q1}
    Stops = {x1}
    Oversized = {p3}
    Wide = {p2}
    Strays = {e3}
    Scenes <- MCScenes
    QueueSize = 2
    MaxBatch = 2
    MaxBytes = 2
    Faults = {"persist", "restore", "apply", "compact"}
    MaxTerm = 2
    MaxLog = 3
INVARIANTS AnsweredOnce NobodyForgotten ArrivalOrder DiskFollowsNode PromisesKept NoGap
PROPERTIES CallsReturn
CHECK_DEADLOCK FALSE
