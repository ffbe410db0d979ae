SPECIFICATION MCSpec
CONSTANTS
    s1 = s1
    s2 = s2
    s3 = s3
    put = put
    Server = {s1, s2, s3}
    Voters = {s1, s2, s3}
    Nil = Nil
    Noop = Noop
    Command = {put}
    ElectionTickMin = 2
    ElectionTickMax = 3
    HeartbeatTicks = 1
    CheckQuorumTicks = 2
    ResendTicks = 1
    MaxAppend = 1
    SnapshotThreshold = 2
    Bounds <- MCBounds
    Scenes = {"pair", "crash", "diverged", "lagging"}
INVARIANTS ElectionSafety LogMatching StateMachineSafety LeaderCompleteness MatchTruthful
PROPERTIES OneVotePerTerm CommittedStays
CHECK_DEADLOCK FALSE
