SPECIFICATION Spec
CONSTANTS
    Sources = {"instances", "cpu-metrics", "healthy-backends", "backups", "alarms", "ingress"}
    Nodes = {"n1"}
    Ampere = {"n1"}
    NodeStates <- States
    Objects <- Backups
    Limit = 1
    Samples <- Answers
    Configs <- Deployments
    MaxChanges = 1
    Nothing = Nothing
CHECK_DEADLOCK FALSE
INVARIANTS TypeOK GapsAreNamed ShownWasMeasured NewestIsShown WalkIsComplete
