SPECIFICATION Spec
CONSTANTS
    InfraCapabilities <- Three
    OtherMetrics = {"memory"}
CHECK_DEADLOCK FALSE
INVARIANTS TypeOK PassedIsReadable InTreeVerdict NotSupportedIsNotBroken
