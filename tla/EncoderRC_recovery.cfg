CONSTANT Configs <- RecoveryConfigs
SPECIFICATION Spec
CHECK_DEADLOCK FALSE
INVARIANT NoCheckDuringRecovery
