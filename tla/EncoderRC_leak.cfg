CONSTANT Configs <- LeakConfigs
SPECIFICATION Spec
CHECK_DEADLOCK FALSE
INVARIANT StopReleasesAll
