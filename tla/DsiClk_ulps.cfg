SPECIFICATION Spec
CONSTANTS
    Configs <- MCConfigs
    FaultSites = {"esd"}
    MaxFaults = 1
INVARIANT NoUlpsWhenBlank
