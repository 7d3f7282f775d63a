SPECIFICATION Spec
CONSTANTS
    Configs <- MCConfigs
    FaultSites = {"power", "vreg", "core", "lp", "hs", "ulps", "stop", "rate",
                  "panel", "esd"}
    MaxFaults = 1
INVARIANTS TypeOK BelievedIsOn VotesComeBack LiveLink UlpsSurvives CoreBeforeLinkUnlessFault
