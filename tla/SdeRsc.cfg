SPECIFICATION Spec
CONSTANTS
    Exts = {"dp", "wb"}
    Configs <- MCConfigs
    MaxFaults = 2
INVARIANTS TypeOK VotesHonoured PowerMeansAwake
