SPECIFICATION Spec
CONSTANTS
    MaxPlugs = 2
    MaxSinks = 1
    MaxAsks = 1
    MaxPhyTests = 1
    MaxFaults = 1
    MaxSuspends = 1
    MaxEvents = 5
    MaxLeaks = 1
    Values = 4
INVARIANTS TypeOK ActiveNeedsHost ToldIsTrue CountsCover AbortEnds
PROPERTIES UnplugTornDown PlugNoticed
