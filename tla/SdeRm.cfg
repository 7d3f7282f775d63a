SPECIFICATION Spec
CONSTANTS
    Displays <- MCDisplays
    Display <- MCDisplay
    Splash <- MCSplash
    Mixer <- MCMixer
    Pingpong <- MCPingpong
    Ctl <- MCCtl
    Dsc <- MCDsc
    Cdm <- MCCdm
    Qdss = {}
    HasDs = FALSE
    CtlV1 = FALSE
    None = None
INVARIANTS TypeOK DrivesItsOwn Complete LockHolds
PROPERTY ImplementsReservations
