CONSTANT Configs <- PassConfigs
SPECIFICATION Spec
CHECK_DEADLOCK TRUE
INVARIANTS TypeOK PowerMatchesState VblankRefExact NoCollapseWhileBusy OffWorkQuiescentAtReinit NoCircularWait
PROPERTIES EventuallyIdle CommitsEnd
