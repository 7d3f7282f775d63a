------------------------------ MODULE MCDsiClk ------------------------------
(* Panels for TLC: command mode with every ULPS setting, command mode from  *)
(* the boot picture, video mode.                                            *)
EXTENDS DsiClk

Panel(mode, ulps, susp, phyoff, splash) ==
    [mode |-> mode, ulps |-> ulps, susp |-> susp, phyoff |-> phyoff,
     splash |-> splash]
MCConfigs ==
    {Panel("cmd", TRUE, FALSE, TRUE, FALSE), Panel("cmd", TRUE, TRUE, FALSE, FALSE),
     Panel("cmd", FALSE, TRUE, TRUE, FALSE), Panel("cmd", TRUE, FALSE, FALSE, TRUE),
     Panel("vid", FALSE, TRUE, FALSE, TRUE), Panel("vid", TRUE, FALSE, TRUE, FALSE)}
=============================================================================
