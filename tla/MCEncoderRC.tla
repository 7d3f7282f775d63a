---------------------------- MODULE MCEncoderRC ----------------------------
EXTENDS EncoderRC

Cmd == [vid |-> FALSE, dms |-> FALSE, esd |-> FALSE, votes |-> FALSE,
        reserve |-> FALSE, tmo |-> FALSE]

\* command mode with mode switches, command mode with ESD checks, video mode
CmdDms == [Cmd EXCEPT !.dms = TRUE, !.votes = TRUE, !.tmo = TRUE]
CmdEsd == [Cmd EXCEPT !.esd = TRUE, !.votes = TRUE, !.tmo = TRUE, !.reserve = TRUE]
Video  == [Cmd EXCEPT !.vid = TRUE, !.votes = TRUE, !.reserve = TRUE]

\* combinations that break what the code's comments say
VideoDms == [Cmd EXCEPT !.vid = TRUE, !.dms = TRUE]
CmdEsdDms == [Cmd EXCEPT !.esd = TRUE, !.dms = TRUE, !.tmo = TRUE]
LeakConfigs == {VideoDms}
RecoveryConfigs == {CmdEsdDms}

PassConfigs == {CmdDms, CmdEsd, Video}
=============================================================================
