------------------------------ MODULE MCSdeRsc ------------------------------
(* RSC versions and panels for TLC.                                         *)
EXTENDS SdeRsc

Rsc(v3, v620, cmd) == [v3 |-> v3, v620 |-> v620, cmd |-> cmd]
MCConfigs == {Rsc(FALSE, FALSE, TRUE), Rsc(FALSE, FALSE, FALSE), Rsc(TRUE, TRUE, TRUE),
              Rsc(TRUE, TRUE, FALSE), Rsc(TRUE, FALSE, TRUE)}
=============================================================================
