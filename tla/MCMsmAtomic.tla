---------------------------- MODULE MCMsmAtomic ----------------------------
(* MsmAtomic for TLC: k0 is the crtc with the lower index.                 *)
EXTENDS MsmAtomic

CONSTANT k0

MCIndex == [k \in Crtcs |-> IF k = k0 THEN 0 ELSE 1]
=============================================================================
