---------------------------- MODULE MCSdeFence ----------------------------
(* SdeFence for TLC: fence objects are interchangeable.                    *)
EXTENDS SdeFence, TLC

FencesSymmetry == Permutations(Fences)
=============================================================================
