--------------------------- MODULE MCSpeakerQueue ---------------------------
(***************************************************************************)
(* SpeakerQueue for TLC: five sentences numbered 0, 1, 1, 2, 3 modulo four, *)
(* so that a number comes twice, numbers may be missing and the counter    *)
(* wraps; a channel of two, so that three goroutines can find it full.     *)
(***************************************************************************)
EXTENDS SpeakerQueue, TLC

CONSTANTS j1, j2, j3, j4, j5

MCSeqOf == j1 :> 0 @@ j2 :> 1 @@ j3 :> 1 @@ j4 :> 2 @@ j5 :> 3
=============================================================================
