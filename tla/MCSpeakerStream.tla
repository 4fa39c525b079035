-------------------------- MODULE MCSpeakerStream --------------------------
(***************************************************************************)
(* SpeakerStream for TLC: three sentences, of two, no and one chunk.       *)
(***************************************************************************)
EXTENDS SpeakerStream

MCChunks == <<2, 0, 1>>
=============================================================================
