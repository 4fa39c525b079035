--------------------------- MODULE MCIpcListeners ---------------------------
(***************************************************************************)
(* IpcListeners for TLC.  Two handler calls, one of them unique, listen    *)
(* for one tag; one reader sends three messages of it, another one.  Three *)
(* is the least number with which a listener can take a message, miss the  *)
(* next and be offered a later one.                                        *)
(***************************************************************************)
EXTENDS IpcListeners, TLC

CONSTANTS c1, c2, s1, s2, t1

MCTagOf == c1 :> t1 @@ c2 :> t1

MCMaxSends == s1 :> (t1 :> 3) @@ s2 :> (t1 :> 1)
=============================================================================
