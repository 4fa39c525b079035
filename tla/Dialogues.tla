----------------------------- MODULE Dialogues -----------------------------
(***************************************************************************)
(* What a socket promises the processes that ask a service through it: the *)
(* answers a process reads are answers to what it has asked, each at most  *)
(* once and in the order of the questions; and as long as nothing has      *)
(* interrupted its dialogue, none is left out.  IpcSockets, the model of   *)
(* internal/ipc with the token service's handlers, implements it.          *)
(***************************************************************************)
EXTENDS Naturals, Sequences

CONSTANT Peers      \* the processes that ask

VARIABLES asked,    \* how many questions each has asked, numbered from 1
          read,     \* the questions whose answers each has read, in that order
          intact    \* those whose dialogue nothing has interrupted

dialogueVars == <<asked, read, intact>>

Init ==
  /\ asked = [p \in Peers |-> 0]
  /\ read = [p \in Peers |-> <<>>]
  /\ intact = Peers

Ask(p) ==
  /\ asked' = [asked EXCEPT ![p] = @ + 1]
  /\ UNCHANGED <<read, intact>>

ReadAnswer(p, n) ==
  /\ \A i \in DOMAIN read[p] : read[p][i] < n
  /\ p \in intact => n = Len(read[p]) + 1
  /\ read' = [read EXCEPT ![p] = Append(@, n)]
  /\ UNCHANGED <<asked, intact>>

\* A process starts again or closes its connection, or the service stops.
Interrupt(S) ==
  /\ S # {}
  /\ intact' = intact \ S
  /\ UNCHANGED <<asked, read>>

Next ==
  \/ \E p \in Peers : Ask(p)
  \/ \E p \in Peers : \E n \in 1..asked[p] : ReadAnswer(p, n)
  \/ \E S \in SUBSET Peers : Interrupt(S)

Spec == Init /\ [][Next]_dialogueVars
=============================================================================
