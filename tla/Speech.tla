------------------------------- MODULE Speech -------------------------------
(***************************************************************************)
(* What the speaker socket promises the program that sends it sentences:   *)
(* a sentence that was taken is spoken at most once, and sentences are     *)
(* spoken in the order of their numbers without leaving one out.           *)
(* SpeakerQueue, the model of cloud/audio_socket.go, implements it.        *)
(***************************************************************************)
EXTENDS Naturals, Sequences

CONSTANTS Jobs,        \* the sentences sent
          SeqOf,       \* the number each carries
          Modulus      \* how many numbers there are

VARIABLES accepted,    \* the sentences taken from the socket
          spoken       \* the sentences spoken, in that order

speechVars == <<accepted, spoken>>

Init == accepted = {} /\ spoken = <<>>

Accept(j) ==
  /\ accepted' = accepted \cup {j}
  /\ UNCHANGED spoken

Speak(j) ==
  /\ j \in accepted
  /\ \A i \in DOMAIN spoken : spoken[i] # j
  /\ SeqOf[j] = Len(spoken) % Modulus
  /\ spoken' = Append(spoken, j)
  /\ UNCHANGED accepted

Next == \E j \in Jobs : Accept(j) \/ Speak(j)

Spec == Init /\ [][Next]_speechVars
=============================================================================
