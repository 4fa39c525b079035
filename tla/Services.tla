------------------------------ MODULE Services ------------------------------
(***************************************************************************)
(* The services beside the gateway: voice, tokens, the client's link and   *)
(* its microphone, and the sockets of processes.  They have no state in    *)
(* common, and in a behavior of this module at most one of them runs: its  *)
(* states are those of the five modules side by side, not their product.   *)
(***************************************************************************)
EXTENDS VoiceProcess, TokenService, RobotLink, MicAudio, IpcSockets

otherVars == <<voiceVars, tokenVars, linkVars, micVars>>
servicesVars == <<otherVars, socketsVars>>

NoVoice == VoiceIdle /\ TokenIdle
NoLink == LinkIdle /\ MicIdle

NoService == NoVoice /\ NoLink /\ SocketsIdle

ServicesInit ==
  \/ VoiceInit /\ TokenIdle /\ NoLink /\ SocketsIdle
  \/ VoiceIdle /\ TokenInit /\ NoLink /\ SocketsIdle
  \/ NoVoice /\ LinkInit /\ MicIdle /\ SocketsIdle
  \/ NoVoice /\ LinkIdle /\ MicInit /\ SocketsIdle
  \/ NoVoice /\ NoLink /\ SocketsInit
  \/ NoService

ServicesNext ==
  \/ VoiceNext /\ UNCHANGED <<tokenVars, linkVars, micVars, socketsVars>>
  \/ TokenNext /\ UNCHANGED <<voiceVars, linkVars, micVars, socketsVars>>
  \/ LinkNext /\ UNCHANGED <<voiceVars, tokenVars, micVars, socketsVars>>
  \/ MicNext /\ UNCHANGED <<voiceVars, tokenVars, linkVars, socketsVars>>
  \/ SocketsNext /\ UNCHANGED otherVars

ServicesFairness == VoiceFairness /\ MicFairness /\ SocketsFairness

ServicesSpec == ServicesInit /\ [][ServicesNext]_servicesVars /\ ServicesFairness

\* The state of each of the five services is what its code can produce.
ServicesTypeOK ==
  VoiceTypeOK /\ TokenTypeOK /\ LinkTypeOK /\ MicTypeOK /\ SocketsTypeOK

\* Whoever is told to stop does: the microphone's readers, a socket's server with
\* its goroutines, and a connection.
StoppedMeansEnded == ReadersEnd /\ SocketsClose

LinkSpec ==
  /\ NoVoice /\ LinkInit /\ MicIdle /\ SocketsIdle
  /\ [][LinkNext /\ UNCHANGED <<voiceVars, tokenVars, micVars, socketsVars>>
       ]_servicesVars
  /\ LinkFairness

VoiceSpec ==
  /\ VoiceInit /\ TokenIdle /\ NoLink /\ SocketsIdle
  /\ [][VoiceNext /\ UNCHANGED <<tokenVars, linkVars, micVars, socketsVars>>
       ]_servicesVars
=============================================================================
