----------------------------- MODULE MCServices -----------------------------
(***************************************************************************)
(* The services beside the gateway and the messages of the processes for   *)
(* TLC: in a behavior of this module one of the services runs, or one      *)
(* message is packed, or written to a socket and read, or the gateway and  *)
(* vic-engine talk in CLAD.                                                *)
(***************************************************************************)
EXTENDS Services, ProtoMessages

CONSTANTS Base, FaceSize, Definitions

VARIABLES form, content   \* of the CLAD message
VARIABLES defined, known, said, events, forwarded, whiteList, blackList, told, reading,
          broken   \* of what is said in CLAD

cladVars == <<form, content>>
engineVars == <<defined, known, said, events, forwarded, whiteList, blackList, told, reading,
                broken>>

Clad == INSTANCE CladCodec
Events == INSTANCE EngineEvents WITH panicked <- broken

allVars == <<servicesVars, messageVars, cladVars, engineVars>>

MCInit ==
  \/ ServicesInit /\ MessagesIdle /\ Clad!CodecIdle /\ Events!EngineEventsIdle
  \/ NoService /\ MessagesInit /\ Clad!CodecIdle /\ Events!EngineEventsIdle
  \/ NoService /\ MessagesIdle /\ Clad!CodecInit /\ Events!EngineEventsIdle
  \/ NoService /\ MessagesIdle /\ Clad!CodecIdle /\ Events!EngineEventsInit

MCNext ==
  \/ ServicesNext /\ UNCHANGED <<messageVars, cladVars, engineVars>>
  \/ MessagesNext /\ UNCHANGED <<servicesVars, cladVars, engineVars>>
  \/ Events!EngineEventsNext /\ UNCHANGED <<servicesVars, messageVars, cladVars>>

MCSpec == MCInit /\ [][MCNext]_allVars /\ ServicesFairness

\* No process takes a message for another one: a CLAD message with every boundary
\* length, and a protobuf message with every value where its encoding changes,
\* arrives as it was sent or, if the reader's buffer is too small for it, not at
\* all, is as long as was said before, and is no message when it is cut short; and
\* what becomes a message of the other kind on its way means the same there.
NoneIsMistaken ==
  /\ WholeOrNotAtAll
  /\ [](Clad!UnpacksAsPacked /\ PrefixIsLength /\ NoPartIsAMessage /\ Events!ToldAsMeant)
=============================================================================
