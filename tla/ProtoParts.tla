----------------------------- MODULE ProtoParts -----------------------------
(***************************************************************************)
(* The layouts of protobuf messages (internal/proto/external_interface),   *)
(* as the struct tags of the generated Go code give them: the status of    *)
(* responses, Alexa, behavior control, settings and documents, cubes.      *)
(***************************************************************************)
EXTENDS Naturals, TLC

Field(kind, number) == [kind |-> kind, number |-> number]
Varint(number) == Field("varint", number)
Fixed(number) == Field("fixed", number)
Text(number) == Field("text", number)
Message(number, layout) == Field("message", number) @@ [of |-> layout]
Packed(number) == Field("packed", number)
Texts(number) == Field("texts", number)
Many(number, layout) == Field("many", number) @@ [of |-> layout]
\* A field that is one of several, also when its value is zero, or absent.
OneOf(cases) == [kind |-> "oneof", cases |-> cases]

-----------------------------------------------------------------------------
\* response_status.pb.go
ResponseStatus == <<Varint(1)>>

\* alexa.pb.go
AlexaAuthStateRequest == <<>>
AlexaAuthStateResponse == <<Message(1, ResponseStatus), Varint(2), Text(3)>>
AlexaOptInRequest == <<Varint(1)>>
AlexaOptInResponse == <<Message(1, ResponseStatus)>>
AlexaAuthEvent == <<Varint(1), Text(2)>>

\* behavior.pb.go
ControlRelease == <<>>
ControlRequest == <<Varint(1)>>
ControlGrantedResponse == <<>>
ControlLostResponse == <<>>
ReservedControlLostResponse == <<>>

\* messages.pb.go
KeepAlivePing == <<>>

\* behavior.pb.go
BehaviorControlResponse ==
  <<OneOf(<<Message(1, ControlGrantedResponse), Message(2, ControlLostResponse),
    Message(3, KeepAlivePing), Message(4, ReservedControlLostResponse)>>)>>

\* settings.pb.go
CustomEyeColor == <<Fixed(1), Fixed(2), Varint(3)>>
RobotSettingsConfig ==
  <<OneOf(<<Varint(1)>>), OneOf(<<Varint(2)>>), OneOf(<<Message(3, CustomEyeColor)>>),
    OneOf(<<Text(4)>>), OneOf(<<Varint(5)>>), OneOf(<<Text(6)>>), OneOf(<<Varint(7)>>),
    OneOf(<<Varint(8)>>), OneOf(<<Text(9)>>), OneOf(<<Varint(10)>>)>>
AccountSettingsConfig == <<OneOf(<<Varint(1)>>), OneOf(<<Text(2)>>)>>
UserEntitlementsConfig == <<OneOf(<<Varint(1)>>)>>
Jdoc == <<Varint(1), Varint(2), Text(3), Text(4)>>
NamedJdoc == <<Varint(1), Message(2, Jdoc)>>
PullJdocsRequest == <<Packed(1)>>
PullJdocsResponse == <<Message(1, ResponseStatus), Many(2, NamedJdoc)>>
UpdateSettingsRequest == <<Message(1, RobotSettingsConfig)>>
UpdateSettingsResponse == <<Message(1, ResponseStatus), Varint(2), Message(3, Jdoc)>>
UpdateAccountSettingsRequest == <<Message(1, AccountSettingsConfig)>>
UpdateAccountSettingsResponse ==
  <<Message(1, ResponseStatus), Varint(2), Message(3, Jdoc)>>
UpdateUserEntitlementsRequest == <<Message(1, UserEntitlementsConfig)>>
UpdateUserEntitlementsResponse ==
  <<Message(1, ResponseStatus), Varint(2), Message(3, Jdoc)>>
JdocsChanged == <<Packed(1)>>

\* cube.pb.go
ConnectCubeRequest == <<>>
ConnectCubeResponse == <<Message(1, ResponseStatus), Varint(2), Varint(3), Text(4)>>
CubesAvailableRequest == <<>>
CubesAvailableResponse == <<Message(1, ResponseStatus), Texts(2)>>
DisconnectCubeRequest == <<>>
FlashCubeLightsRequest == <<>>
ForgetPreferredCubeRequest == <<>>
SetPreferredCubeRequest == <<Text(1)>>
SetCubeLightsRequest ==
  <<Varint(1), Packed(2), Packed(3), Packed(4), Packed(5), Packed(6), Packed(7),
    Packed(8), Fixed(9), Fixed(10), Varint(11), Varint(12)>>
ObjectAvailable == <<Text(1)>>
ObjectConnectionState == <<Varint(1), Text(2), Varint(3), Varint(4)>>
ObjectMoved == <<Varint(1), Varint(2)>>
ObjectStoppedMoving == <<Varint(1), Varint(2)>>
ObjectUpAxisChanged == <<Varint(1), Varint(2), Varint(3)>>
ObjectTapped == <<Varint(1), Varint(2)>>

\* messages.pb.go
CladRect == <<Fixed(1), Fixed(2), Fixed(3), Fixed(4)>>
PoseStruct ==
  <<Fixed(1), Fixed(2), Fixed(3), Fixed(4), Fixed(5), Fixed(6), Fixed(7), Varint(8)>>

\* cube.pb.go
RobotObservedObject ==
  <<Varint(1), Varint(2), Varint(3), Varint(4), Message(5, CladRect),
    Message(6, PoseStruct), Fixed(7), Varint(8)>>
CubeConnectionLost == <<>>
ObjectEvent ==
  <<OneOf(<<Message(1, ObjectAvailable), Message(2, ObjectConnectionState),
    Message(3, ObjectMoved), Message(4, ObjectStoppedMoving),
    Message(5, ObjectUpAxisChanged), Message(6, ObjectTapped),
    Message(7, RobotObservedObject), Message(8, CubeConnectionLost)>>)>>
=============================================================================
