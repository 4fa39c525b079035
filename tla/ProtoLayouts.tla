---------------------------- MODULE ProtoLayouts ----------------------------
(***************************************************************************)
(* The layouts of the other protobuf messages between vic-gateway and      *)
(* vic-engine (internal/proto/external_interface), up to GatewayWrapper,   *)
(* which all of them are sent in.                                          *)
(***************************************************************************)
EXTENDS ProtoParts, Sequences

\* messages.pb.go
AnimationTrigger == <<Text(1)>>
Animation == <<Text(1)>>
DriveWheelsRequest == <<Fixed(1), Fixed(2), Fixed(3), Fixed(4)>>
DriveWheelsResponse == <<Message(1, ResponseStatus)>>
StopAllMotorsRequest == <<>>
StopAllMotorsResponse == <<Message(1, ResponseStatus)>>
PlayAnimationTriggerRequest ==
  <<Message(1, AnimationTrigger), Varint(2), Varint(3), Varint(4), Varint(5), Varint(6)>>
PlayAnimationRequest ==
  <<Message(1, Animation), Varint(2), Varint(3), Varint(4), Varint(5)>>
PlayAnimationResponse == <<Message(1, ResponseStatus), Varint(2), Message(3, Animation)>>
ListAnimationsRequest == <<>>
ListAnimationsResponse == <<Message(1, ResponseStatus), Many(2, Animation)>>
ListAnimationTriggersRequest == <<>>
ListAnimationTriggersResponse == <<Message(1, ResponseStatus), Many(2, AnimationTrigger)>>
MeetVictorFaceScanStarted == <<>>
MeetVictorFaceScanComplete == <<>>
FeatureStatus == <<Text(1), Text(2)>>
FaceEnrollmentCompleted == <<Varint(1), Varint(2), Text(3)>>
Status ==
  <<OneOf(<<Message(1, FeatureStatus), Message(2, MeetVictorFaceScanStarted),
    Message(3, MeetVictorFaceScanComplete), Message(4, FaceEnrollmentCompleted)>>)>>
WakeWordBegin == <<>>
WakeWordEnd == <<Varint(1), Text(2)>>
WakeWord == <<OneOf(<<Message(1, WakeWordBegin), Message(2, WakeWordEnd)>>)>>
TimeStampedStatus == <<Message(1, Status), Varint(2)>>
AccelData == <<Fixed(1), Fixed(2), Fixed(3)>>
GyroData == <<Fixed(1), Fixed(2), Fixed(3)>>
ProxData == <<Varint(1), Fixed(2), Varint(3), Varint(4), Varint(5)>>
TouchData == <<Varint(1), Varint(2)>>
RobotState ==
  <<Message(1, PoseStruct), Fixed(2), Fixed(3), Fixed(4), Fixed(5), Fixed(6), Fixed(7),
    Message(8, AccelData), Message(9, GyroData), Varint(10), Varint(11), Varint(12),
    Varint(13), Varint(14), Varint(15), Message(16, ProxData), Message(17, TouchData)>>
CladPoint == <<Fixed(1), Fixed(2)>>
RobotObservedMotion ==
  <<Varint(1), Fixed(2), Varint(3), Varint(4), Fixed(5), Varint(6), Varint(7), Fixed(8),
    Varint(9), Varint(10), Fixed(11), Varint(12), Varint(13), Fixed(14), Varint(15),
    Varint(16), Fixed(17), Varint(18), Varint(19)>>
RobotErasedEnrolledFace == <<Varint(1), Text(2)>>
UnexpectedMovement == <<Varint(1), Varint(2), Varint(3)>>
RobotObservedFace ==
  <<Varint(1), Varint(2), Message(3, PoseStruct), Message(4, CladRect), Text(5),
    Varint(6), Packed(7), Many(8, CladPoint), Many(9, CladPoint), Many(10, CladPoint),
    Many(11, CladPoint)>>
RobotChangedObservedFaceID == <<Varint(1), Varint(2)>>
RobotRenamedEnrolledFace == <<Varint(1), Text(2)>>
SetFaceToEnrollRequest ==
  <<Text(1), Varint(2), Varint(3), Varint(4), Varint(5), Varint(6)>>
SetFaceToEnrollResponse == <<Message(1, ResponseStatus)>>
EnrollFaceRequest == <<>>
EnrollFaceResponse == <<Message(1, ResponseStatus), Varint(2)>>
DriveOffChargerRequest == <<>>
DriveOffChargerResponse == <<Message(1, ResponseStatus), Varint(2)>>
DriveOnChargerRequest == <<>>
DriveOnChargerResponse == <<Message(1, ResponseStatus), Varint(2)>>
FindFacesRequest == <<>>
FindFacesResponse == <<Message(1, ResponseStatus), Varint(2)>>
LookAroundInPlaceRequest == <<>>
LookAroundInPlaceResponse == <<Message(1, ResponseStatus), Varint(2)>>
RollBlockRequest == <<>>
RollBlockResponse == <<Message(1, ResponseStatus), Varint(2)>>
UserIntent == <<Varint(1), Text(2)>>
PhotoInfo == <<Varint(1), Varint(2), Varint(3), Varint(4)>>
PhotosInfoRequest == <<>>
PhotosInfoResponse == <<Message(1, ResponseStatus), Many(2, PhotoInfo)>>
PhotoRequest == <<Varint(1)>>
PhotoPathMessage == <<Varint(1), Text(2)>>
ThumbnailRequest == <<Varint(1)>>
ThumbnailPathMessage == <<Varint(1), Text(2)>>
DeletePhotoRequest == <<Varint(1)>>
DeletePhotoResponse == <<Message(1, ResponseStatus), Varint(2)>>
PhotoTaken == <<Varint(1)>>
PathMotionProfile ==
  <<Fixed(1), Fixed(2), Fixed(3), Fixed(4), Fixed(5), Fixed(6), Fixed(7), Fixed(8),
    Fixed(9), Fixed(10), Varint(11)>>
ActionResult == <<Varint(1)>>
CancelActionByIdTagRequest == <<Varint(1)>>
CancelActionByIdTagResponse == <<Message(1, ResponseStatus)>>
CancelBehaviorRequest == <<>>
CancelBehaviorResponse == <<Message(1, ResponseStatus)>>
GoToPoseRequest ==
  <<Fixed(1), Fixed(2), Fixed(3), Message(4, PathMotionProfile), Varint(5), Varint(6)>>
GoToPoseResponse == <<Message(1, ResponseStatus), Message(2, ActionResult)>>
DockWithCubeRequest ==
  <<Varint(1), Fixed(2), Fixed(3), Varint(4), Varint(5), Varint(6),
    Message(7, PathMotionProfile), Varint(8), Varint(9)>>
DockWithCubeResponse == <<Message(1, ResponseStatus), Message(2, ActionResult)>>
DriveStraightRequest == <<Fixed(1), Fixed(2), Varint(3), Varint(4), Varint(5)>>
DriveStraightResponse == <<Message(1, ResponseStatus), Message(2, ActionResult)>>
TurnInPlaceRequest ==
  <<Fixed(1), Fixed(2), Fixed(3), Fixed(4), Varint(5), Varint(6), Varint(7)>>
TurnInPlaceResponse == <<Message(1, ResponseStatus), Message(2, ActionResult)>>
SetHeadAngleRequest == <<Fixed(1), Fixed(2), Fixed(3), Fixed(4), Varint(5), Varint(6)>>
SetHeadAngleResponse == <<Message(1, ResponseStatus), Message(2, ActionResult)>>
SetLiftHeightRequest == <<Fixed(1), Fixed(2), Fixed(3), Fixed(4), Varint(5), Varint(6)>>
SetLiftHeightResponse == <<Message(1, ResponseStatus), Message(2, ActionResult)>>
TurnTowardsFaceRequest == <<Varint(1), Fixed(2), Varint(3), Varint(4)>>
TurnTowardsFaceResponse == <<Message(1, ResponseStatus), Message(2, ActionResult)>>
GoToObjectRequest ==
  <<Varint(1), Message(2, PathMotionProfile), Fixed(3), Varint(4), Varint(5), Varint(6)>>
GoToObjectResponse == <<Message(1, ResponseStatus), Message(2, ActionResult)>>
RollObjectRequest ==
  <<Varint(1), Message(2, PathMotionProfile), Fixed(3), Varint(4), Varint(5), Varint(6),
    Varint(7)>>
RollObjectResponse == <<Message(1, ResponseStatus), Message(2, ActionResult)>>
PopAWheelieRequest ==
  <<Varint(1), Message(2, PathMotionProfile), Fixed(3), Varint(4), Varint(5), Varint(6),
    Varint(7)>>
PopAWheelieResponse == <<Message(1, ResponseStatus), Message(2, ActionResult)>>
PickupObjectRequest ==
  <<Varint(1), Message(2, PathMotionProfile), Fixed(3), Varint(4), Varint(5), Varint(6),
    Varint(7)>>
PickupObjectResponse == <<Message(1, ResponseStatus), Message(2, ActionResult)>>
PlaceObjectOnGroundHereRequest == <<Varint(1), Varint(2)>>
PlaceObjectOnGroundHereResponse ==
  <<Message(1, ResponseStatus), Message(2, ActionResult)>>
BatteryStateRequest == <<>>
CubeBattery == <<Varint(1), Text(2), Fixed(3), Fixed(4)>>
BatteryStateResponse ==
  <<Message(1, ResponseStatus), Varint(2), Fixed(3), Varint(4), Varint(5), Fixed(6),
    Message(7, CubeBattery)>>
VersionStateRequest == <<>>
VersionStateResponse == <<Message(1, ResponseStatus), Text(2), Text(3)>>
SayTextRequest == <<Text(1), Varint(2), Fixed(3), Fixed(4)>>
SayTextResponse == <<Message(1, ResponseStatus), Varint(2)>>
StimulationInfo ==
  <<Texts(1), Fixed(2), Fixed(3), Fixed(4), Fixed(5), Fixed(6), Fixed(7)>>
AudioSendModeRequest == <<Varint(1)>>
AudioSendModeChanged == <<Varint(1)>>
AudioChunk ==
  <<Varint(1), Varint(2), Varint(3), Varint(4), Text(5), Text(6), Varint(7), Varint(8),
    Varint(9)>>
ExternalAudioStreamPrepare == <<Varint(1), Varint(2)>>
ExternalAudioStreamChunk == <<Varint(1), Text(2)>>
ExternalAudioStreamComplete == <<>>
ExternalAudioStreamCancel == <<>>
ExternalAudioStreamPlaybackComplete == <<>>
ExternalAudioStreamPlaybackFailure == <<>>
ExternalAudioStreamBufferOverrun == <<Varint(1), Varint(2)>>
ExternalAudioStreamResponse ==
  <<OneOf(<<Message(1, ExternalAudioStreamPlaybackComplete),
    Message(2, ExternalAudioStreamBufferOverrun),
    Message(3, ExternalAudioStreamPlaybackFailure)>>)>>
MasterVolumeRequest == <<Varint(1)>>
MasterVolumeResponse == <<Message(1, ResponseStatus)>>
EnableMarkerDetectionRequest == <<Varint(1)>>
EnableMarkerDetectionResponse == <<Message(1, ResponseStatus)>>
EnableFaceDetectionRequest == <<Varint(1), Varint(2), Varint(3), Varint(4), Varint(5)>>
EnableFaceDetectionResponse == <<Message(1, ResponseStatus)>>
EnableMotionDetectionRequest == <<Varint(1)>>
EnableMotionDetectionResponse == <<Message(1, ResponseStatus)>>
EnableMirrorModeRequest == <<Varint(1)>>
EnableMirrorModeResponse == <<Message(1, ResponseStatus)>>
MirrorModeDisabled == <<>>
EnableImageStreamingRequest == <<Varint(1), Varint(2)>>
EnableImageStreamingResponse == <<Message(1, ResponseStatus)>>
IsImageStreamingEnabledRequest == <<>>
IsImageStreamingEnabledResponse == <<Varint(1)>>
VisionModesAutoDisabled == <<>>
ImageChunk ==
  <<Varint(1), Varint(2), Varint(3), Varint(4), Varint(5), Varint(6), Varint(7),
    Varint(8), Text(9)>>
SetEyeColorRequest == <<Fixed(1), Fixed(2)>>
SetEyeColorResponse == <<Message(1, ResponseStatus)>>
CameraConfigRequest == <<>>
CameraConfigResponse ==
  <<Fixed(1), Fixed(2), Fixed(3), Fixed(4), Fixed(5), Fixed(6), Varint(7), Varint(8),
    Fixed(9), Fixed(10)>>
SetCameraSettingsRequest == <<Fixed(1), Varint(2), Varint(3)>>
SetCameraSettingsResponse == <<Message(1, ResponseStatus), Text(2)>>
CameraSettingsUpdate == <<Fixed(1), Varint(2), Varint(3)>>
AppDisconnected == <<>>
OnboardingState == <<Varint(1)>>
OnboardingWakeUpFinished == <<>>
Onboarding1P0ChargingInfo == <<Varint(1), Varint(2), Fixed(3)>>
Onboarding ==
  <<OneOf(<<Message(1, OnboardingState), Message(9, OnboardingWakeUpFinished),
    Message(10, Onboarding1P0ChargingInfo)>>)>>
RobotHistoryRequest == <<>>
RobotHistoryResponse == <<Many(1, TimeStampedStatus)>>
OnboardingStateRequest == <<>>
OnboardingSetPhaseRequest == <<Varint(1)>>
OnboardingSetPhaseResponse == <<Message(1, ResponseStatus), Varint(2), Varint(3)>>
OnboardingPhaseProgressRequest == <<>>
OnboardingPhaseProgressResponse ==
  <<Message(1, ResponseStatus), Varint(2), Varint(3), Varint(4)>>
OnboardingChargeInfoRequest == <<>>
OnboardingChargeInfoResponse ==
  <<Message(1, ResponseStatus), Varint(2), Varint(3), Fixed(4)>>
OnboardingSkipOnboarding == <<>>
OnboardingRestart == <<>>
OnboardingMarkCompleteAndExit == <<>>
OnboardingCompleteRequest == <<>>
OnboardingWakeUpRequest == <<>>
OnboardingWakeUpStartedRequest == <<>>
OnboardingCompleteResponse == <<Varint(1)>>
OnboardingWakeUpResponse == <<Varint(1), Message(2, Onboarding1P0ChargingInfo)>>
OnboardingWakeUpStartedResponse == <<Varint(1)>>
FeatureFlagRequest == <<Text(1)>>
FeatureFlagResponse == <<Message(1, ResponseStatus), Varint(2), Varint(3)>>
FeatureFlagListRequest == <<Texts(1)>>
FeatureFlagListResponse == <<Message(1, ResponseStatus), Texts(2)>>
AttentionTransfer == <<Varint(1), Fixed(2)>>
LatestAttentionTransferRequest == <<>>
LatestAttentionTransfer == <<OneOf(<<Message(1, AttentionTransfer)>>)>>
CheckUpdateStatusResponse ==
  <<Message(1, ResponseStatus), Varint(2), Varint(3), Varint(4), Text(5), Text(6),
    Text(7), Varint(8)>>
CheckCloudRequest == <<>>
CheckCloudResponse ==
  <<Message(1, ResponseStatus), Varint(2), Text(3), Varint(4), Varint(5)>>

\* shared.pb.go
ConnectionResponse == <<Message(1, ResponseStatus), Varint(2)>>
Event ==
  <<OneOf(<<Message(1, TimeStampedStatus), Message(2, Onboarding), Message(3, WakeWord),
    Message(4, AttentionTransfer), Message(5, RobotObservedFace),
    Message(6, RobotChangedObservedFaceID), Message(7, ObjectEvent),
    Message(8, StimulationInfo), Message(9, PhotoTaken), Message(10, RobotState),
    Message(11, CubeBattery), Message(12, KeepAlivePing), Message(13, ConnectionResponse),
    Message(14, JdocsChanged), Message(15, AlexaAuthEvent),
    Message(16, MirrorModeDisabled), Message(17, VisionModesAutoDisabled),
    Message(18, CheckUpdateStatusResponse), Message(19, UserIntent),
    Message(20, RobotObservedMotion), Message(21, RobotErasedEnrolledFace),
    Message(22, RobotRenamedEnrolledFace), Message(23, CameraSettingsUpdate),
    Message(24, UnexpectedMovement)>>)>>

\* The cases of GatewayWrapper, by their numbers: the event and onboarding; attention
\* transfer, photos and JSON documents; behaviors and actions; history, cubes, speech
\* and control; vision, the cloud and audio; features, Alexa, the camera and sound.
OnboardingCases ==
  <<Message(2, Event), Message(3, OnboardingStateRequest), Message(4, OnboardingState),
    Message(5, OnboardingSkipOnboarding), Message(6, OnboardingRestart),
    Message(11, OnboardingCompleteRequest), Message(12, OnboardingCompleteResponse),
    Message(13, OnboardingWakeUpRequest), Message(14, OnboardingWakeUpResponse),
    Message(15, OnboardingWakeUpStartedRequest),
    Message(16, OnboardingWakeUpStartedResponse), Message(17, OnboardingSetPhaseRequest),
    Message(18, OnboardingSetPhaseResponse), Message(19, OnboardingPhaseProgressRequest),
    Message(20, OnboardingPhaseProgressResponse),
    Message(21, OnboardingChargeInfoRequest), Message(22, OnboardingChargeInfoResponse),
    Message(23, OnboardingMarkCompleteAndExit)>>
PhotoAndJdocCases ==
  <<Message(100, LatestAttentionTransferRequest), Message(101, LatestAttentionTransfer),
    Message(200, PhotosInfoRequest), Message(201, PhotosInfoResponse),
    Message(202, PhotoRequest), Message(203, PhotoPathMessage),
    Message(204, ThumbnailRequest), Message(205, ThumbnailPathMessage),
    Message(206, DeletePhotoRequest), Message(207, DeletePhotoResponse),
    Message(300, PullJdocsRequest), Message(301, PullJdocsResponse),
    Message(302, UpdateSettingsRequest), Message(303, UpdateSettingsResponse),
    Message(304, UpdateAccountSettingsRequest),
    Message(305, UpdateAccountSettingsResponse),
    Message(306, UpdateUserEntitlementsRequest),
    Message(307, UpdateUserEntitlementsResponse)>>
ActionCases ==
  <<Message(400, DriveOffChargerRequest), Message(401, DriveOffChargerResponse),
    Message(402, DriveOnChargerRequest), Message(403, DriveOnChargerResponse),
    Message(404, FindFacesRequest), Message(405, FindFacesResponse),
    Message(406, LookAroundInPlaceRequest), Message(407, LookAroundInPlaceResponse),
    Message(408, RollBlockRequest), Message(409, RollBlockResponse),
    Message(410, EnrollFaceRequest), Message(411, EnrollFaceResponse),
    Message(412, SetFaceToEnrollRequest), Message(413, SetFaceToEnrollResponse),
    Message(414, CancelBehaviorRequest), Message(415, CancelBehaviorResponse),
    Message(500, TurnInPlaceRequest), Message(501, TurnInPlaceResponse),
    Message(502, DriveStraightRequest), Message(503, DriveStraightResponse),
    Message(504, SetHeadAngleRequest), Message(505, SetHeadAngleResponse),
    Message(506, SetLiftHeightRequest), Message(507, SetLiftHeightResponse),
    Message(508, PlayAnimationRequest), Message(509, PlayAnimationResponse),
    Message(510, GoToPoseRequest), Message(511, GoToPoseResponse),
    Message(512, DockWithCubeRequest), Message(513, DockWithCubeResponse),
    Message(514, DriveWheelsRequest), Message(515, DriveWheelsResponse),
    Message(516, ListAnimationsRequest), Message(517, ListAnimationsResponse),
    Message(518, PlayAnimationTriggerRequest), Message(519, ListAnimationTriggersRequest),
    Message(520, ListAnimationTriggersResponse), Message(521, CancelActionByIdTagRequest),
    Message(522, CancelActionByIdTagResponse), Message(523, TurnTowardsFaceRequest),
    Message(524, TurnTowardsFaceResponse), Message(525, GoToObjectRequest),
    Message(526, GoToObjectResponse), Message(527, RollObjectRequest),
    Message(528, RollObjectResponse), Message(529, PopAWheelieRequest),
    Message(530, PopAWheelieResponse), Message(531, PickupObjectRequest),
    Message(532, PickupObjectResponse), Message(533, PlaceObjectOnGroundHereRequest),
    Message(534, PlaceObjectOnGroundHereResponse), Message(535, StopAllMotorsRequest),
    Message(536, StopAllMotorsResponse)>>
RobotCases ==
  <<Message(600, RobotHistoryRequest), Message(601, RobotHistoryResponse),
    Message(700, ConnectCubeRequest), Message(701, ConnectCubeResponse),
    Message(702, DisconnectCubeRequest), Message(703, FlashCubeLightsRequest),
    Message(704, ForgetPreferredCubeRequest), Message(705, SetPreferredCubeRequest),
    Message(706, SetCubeLightsRequest), Message(707, CubesAvailableRequest),
    Message(708, CubesAvailableResponse), Message(800, BatteryStateRequest),
    Message(801, BatteryStateResponse), Message(802, VersionStateRequest),
    Message(803, VersionStateResponse), Message(900, SayTextRequest),
    Message(901, SayTextResponse), Message(1000, ControlRequest),
    Message(1001, ControlRelease), Message(1002, BehaviorControlResponse)>>
VisionCases ==
  <<Message(1101, ImageChunk), Message(1102, EnableMarkerDetectionRequest),
    Message(1103, EnableMarkerDetectionResponse),
    Message(1104, EnableFaceDetectionRequest), Message(1105, EnableFaceDetectionResponse),
    Message(1106, EnableMotionDetectionRequest),
    Message(1107, EnableMotionDetectionResponse), Message(1108, EnableMirrorModeRequest),
    Message(1109, EnableMirrorModeResponse), Message(1110, EnableImageStreamingRequest),
    Message(1111, EnableImageStreamingResponse),
    Message(1112, IsImageStreamingEnabledRequest),
    Message(1113, IsImageStreamingEnabledResponse), Message(1200, CheckCloudRequest),
    Message(1201, CheckCloudResponse), Message(1300, AudioSendModeRequest),
    Message(1301, AudioSendModeChanged), Message(1302, AudioChunk)>>
SettingCases ==
  <<Message(1400, FeatureFlagRequest), Message(1401, FeatureFlagResponse),
    Message(1402, FeatureFlagListRequest), Message(1403, FeatureFlagListResponse),
    Message(1500, AppDisconnected), Message(1600, AlexaAuthStateRequest),
    Message(1601, AlexaAuthStateResponse), Message(1602, AlexaOptInRequest),
    Message(1603, AlexaOptInResponse), Message(1700, SetEyeColorRequest),
    Message(1701, SetEyeColorResponse), Message(1702, MasterVolumeRequest),
    Message(1703, MasterVolumeResponse), Message(1704, SetCameraSettingsRequest),
    Message(1705, SetCameraSettingsResponse), Message(1706, CameraConfigRequest),
    Message(1707, CameraConfigResponse), Message(1800, ExternalAudioStreamPrepare),
    Message(1801, ExternalAudioStreamChunk), Message(1802, ExternalAudioStreamCancel),
    Message(1803, ExternalAudioStreamComplete),
    Message(1804, ExternalAudioStreamResponse)>>

GatewayWrapper ==
  <<Varint(1), OneOf(OnboardingCases \o PhotoAndJdocCases \o ActionCases \o RobotCases
    \o VisionCases \o SettingCases)>>
=============================================================================
