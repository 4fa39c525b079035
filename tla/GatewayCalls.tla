---------------------------- MODULE GatewayCalls ----------------------------
(***************************************************************************)
(* The unary RPCs of the gateway (cloud/message_handler.go): a handler     *)
(* registers a channel for the type of the answer, writes the request to   *)
(* vic-engine, waits on the channel and unregisters it when it returns.    *)
(* An answer names no request: it goes to every call that listens for its  *)
(* type.  The first part says of each RPC what its handler does; the       *)
(* second is the protocol, for calls in progress at the same time.         *)
(***************************************************************************)
EXTENDS Naturals, Sequences

\* The type of the answer; whether the handler registers for it; what it may
\* return before that, and instead of writing; how much it reads; what it returns
\* in the end; whether it ignores that the write failed.
Tell == [tag |-> "none", listens |-> "no", refused |-> {}, rejected |-> {},
         reads |-> "nothing", gives |-> {"REQUEST_PROCESSING"}, ignores |-> FALSE]

Ask(tag) == [Tell EXCEPT !.tag = tag, !.listens = "shared", !.reads = "one",
                         !.gives = {"RESPONSE_RECEIVED"}]

\* The answer is passed on with the status the engine put in it.
AskFor(tag) == [Ask(tag) EXCEPT !.gives = {"ANSWERED"}]

AskUnique(tag) == [AskFor(tag) EXCEPT !.listens = "unique"]

AskSlowly(tag) == [Ask(tag) EXCEPT !.gives = {"REQUEST_PROCESSING"}]

\* An argument out of the range of SDK tags.
ValidateActionTag(request) == [request EXCEPT !.refused = {"InvalidArgument"}]

AskTagged(tag) == ValidateActionTag(Ask(tag))

AskForFile(tag) == [Ask(tag) EXCEPT !.gives = {"NOT_FOUND", "Unknown", "RESPONSE_RECEIVED"}]

AskForList(tag) == [Ask(tag) EXCEPT !.reads = "list"]

\* Answered without the engine.
Answer(results) == [Tell EXCEPT !.refused = results, !.gives = {}]

-----------------------------------------------------------------------------
\* The engine as a recipient of commands.
DriveWheels == Tell
MoveHead == Tell
MoveLift == Tell
StopAllMotors == Tell
CancelBehavior == Tell
CancelActionByIdTag == Tell
AppIntent == Tell
CancelFaceEnrollment == Tell
UpdateEnrolledFaceByID == Tell
EraseEnrolledFaceByID == Tell
EraseAllEnrolledFaces == Tell
DisconnectCube == Tell
FlashCubeLights == Tell
ForgetPreferredCube == Tell
SetPreferredCube == Tell
SetCubeLights == Tell
AlexaOptIn == Tell
SetEyeColor == Tell
PlayAnimation == [Tell EXCEPT !.gives = {"RESPONSE_RECEIVED"}]
PlayAnimationTrigger == [Tell EXCEPT !.gives = {"RESPONSE_RECEIVED"}]
SendAppDisconnected == [Tell EXCEPT !.ignores = TRUE, !.gives = {"OK"}]

\* In thirty chunks, written until one fails.  Too few pixels for them make the
\* handler panic on the way, which LoggingUnaryInterceptor turns into an error.
DisplayFaceImageRGB == [Tell EXCEPT !.ignores = TRUE, !.rejected = {"Internal"}]

\* SendOnboardingInput, by the type of its input.
SendOnboardingComplete == AskSlowly("OnboardingCompleteResponse")
SendOnboardingWakeUpStarted == AskSlowly("OnboardingWakeUpStartedResponse")
SendOnboardingWakeUp == AskSlowly("OnboardingWakeUpResponse")
SendOnboardingSkipOnboarding == Tell
SendOnboardingRestart == Tell
SendOnboardingSetPhase == AskSlowly("OnboardingSetPhaseResponse")
SendOnboardingPhaseProgress == AskSlowly("OnboardingPhaseProgressResponse")
SendOnboardingChargeInfo == AskSlowly("OnboardingChargeInfoResponse")
SendOnboardingMarkCompleteAndExit == Tell
SendOnboardingInput == {SendOnboardingComplete, SendOnboardingWakeUpStarted,
  SendOnboardingWakeUp, SendOnboardingSkipOnboarding, SendOnboardingRestart,
  SendOnboardingSetPhase, SendOnboardingPhaseProgress, SendOnboardingChargeInfo,
  SendOnboardingMarkCompleteAndExit, Answer({"InvalidArgument"})}

\* One answer, passed on.
SetFaceToEnroll == Ask("SetFaceToEnrollResponse")
EnrollFace == Ask("EnrollFaceResponse")
RequestEnrolledNames == Ask("EnrolledNamesResponse")
DriveOffCharger == Ask("DriveOffChargerResponse")
DriveOnCharger == Ask("DriveOnChargerResponse")
FindFaces == Ask("FindFacesResponse")
LookAroundInPlace == Ask("LookAroundInPlaceResponse")
RollBlock == Ask("RollBlockResponse")
GetOnboardingState == Ask("OnboardingState")
PhotosInfo == Ask("PhotosInfoResponse")
DeletePhoto == Ask("DeletePhotoResponse")
GetLatestAttentionTransfer == Ask("LatestAttentionTransfer")
ConnectCube == Ask("ConnectCubeResponse")
CubesAvailable == Ask("CubesAvailableResponse")
SetMasterVolume == Ask("MasterVolumeResponse")
BatteryState == Ask("BatteryStateResponse")
VersionState == Ask("VersionStateResponse")
EnableFaceDetection == Ask("EnableFaceDetectionResponse")
EnableMotionDetection == Ask("EnableMotionDetectionResponse")
EnableMirrorMode == Ask("EnableMirrorModeResponse")
EnableImageStreaming == Ask("EnableImageStreamingResponse")
CreateFixedCustomObject == Ask("CreatedFixedCustomObject")
GetFeatureFlag == Ask("FeatureFlagResponse")
GetFeatureFlagList == Ask("FeatureFlagListResponse")
GetAlexaAuthState == Ask("AlexaAuthStateResponse")
SetCameraSettings == Ask("SetCameraSettingsResponse")
RobotStatusHistory == AskFor("RobotHistoryResponse")
PullJdocs == AskFor("PullJdocsResponse")
IsImageStreamingEnabled == AskFor("IsImageStreamingEnabledResponse")
GetCameraConfig == AskFor("CameraConfigResponse")
UpdateSettings == AskUnique("UpdateSettingsResponse")
UpdateAccountSettings == AskUnique("UpdateAccountSettingsResponse")
UpdateUserEntitlements == AskUnique("UpdateUserEntitlementsResponse")
GoToPose == AskTagged("GoToPoseResponse")
DockWithCube == AskTagged("DockWithCubeResponse")
DriveStraight == AskTagged("DriveStraightResponse")
TurnInPlace == AskTagged("TurnInPlaceResponse")
SetHeadAngle == AskTagged("SetHeadAngleResponse")
SetLiftHeight == AskTagged("SetLiftHeightResponse")
TurnTowardsFace == AskTagged("TurnTowardsFaceResponse")
GoToObject == AskTagged("GoToObjectResponse")
RollObject == AskTagged("RollObjectResponse")
PopAWheelie == AskTagged("PopAWheelieResponse")
PickupObject == AskTagged("PickupObjectResponse")
PlaceObjectOnGroundHere == AskTagged("PlaceObjectOnGroundHereResponse")
Photo == AskForFile("PhotoPathMessage")
Thumbnail == AskForFile("ThumbnailPathMessage")
ListAnimations == AskForList("ListAnimationsResponse")
ListAnimationTriggers == AskForList("ListAnimationTriggersResponse")

\* Refused by the limiter: the result of the last check, whatever it was.
CheckCloudConnection == [Ask("CheckCloudResponse") EXCEPT !.refused = {"last result"}]

\* The registration comes before the type of the object is looked at.
DefineCustomObject == [Ask("DefinedCustomObject") EXCEPT !.rejected = {"InvalidArgument"}]

\* Until the state is FINISHED; INVALID is an error.
SayText == [Ask("SayTextResponse") EXCEPT !.reads = "speech"]

\* Switching off does not wait for the answer, which comes nevertheless.
EnableMarkerDetection(enable) ==
  IF enable THEN Ask("EnableMarkerDetectionResponse")
            ELSE [AskSlowly("EnableMarkerDetectionResponse") EXCEPT !.reads = "nothing"]

\* Two of the modes wait for the same answer; a mode the switch does not know
\* leaves no message to write.
DeleteCustomObjects(mode) ==
  CASE mode \in {"ARCHETYPES", "CUSTOM_MARKER_OBJECTS"} ->
         Ask("RobotDeletedCustomMarkerObjects")
    [] mode = "FIXED_CUSTOM_OBJECTS" -> Ask("RobotDeletedFixedCustomObjects")
    [] OTHER -> [Ask("INVALID") EXCEPT !.rejected = {"InvalidArgument"}, !.gives = {}]

\* Without the engine.
ProtocolVersion == Answer({"SUCCESS", "UNSUPPORTED"})
SDKInitialization == Answer({"REQUEST_PROCESSING"})
UserAuthentication == Answer({"Internal", "ResourceExhausted", "RESPONSE_RECEIVED"})
UpdateAndRestart == Answer({"OK", "NOT_FOUND"})
UploadDebugLogs == Answer({"ResourceExhausted", "OK"})

Requests == UNION {
  {DriveWheels, MoveHead, MoveLift, StopAllMotors, CancelBehavior, CancelActionByIdTag,
   AppIntent, CancelFaceEnrollment, UpdateEnrolledFaceByID, EraseEnrolledFaceByID,
   EraseAllEnrolledFaces, DisconnectCube, FlashCubeLights, ForgetPreferredCube,
   SetPreferredCube, SetCubeLights, AlexaOptIn, SetEyeColor, PlayAnimation,
   PlayAnimationTrigger, SendAppDisconnected, DisplayFaceImageRGB},
  SendOnboardingInput,
  {SetFaceToEnroll, EnrollFace, RequestEnrolledNames, DriveOffCharger, DriveOnCharger,
   FindFaces, LookAroundInPlace, RollBlock, GetOnboardingState, PhotosInfo, DeletePhoto,
   GetLatestAttentionTransfer, ConnectCube, CubesAvailable, SetMasterVolume,
   BatteryState, VersionState, EnableFaceDetection, EnableMotionDetection,
   EnableMirrorMode, EnableImageStreaming, CreateFixedCustomObject, GetFeatureFlag,
   GetFeatureFlagList, GetAlexaAuthState, SetCameraSettings},
  {RobotStatusHistory, PullJdocs, IsImageStreamingEnabled, GetCameraConfig},
  {UpdateSettings, UpdateAccountSettings, UpdateUserEntitlements},
  {GoToPose, DockWithCube, DriveStraight, TurnInPlace, SetHeadAngle, SetLiftHeight,
   TurnTowardsFace, GoToObject, RollObject, PopAWheelie, PickupObject,
   PlaceObjectOnGroundHere},
  {Photo, Thumbnail, ListAnimations, ListAnimationTriggers, CheckCloudConnection,
   DefineCustomObject, SayText},
  {EnableMarkerDetection(enable) : enable \in BOOLEAN},
  {DeleteCustomObjects(mode) : mode \in {"ARCHETYPES", "FIXED_CUSTOM_OBJECTS",
                                         "CUSTOM_MARKER_OBJECTS", "UNKNOWN"}},
  {ProtocolVersion, SDKInitialization, UserAuthentication, UpdateAndRestart,
   UploadDebugLogs}}

-----------------------------------------------------------------------------
CONSTANTS Calls,          \* calls in progress at the same time
          ListCapacity,   \* messages a list call's channel holds, 500 in the code
          ListLength      \* entries of the list, in a bounded run

ASSUME CallsAssumption == ListCapacity \in Nat \ {0} /\ ListLength \in Nat

VARIABLES
  request,    \* call -> what it asks for, one of Requests
  at,         \* call -> how far its handler is
  listening,  \* the calls whose channel is registered
  box,        \* call -> its channel
  got,        \* call -> the messages it has read
  code,       \* call -> what it returns
  asked,      \* the calls whose request the engine has
  due         \* call -> the answers the engine has yet to send to it

handlerVars == <<at, code>>
channelVars == <<listening, box, got>>
engineVars == <<asked, due>>
callsVars == <<request, handlerVars, channelVars, engineVars>>

Leaves(c, result) ==
  /\ at' = [at EXCEPT ![c] = "leaving"]
  /\ code' = [code EXCEPT ![c] = result]

Refuse(c) ==
  /\ at[c] = "start"
  /\ \E result \in request[c].refused : Leaves(c, result)
  /\ UNCHANGED <<request, channelVars, engineVars>>

Listen(c) ==
  /\ listening' = listening \cup {c}
  /\ at' = [at EXCEPT ![c] = "registered"]
  /\ UNCHANGED <<request, code, box, got, engineVars>>

CreateChannel(c) ==
  /\ at[c] = "start" /\ request[c].listens = "shared"
  /\ Listen(c)

Taken(c) == \E d \in listening : request[d].tag = request[c].tag

\* CreateUniqueChannel looks for a listener under one lock and registers under
\* another.
FindTaken(c) ==
  /\ at[c] = "start" /\ request[c].listens = "unique" /\ Taken(c)
  /\ Leaves(c, "ERROR_UPDATE_IN_PROGRESS")
  /\ UNCHANGED <<request, channelVars, engineVars>>

FindFree(c) ==
  /\ at[c] = "start" /\ request[c].listens = "unique" /\ ~Taken(c)
  /\ at' = [at EXCEPT ![c] = "free"]
  /\ UNCHANGED <<request, code, channelVars, engineVars>>

CreateUniqueChannel(c) == at[c] = "free" /\ Listen(c)

Ready(c) == at[c] = "registered" \/ (at[c] = "start" /\ request[c].listens = "no")

Reject(c) ==
  /\ Ready(c)
  /\ \E result \in request[c].rejected : Leaves(c, result)
  /\ UNCHANGED <<request, channelVars, engineVars>>

WriteFails(c) ==
  /\ Ready(c) /\ request[c].gives # {}
  /\ \E result \in IF request[c].ignores THEN request[c].gives ELSE {"not written"} :
       Leaves(c, result)
  /\ UNCHANGED <<request, channelVars, engineVars>>

\* What the engine may answer: a message is the call it is meant for and its kind.
Answers(c) ==
  LET entry == <<c, "entry">> IN
  CASE request[c].tag = "none" -> {<<>>}
    [] request[c].reads = "list" -> {[i \in 1..ListLength |-> entry] \o <<<<c, "end">>>>}
    [] request[c].reads = "speech" -> {<<<<c, "speaking">>, <<c, end>>>> :
                                         end \in {"FINISHED", "INVALID"}}
    [] OTHER -> {<<<<c, "answer">>>>}

Write(c) ==
  /\ Ready(c) /\ request[c].gives # {}
  /\ asked' = asked \cup {c}
  /\ \E answers \in Answers(c) : due' = [due EXCEPT ![c] = answers]
  /\ IF request[c].reads = "nothing"
       THEN \E result \in request[c].gives : Leaves(c, result)
       ELSE at' = [at EXCEPT ![c] = "waiting"] /\ UNCHANGED code
  /\ UNCHANGED <<request, channelVars>>

IsLast(c, m) ==
  CASE request[c].reads = "list" -> m[2] = "end"
    [] request[c].reads = "speech" -> m[2] \in {"FINISHED", "INVALID"}
    [] OTHER -> TRUE

Read(c) ==
  /\ at[c] = "waiting" /\ box[c] # <<>>
  /\ LET m == Head(box[c]) IN
       /\ got' = [got EXCEPT ![c] = Append(@, m)]
       /\ box' = [box EXCEPT ![c] = Tail(@)]
       /\ IF IsLast(c, m)
            THEN \E result \in IF m[2] = "INVALID" THEN {"Internal"} ELSE request[c].gives :
                   Leaves(c, result)
            ELSE UNCHANGED handlerVars
  /\ UNCHANGED <<request, listening, engineVars>>

\* Mutant: the end of the channel ends the loop.
FindClosedDone(c) ==
  /\ at[c] = "waiting" /\ box[c] = <<>> /\ c \notin listening
  /\ \E result \in request[c].gives : Leaves(c, result)
  /\ UNCHANGED <<request, channelVars, engineVars>>

\* The registry has closed the channel.
FindClosed(c) ==
  /\ at[c] = "waiting" /\ box[c] = <<>> /\ c \notin listening
  /\ Leaves(c, "Internal")
  /\ UNCHANGED <<request, channelVars, engineVars>>

\* Only a list call has a time-out, which starts again with every message.
TimeOut(c) ==
  /\ at[c] = "waiting" /\ request[c].reads = "list" /\ box[c] = <<>>
  /\ Leaves(c, "DeadlineExceeded")
  /\ UNCHANGED <<request, channelVars, engineVars>>

\* The deferred call unregisters.
Return(c) ==
  /\ at[c] = "leaving"
  /\ at' = [at EXCEPT ![c] = "returned"]
  /\ listening' = listening \ {c}
  /\ box' = [box EXCEPT ![c] = <<>>]
  /\ UNCHANGED <<request, code, got, engineVars>>

\* Mutant: one too many.
RoomBeyond(c) == Len(box[c]) <= IF request[c].reads = "list" THEN ListCapacity ELSE 1

Room(c) == Len(box[c]) < IF request[c].reads = "list" THEN ListCapacity ELSE 1

\* Mutant: a channel that missed an answer stays registered.
SendToListenersForgiving(c) ==
  /\ due[c] # <<>>
  /\ due' = [due EXCEPT ![c] = Tail(@)]
  /\ box' = [d \in Calls |-> IF d \in listening /\ request[d].tag = request[c].tag /\ Room(d)
                                THEN Append(box[d], Head(due[c])) ELSE box[d]]
  /\ UNCHANGED <<request, handlerVars, listening, got, asked>>

\* The engine's next answer to the request of c goes to every channel of its
\* type; one that stays full loses the answer and its oldest message, and is
\* closed.  IpcListeners has it step by step.
SendToListeners(c) ==
  /\ due[c] # <<>>
  /\ due' = [due EXCEPT ![c] = Tail(@)]
  /\ LET takers == {d \in listening : request[d].tag = request[c].tag}
         full == {d \in takers : ~Room(d)} IN
       /\ box' = [d \in Calls |-> IF d \in full THEN Tail(box[d])
                                  ELSE IF d \in takers THEN Append(box[d], Head(due[c]))
                                  ELSE box[d]]
       /\ listening' = listening \ full
  /\ UNCHANGED <<request, handlerVars, got, asked>>

-----------------------------------------------------------------------------
CallsStart ==
  /\ listening = {} /\ asked = {}
  /\ box = [c \in Calls |-> <<>>]
  /\ got = [c \in Calls |-> <<>>]
  /\ due = [c \in Calls |-> <<>>]

\* Calls whose answers have different types have nothing to do with each other.
CallsInit ==
  /\ request \in {r \in [Calls -> Requests] : \A c, d \in Calls : r[c].tag = r[d].tag}
  /\ at = [c \in Calls |-> "start"]
  /\ code = [c \in Calls |-> "none"]
  /\ CallsStart

\* Whoever called has returned.
CallsIdle ==
  /\ request = [c \in Calls |-> Tell]
  /\ at = [c \in Calls |-> "returned"]
  /\ code = [c \in Calls |-> "REQUEST_PROCESSING"]
  /\ CallsStart

Handle(c) ==
  \/ Refuse(c) \/ CreateChannel(c)
  \/ FindTaken(c) \/ FindFree(c) \/ CreateUniqueChannel(c)
  \/ Reject(c) \/ WriteFails(c) \/ Write(c)
  \/ Read(c) \/ FindClosed(c) \/ TimeOut(c) \/ Return(c)

CallsNext == \E c \in Calls : Handle(c) \/ SendToListeners(c)

CallsSpec == CallsInit /\ [][CallsNext]_callsVars

\* The handlers run.  The engine may be busy, or gone: it owes no answer.
CallsFairness == \A c \in Calls : WF_callsVars(Handle(c))

-----------------------------------------------------------------------------
CallsTypeOK ==
  /\ request \in [Calls -> Requests]
  /\ at \in [Calls -> {"start", "free", "registered", "waiting", "leaving", "returned"}]
  /\ listening \subseteq Calls /\ asked \subseteq Calls
  /\ \A c \in Calls :
       /\ Len(box[c]) <= ListCapacity
       /\ \A m \in {box[c][i] : i \in DOMAIN box[c]} : request[m[1]].tag = request[c].tag
       /\ c \in listening => at[c] \in {"registered", "waiting", "leaving"}
       /\ code[c] = "none" <=> at[c] \notin {"leaving", "returned"}

\* A call returns once the engine has sent its answers, and a call for a list
\* even when the engine falls silent: the answers reach a channel registered
\* before the request was written, or the channel is closed.
AnsweredReturns ==
  \A c \in Calls :
    (at[c] # "returned" /\ (request[c].reads = "list" \/ due[c] = <<>>) /\ c \in asked)
      ~> (at[c] = "returned")

\* While no other call has asked for the same type, a list is whole and a text
\* is spoken to its end when the call reports RESPONSE_RECEIVED, although its
\* channel may overflow and be closed, and a list may time out between entries.
AnswersAreWhole ==
  \A c \in Calls :
    (code[c] = "RESPONSE_RECEIVED" /\ asked = {c} /\ request[c].reads # "nothing")
      => due[c] = <<>> /\ got[c] \in Answers(c)
=============================================================================
