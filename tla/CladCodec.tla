----------------------------- MODULE CladCodec -----------------------------
(***************************************************************************)
(* The CLAD messages between the gateway, the engine, vic-switchboard and  *)
(* the cloud services (internal/clad, generated from .clad files): what    *)
(* Size, Pack and Unpack of each make of its fields.  A message is the     *)
(* sequence of its fields' values; a number is its bytes, a text a         *)
(* sequence of bytes, an array a sequence of messages, and a union a tag   *)
(* with a message.  String() and the getters and setters of unions keep    *)
(* nothing and are left out.                                               *)
(***************************************************************************)
EXTENDS Naturals, Sequences, SequencesExt

CONSTANTS Base,       \* how many values a byte of a length has: 256
          FaceSize    \* the bytes of a chunk of a face image: 2 * 600

INVALID == 255

Number(width) == [kind |-> "number", width |-> width]
Text(prefix) == [kind |-> "text", prefix |-> prefix]
Struct(layout) == [kind |-> "struct", of |-> layout]
\* A slice whose elements know their own size, and one Size() multiplies out.
List(prefix, layout) == [kind |-> "list", prefix |-> prefix, of |-> layout]
Array(prefix, size, layout) ==
  [kind |-> "array", prefix |-> prefix, size |-> size, of |-> layout]
OneOf(cases) == << [kind |-> "union", cases |-> cases] >>

-----------------------------------------------------------------------------
\* clad/cloud/common.go
Void == <<>>

\* clad/cloud/docs.go
Doc == <<Number(8), Number(8), Text(1), Text(4)>>
WriteRequest == <<Text(2), Text(2), Text(2), Struct(Doc)>>
WriteResponse == <<Number(1), Number(8)>>
ReadItem == <<Text(1), Number(8)>>
ReadRequest == <<Text(2), Text(2), List(2, ReadItem)>>
ResponseDoc == <<Number(1), Struct(Doc)>>
ReadResponse == <<List(2, ResponseDoc)>>
DeleteRequest == <<Text(2), Text(2), Text(2)>>
DocRequest == OneOf(
  0 :> WriteRequest @@ 1 :> ReadRequest @@ 2 :> DeleteRequest @@ 3 :> Void @@ 4 :> Void)
ErrorResponse == <<Number(1)>>
UserResponse == <<Text(1)>>
ThingResponse == <<Text(1)>>
DocResponse == OneOf(
  0 :> WriteResponse @@ 1 :> ReadResponse @@ 2 :> Void @@ 3 :> ErrorResponse @@
  4 :> UserResponse @@ 5 :> ThingResponse)

\* clad/cloud/logcollector.go
UploadResponse == <<Text(2)>>
UploadRequest == <<Text(2)>>
LogCollectorRequest == OneOf(0 :> UploadRequest)
LogCollectorErrorResponse == <<Number(1)>>
LogCollectorResponse == OneOf(0 :> UploadResponse @@ 1 :> LogCollectorErrorResponse)

\* clad/cloud/mic.go
StreamOpen == <<Text(1)>>
Hotword == <<Number(1), Text(1), Text(1), Number(1)>>
Filename == <<Text(1)>>
AudioData == <<Array(2, 2, <<Number(2)>>)>>
IntentResult == <<Text(1), Text(2), Text(2)>>
IntentError == <<Number(1), Text(1)>>
ConnectionResult == <<Number(1), Text(1), Number(1), Number(1)>>
Message == OneOf(
  0 :> Hotword @@ 1 :> AudioData @@ 2 :> Void @@ 3 :> Void @@ 4 :> Void @@ 5 :> Void @@
  6 :> Void @@ 7 :> ConnectionResult @@ 8 :> Filename @@ 9 :> IntentResult @@
  10 :> IntentError @@ 11 :> StreamOpen)

\* clad/cloud/token.go
AuthRequest == <<Text(1), Text(1), Text(1)>>
AuthResponse == <<Text(2), Text(2), Number(1)>>
ReassociateRequest == <<Text(1), Text(1), Text(1)>>
SecondaryAuthRequest == <<Text(1), Text(1), Text(1)>>
JwtRequest == <<Number(1)>>
JwtResponse == <<Text(2), Number(1)>>
TokenRequest == OneOf(
  0 :> AuthRequest @@ 1 :> SecondaryAuthRequest @@ 2 :> ReassociateRequest @@
  3 :> JwtRequest)
TokenResponse == OneOf(0 :> AuthResponse @@ 1 :> JwtResponse)

\* clad/gateway/messageExternalToRobot.go
UiDeviceConnectionWrongVersion == <<Text(1)>>
MoveHead == <<Number(4)>>
MoveLift == <<Number(4)>>
DriveArc == <<Number(4), Number(4), Number(2)>>
DisplayFaceImageRGBChunk ==
  <<Number(FaceSize), Number(2), Number(1), Number(1), Number(4), Number(1)>>
RobotHistoryRequest == <<>>
AppIntent == <<Text(1), Text(1)>>
CancelFaceEnrollment == <<>>
RequestEnrolledNames == <<>>
UpdateEnrolledFaceByID == <<Number(4), Text(1), Text(1)>>
EraseEnrolledFaceByID == <<Number(4)>>
EraseAllEnrolledFaces == <<>>
SetFaceToEnroll == <<Text(1), Number(4), Number(4), Number(1), Number(1), Number(1)>>
EnableVisionMode == <<Number(4), Number(1)>>
PathMotionProfile ==
  <<Number(4), Number(4), Number(4), Number(4), Number(4), Number(4), Number(4),
    Number(4), Number(4), Number(4), Number(1)>>
GotoPose == <<Number(4), Number(4), Number(4), Struct(PathMotionProfile), Number(1)>>
DriveStraight == <<Number(4), Number(4), Number(1)>>
TurnInPlace == <<Number(4), Number(4), Number(4), Number(4), Number(1)>>
SetHeadAngle == <<Number(4), Number(4), Number(4), Number(4)>>
SetLiftHeight == <<Number(4), Number(4), Number(4), Number(4)>>
AlignWithObject ==
  <<Number(4), Struct(PathMotionProfile), Number(4), Number(4), Number(1), Number(1),
    Number(1)>>
SetLiftAngle == <<Number(4), Number(4), Number(4), Number(4)>>
DeleteCustomMarkerObjects == <<>>
DeleteFixedCustomObjects == <<>>
UndefineAllCustomMarkerObjects == <<>>

\* clad/gateway/shared.go
PoseStruct3d ==
  <<Number(4), Number(4), Number(4), Number(4), Number(4), Number(4), Number(4),
    Number(4)>>

\* clad/gateway/messageExternalToRobot.go
CreateFixedCustomObject == <<Struct(PoseStruct3d), Number(4), Number(4), Number(4)>>
DefineCustomBox ==
  <<Number(4), Number(2), Number(2), Number(2), Number(2), Number(2), Number(2),
    Number(4), Number(4), Number(4), Number(4), Number(4), Number(1)>>
DefineCustomCube == <<Number(4), Number(2), Number(4), Number(4), Number(4), Number(1)>>
DefineCustomWall ==
  <<Number(4), Number(2), Number(4), Number(4), Number(4), Number(4), Number(1)>>
SetMemoryMapBroadcastFrequency_sec == <<Number(4)>>
MessageExternalToRobotCases ==
  0 :> UiDeviceConnectionWrongVersion @@ 3 :> MoveHead @@ 4 :> MoveLift @@
  5 :> DriveArc @@ 6 :> RobotHistoryRequest @@ 8 :> DisplayFaceImageRGBChunk @@
  9 :> AppIntent @@ 10 :> CancelFaceEnrollment @@ 11 :> RequestEnrolledNames @@
  12 :> UpdateEnrolledFaceByID @@ 13 :> EraseEnrolledFaceByID @@
  14 :> EraseAllEnrolledFaces @@ 15 :> SetFaceToEnroll @@ 16 :> EnableVisionMode @@
  18 :> GotoPose @@ 19 :> DriveStraight @@ 20 :> TurnInPlace @@ 21 :> SetHeadAngle @@
  22 :> SetLiftHeight @@ 24 :> AlignWithObject @@ 25 :> SetLiftAngle @@
  26 :> DeleteCustomMarkerObjects @@ 27 :> DeleteFixedCustomObjects @@
  28 :> UndefineAllCustomMarkerObjects @@ 29 :> CreateFixedCustomObject @@
  30 :> DefineCustomBox @@ 31 :> DefineCustomCube @@ 32 :> DefineCustomWall @@
  33 :> SetMemoryMapBroadcastFrequency_sec

MessageExternalToRobot == OneOf(MessageExternalToRobotCases)

\* clad/gateway/messageRobotToExternal.go
UiDeviceConnected == <<Text(1)>>
AnimationCompleted == <<Text(1)>>
ActionCompletedUnion == OneOf(1 :> AnimationCompleted)
ActiveAccel == <<Number(4), Number(4), Number(4)>>
ObjectConnectionState == <<Number(4), Text(1), Number(4), Number(1)>>
ObjectMoved == <<Number(4), Number(4)>>
ObjectAvailable == <<Text(1), Number(4), Number(1)>>
ObjectStoppedMoving == <<Number(4), Number(4)>>
ObjectUpAxisChanged == <<Number(4), Number(4), Number(1)>>
ObjectTapped == <<Number(4), Number(4)>>
ObjectAccel == <<Number(4), Number(4), Struct(ActiveAccel)>>
RobotCompletedAction ==
  <<Number(4), Number(4), Number(4), Array(1, 4, <<Number(4)>>),
    Struct(ActionCompletedUnion)>>
LoadedKnownFace == <<Number(8), Number(8), Number(8), Number(8), Number(4), Text(1)>>
EnrolledNamesResponse == <<List(1, LoadedKnownFace)>>
AccelData == <<Number(4), Number(4), Number(4)>>
GyroData == <<Number(4), Number(4), Number(4)>>
CladPoint2d == <<Number(4), Number(4)>>
CladRect == <<Number(4), Number(4), Number(4), Number(4)>>
SmileAmount == <<Number(1), Number(4), Number(4)>>
Gaze == <<Number(1), Number(4), Number(4)>>
BlinkAmount == <<Number(1), Number(4), Number(4)>>
RobotObservedObject ==
  <<Number(4), Number(4), Number(4), Number(4), Struct(CladRect), Struct(PoseStruct3d),
    Number(4), Number(1)>>
RobotObservedPossibleObject == <<Struct(RobotObservedObject)>>
RobotObservedFace ==
  <<Number(4), Number(4), Struct(PoseStruct3d), Struct(CladRect), Text(1), Number(1),
    Struct(SmileAmount), Struct(Gaze), Struct(BlinkAmount), Array(1, 1, <<Number(1)>>),
    Array(1, 8, CladPoint2d), Array(1, 8, CladPoint2d), Array(1, 8, CladPoint2d),
    Array(1, 8, CladPoint2d)>>
RobotChangedObservedFaceID == <<Number(4), Number(4)>>
RequiredEmptyMessage == <<>>
Event == OneOf(0 :> RequiredEmptyMessage)
RobotDeletedFixedCustomObjects == <<>>
RobotDeletedCustomMarkerObjects == <<>>
CreatedFixedCustomObject == <<Number(4)>>
DefinedCustomObject == <<Number(1)>>
MemoryMapQuadInfo == <<Number(1), Number(1), Number(4)>>
MemoryMapMessageBegin == <<Number(4), Number(4), Number(4), Number(4), Number(4)>>
MemoryMapMessage == <<Array(2, 6, MemoryMapQuadInfo)>>
MemoryMapMessageEnd == <<>>
MessageRobotToExternalCases ==
  0 :> UiDeviceConnected @@ 1 :> RobotCompletedAction @@ 2 :> Event @@
  5 :> EnrolledNamesResponse @@ 6 :> RobotObservedFace @@
  7 :> RobotChangedObservedFaceID @@ 10 :> ObjectConnectionState @@ 11 :> ObjectMoved @@
  12 :> ObjectStoppedMoving @@ 13 :> ObjectUpAxisChanged @@ 14 :> ObjectTapped @@
  15 :> ObjectAccel @@ 16 :> RobotObservedObject @@ 17 :> ObjectAvailable @@
  18 :> RobotDeletedFixedCustomObjects @@ 19 :> RobotDeletedCustomMarkerObjects @@
  20 :> CreatedFixedCustomObject @@ 21 :> DefinedCustomObject @@
  22 :> MemoryMapMessageBegin @@ 23 :> MemoryMapMessage @@ 24 :> MemoryMapMessageEnd

MessageRobotToExternal == OneOf(MessageRobotToExternalCases)

\* clad/gateway/switchboard.go
SwitchboardError == <<>>
ExternalConnectionRequest == <<>>
ExternalConnectionResponse == <<Number(1), Text(2)>>
ClientGuidRefreshRequest == <<>>
ClientGuidRefreshResponse == <<>>
SdkProxyRequest == <<Text(1), Text(1), Text(1), Text(2)>>
SdkProxyResponse == <<Text(1), Number(2), Text(1), Text(2)>>
SwitchboardRequest == OneOf(
  1 :> SwitchboardError @@ 2 :> AuthRequest @@ 3 :> JwtRequest @@
  4 :> ExternalConnectionRequest @@ 5 :> ExternalConnectionResponse @@
  6 :> ClientGuidRefreshResponse @@ 7 :> SdkProxyResponse)
SwitchboardResponse == OneOf(
  1 :> SwitchboardError @@ 2 :> AuthResponse @@ 3 :> JwtResponse @@
  4 :> ExternalConnectionRequest @@ 5 :> ExternalConnectionResponse @@
  6 :> ClientGuidRefreshRequest @@ 7 :> SdkProxyRequest)

\* clad/vision/offboardVision.go
OffboardImageReady ==
  <<Number(4), Number(4), Number(4), Number(4), Number(1), Number(1),
    List(1, <<Text(1)>>), Text(1)>>
OffboardResultReady == <<Number(4), Text(2)>>

Layouts ==
  << Void, Doc, WriteRequest, WriteResponse, ReadItem, ReadRequest, ResponseDoc,
     ReadResponse, DeleteRequest, DocRequest, ErrorResponse, UserResponse, ThingResponse,
     DocResponse, UploadResponse, UploadRequest, LogCollectorRequest,
     LogCollectorErrorResponse, LogCollectorResponse, StreamOpen, Hotword, Filename,
     AudioData, IntentResult, IntentError, ConnectionResult, Message, AuthRequest,
     AuthResponse, ReassociateRequest, SecondaryAuthRequest, JwtRequest, JwtResponse,
     TokenRequest, TokenResponse, UiDeviceConnectionWrongVersion, MoveHead, MoveLift,
     DriveArc, DisplayFaceImageRGBChunk, RobotHistoryRequest, AppIntent,
     CancelFaceEnrollment, RequestEnrolledNames, UpdateEnrolledFaceByID,
     EraseEnrolledFaceByID, EraseAllEnrolledFaces, SetFaceToEnroll, EnableVisionMode,
     PathMotionProfile, GotoPose, DriveStraight, TurnInPlace, SetHeadAngle, SetLiftHeight,
     AlignWithObject, SetLiftAngle, DeleteCustomMarkerObjects, DeleteFixedCustomObjects,
     UndefineAllCustomMarkerObjects, PoseStruct3d, CreateFixedCustomObject,
     DefineCustomBox, DefineCustomCube, DefineCustomWall,
     SetMemoryMapBroadcastFrequency_sec, MessageExternalToRobot, UiDeviceConnected,
     AnimationCompleted, ActionCompletedUnion, ActiveAccel, ObjectConnectionState,
     ObjectMoved, ObjectAvailable, ObjectStoppedMoving, ObjectUpAxisChanged, ObjectTapped,
     ObjectAccel, RobotCompletedAction, LoadedKnownFace, EnrolledNamesResponse, AccelData,
     GyroData, CladPoint2d, CladRect, SmileAmount, Gaze, BlinkAmount, RobotObservedObject,
     RobotObservedPossibleObject, RobotObservedFace, RobotChangedObservedFaceID,
     RequiredEmptyMessage, Event, RobotDeletedFixedCustomObjects,
     RobotDeletedCustomMarkerObjects, CreatedFixedCustomObject, DefinedCustomObject,
     MemoryMapQuadInfo, MemoryMapMessageBegin, MemoryMapMessage, MemoryMapMessageEnd,
     MessageRobotToExternal, SwitchboardError, ExternalConnectionRequest,
     ExternalConnectionResponse, ClientGuidRefreshRequest, ClientGuidRefreshResponse,
     SdkProxyRequest, SdkProxyResponse, SwitchboardRequest, SwitchboardResponse,
     OffboardImageReady, OffboardResultReady >>

-----------------------------------------------------------------------------
\* Size() counts without packing.
RECURSIVE Size(_, _)
FieldSize(f, v) ==
  CASE f.kind = "number" -> f.width
    [] f.kind = "text" -> f.prefix + Len(v)
    [] f.kind = "struct" -> Size(f.of, v)
    [] f.kind = "list" ->
         f.prefix + FoldSeq(LAMBDA m, sum : sum + Size(f.of, m), 0, v)
    [] f.kind = "array" -> f.prefix + f.size * Len(v)
    [] f.kind = "union" -> 1 + IF v.tag = INVALID THEN 0 ELSE Size(f.cases[v.tag], v.body)

Size(layout, message) ==
  FoldSeq(LAMBDA i, sum : sum + FieldSize(layout[i], message[i]), 0,
          [i \in DOMAIN layout |-> i])

-----------------------------------------------------------------------------
\* The conversion of a length to its type takes the low bytes, lowest first.
LengthBytes(n, prefix) == [i \in 1..prefix |-> (n \div Base^(i - 1)) % Base]

LengthOf(bytes) ==
  FoldSeq(LAMBDA i, sum : sum + bytes[i] * Base^(i - 1), 0, [i \in DOMAIN bytes |-> i])

\* Mutant: the check is missing, as it is for 32-bit lengths.
NeverTooLong(f, v) == FALSE

\* "max_length overflow": every length of one or two bytes is checked.
TooLong(f, v) == f.prefix <= 2 /\ Len(v) > Base^f.prefix - 1

Refused == [ok |-> FALSE]
Packed(bytes) == [ok |-> TRUE, bytes |-> bytes]

Concat(parts) ==
  IF \E i \in DOMAIN parts : ~parts[i].ok THEN Refused
  ELSE Packed(FlattenSeq([i \in DOMAIN parts |-> parts[i].bytes]))

RECURSIVE Pack(_, _)
PackField(f, v) ==
  CASE f.kind = "number" -> Packed(v)
    [] f.kind = "text" ->
         IF TooLong(f, v) THEN Refused ELSE Packed(LengthBytes(Len(v), f.prefix) \o v)
    [] f.kind = "struct" -> Pack(f.of, v)
    [] f.kind \in {"list", "array"} ->
         IF TooLong(f, v) THEN Refused
         ELSE Concat(<<Packed(LengthBytes(Len(v), f.prefix))>>
                       \o [i \in DOMAIN v |-> Pack(f.of, v[i])])
    [] f.kind = "union" ->
         IF v.tag = INVALID THEN Packed(<<INVALID>>)
         ELSE Concat(<<Packed(<<v.tag>>), Pack(f.cases[v.tag], v.body)>>)

Pack(layout, message) == Concat([i \in DOMAIN layout |-> PackField(layout[i], message[i])])

-----------------------------------------------------------------------------
Unpacked(value, rest) == [ok |-> TRUE, value |-> value, rest |-> rest]

\* binary.Read fails and buf.Next is short when the buffer holds too little.
Take(n, buf) ==
  IF Len(buf) < n THEN Refused
  ELSE Unpacked(SubSeq(buf, 1, n), SubSeq(buf, n + 1, Len(buf)))

RECURSIVE Unpack(_, _)
UnpackField(f, buf) ==
  CASE f.kind = "number" -> Take(f.width, buf)
    [] f.kind = "struct" -> Unpack(f.of, buf)
    [] f.kind \in {"text", "list", "array"} ->
         LET count == Take(f.prefix, buf)
             n == LengthOf(count.value) IN
         IF ~count.ok THEN Refused
         ELSE IF f.kind = "text" THEN Take(n, count.rest)
         ELSE Unpack([i \in 1..n |-> Struct(f.of)], count.rest)
    [] f.kind = "union" ->
         LET tag == Take(1, buf)
             t == tag.value[1] IN
         IF ~tag.ok THEN Refused
         ELSE IF t = INVALID THEN Unpacked([tag |-> INVALID], tag.rest)
         ELSE IF t \notin DOMAIN f.cases THEN Refused
         ELSE LET body == Unpack(f.cases[t], tag.rest) IN
              IF body.ok THEN Unpacked([tag |-> t, body |-> body.value], body.rest)
              ELSE Refused

Unpack(layout, buf) ==
  IF layout = <<>> THEN Unpacked(<<>>, buf)
  ELSE LET first == UnpackField(Head(layout), buf) IN
       IF ~first.ok THEN Refused
       ELSE LET others == Unpack(Tail(layout), first.rest) IN
            IF others.ok THEN Unpacked(<<first.value>> \o others.value, others.rest)
            ELSE Refused

-----------------------------------------------------------------------------
\* The messages tried: every field in turn takes every boundary value, while the
\* others are zero or empty.
RECURSIVE Least(_)
LeastOf(f) ==
  CASE f.kind = "number" -> [i \in 1..f.width |-> 0]
    [] f.kind = "struct" -> Least(f.of)
    [] f.kind = "union" -> [tag |-> INVALID]
    [] OTHER -> <<>>

Least(layout) == [i \in DOMAIN layout |-> LeastOf(layout[i])]

\* No text of 2^32 bytes exists.
Lengths(f) == {0, 1, Base^f.prefix - 1} \cup IF f.prefix <= 2 THEN {Base^f.prefix} ELSE {}

RECURSIVE Variants(_)
ValuesTried(f) ==
  CASE f.kind = "number" -> {[i \in 1..f.width |-> i % Base]}
    [] f.kind = "text" -> {[i \in 1..n |-> i % Base] : n \in Lengths(f)}
    [] f.kind = "struct" -> Variants(f.of)
    [] f.kind \in {"list", "array"} ->
         {[i \in 1..n |-> Least(f.of)] : n \in Lengths(f)} \cup {<<m>> : m \in Variants(f.of)}
    [] f.kind = "union" ->
         {[tag |-> t, body |-> Least(f.cases[t])] : t \in DOMAIN f.cases}

Variants(layout) ==
  {Least(layout)}
    \cup UNION {{[Least(layout) EXCEPT ![i] = v] : v \in ValuesTried(layout[i])} :
                 i \in DOMAIN layout}

VARIABLES form,      \* the number of a message's layout in Layouts, or 0: no message
          content    \* the message
codecVars == <<form, content>>

CodecInit ==
  /\ form \in DOMAIN Layouts
  /\ content \in Variants(Layouts[form])

CodecIdle == form = 0 /\ content = <<>>

\* A message that packs has the size Size() says, unpacks to itself whatever
\* follows it in the buffer, and no part of it unpacks: neither side of a socket
\* mistakes a long text, a full array or a message cut short for another message.
UnpacksAsPacked ==
  form # 0 =>
    LET packed == Pack(Layouts[form], content) IN
    packed.ok =>
      /\ Len(packed.bytes) = Size(Layouts[form], content)
      /\ \A rest \in {<<>>, <<1>>} :
           Unpack(Layouts[form], packed.bytes \o rest) = Unpacked(content, rest)
      /\ \A n \in 0..(Len(packed.bytes) - 1) :
           ~Unpack(Layouts[form], SubSeq(packed.bytes, 1, n)).ok
=============================================================================
