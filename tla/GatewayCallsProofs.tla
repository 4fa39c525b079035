------------------------- MODULE GatewayCallsProofs -------------------------
(***************************************************************************)
(* Theorems about the unary calls of the gateway, for any number of calls  *)
(* in progress, any length of a list and any capacity of its channel.      *)
(***************************************************************************)
EXTENDS GatewayCalls, SequenceTheorems, TLAPS

\* What the protocol relies on of a request: one that reads answers has registered
\* for them, does not ignore a failed write and reports RESPONSE_RECEIVED for
\* nothing else.
WellFormed(q) ==
  /\ "none" \notin q.refused \cup q.rejected \cup q.gives
  /\ q.reads # "nothing" =>
       /\ q.tag # "none" /\ q.listens # "no" /\ ~q.ignores
       /\ "RESPONSE_RECEIVED" \notin q.refused \cup q.rejected

\* A request, field by field.
Is(q, tag, listens, refused, rejected, reads, gives, ignores) ==
  q = [tag |-> tag, listens |-> listens, refused |-> refused, rejected |-> rejected,
       reads |-> reads, gives |-> gives, ignores |-> ignores]

LEMMA TagIs ==
  ASSUME NEW q, NEW tag, NEW listens, NEW refused, NEW rejected, NEW reads, NEW gives, NEW ignores,
         Is(q, tag, listens, refused, rejected, reads, gives, ignores),
         NEW v, NEW r, r = [q EXCEPT !.tag = v]
  PROVE  Is(r, v, listens, refused, rejected, reads, gives, ignores)
  BY DEF Is

LEMMA ListensIs ==
  ASSUME NEW q, NEW tag, NEW listens, NEW refused, NEW rejected, NEW reads, NEW gives, NEW ignores,
         Is(q, tag, listens, refused, rejected, reads, gives, ignores),
         NEW v, NEW r, r = [q EXCEPT !.listens = v]
  PROVE  Is(r, tag, v, refused, rejected, reads, gives, ignores)
  BY DEF Is

LEMMA RefusedIs ==
  ASSUME NEW q, NEW tag, NEW listens, NEW refused, NEW rejected, NEW reads, NEW gives, NEW ignores,
         Is(q, tag, listens, refused, rejected, reads, gives, ignores),
         NEW v, NEW r, r = [q EXCEPT !.refused = v]
  PROVE  Is(r, tag, listens, v, rejected, reads, gives, ignores)
  BY DEF Is

LEMMA RejectedIs ==
  ASSUME NEW q, NEW tag, NEW listens, NEW refused, NEW rejected, NEW reads, NEW gives, NEW ignores,
         Is(q, tag, listens, refused, rejected, reads, gives, ignores),
         NEW v, NEW r, r = [q EXCEPT !.rejected = v]
  PROVE  Is(r, tag, listens, refused, v, reads, gives, ignores)
  BY DEF Is

LEMMA ReadsIs ==
  ASSUME NEW q, NEW tag, NEW listens, NEW refused, NEW rejected, NEW reads, NEW gives, NEW ignores,
         Is(q, tag, listens, refused, rejected, reads, gives, ignores),
         NEW v, NEW r, r = [q EXCEPT !.reads = v]
  PROVE  Is(r, tag, listens, refused, rejected, v, gives, ignores)
  BY DEF Is

LEMMA GivesIs ==
  ASSUME NEW q, NEW tag, NEW listens, NEW refused, NEW rejected, NEW reads, NEW gives, NEW ignores,
         Is(q, tag, listens, refused, rejected, reads, gives, ignores),
         NEW v, NEW r, r = [q EXCEPT !.gives = v]
  PROVE  Is(r, tag, listens, refused, rejected, reads, v, ignores)
  BY DEF Is

LEMMA IgnoresIs ==
  ASSUME NEW q, NEW tag, NEW listens, NEW refused, NEW rejected, NEW reads, NEW gives, NEW ignores,
         Is(q, tag, listens, refused, rejected, reads, gives, ignores),
         NEW v, NEW r, r = [q EXCEPT !.ignores = v]
  PROVE  Is(r, tag, listens, refused, rejected, reads, gives, v)
  BY DEF Is

LEMMA TellIs == Is(Tell, "none", "no", {}, {}, "nothing", {"REQUEST_PROCESSING"}, FALSE)
  BY DEF Tell, Is

LEMMA AskIs ==
  ASSUME NEW tag
  PROVE  Is(Ask(tag), tag, "shared", {}, {}, "one", {"RESPONSE_RECEIVED"}, FALSE)
<1>1. PICK q1 : q1 = [Tell EXCEPT !.tag = tag]
  OBVIOUS
<1>2. PICK q2 : q2 = [q1 EXCEPT !.listens = "shared"]
  OBVIOUS
<1>3. PICK q3 : q3 = [q2 EXCEPT !.reads = "one"]
  OBVIOUS
<1>4. PICK q4 : q4 = [q3 EXCEPT !.gives = {"RESPONSE_RECEIVED"}]
  OBVIOUS
<1>5. Is(q1, tag, "no", {}, {}, "nothing", {"REQUEST_PROCESSING"}, FALSE)
  BY <1>1, TellIs, TagIs
<1>6. Is(q2, tag, "shared", {}, {}, "nothing", {"REQUEST_PROCESSING"}, FALSE)
  BY <1>2, <1>5, ListensIs
<1>7. Is(q3, tag, "shared", {}, {}, "one", {"REQUEST_PROCESSING"}, FALSE)
  BY <1>3, <1>6, ReadsIs
<1>8. Is(q4, tag, "shared", {}, {}, "one", {"RESPONSE_RECEIVED"}, FALSE)
  BY <1>4, <1>7, GivesIs
<1> QED
  BY <1>1, <1>2, <1>3, <1>4, <1>8 DEF Ask

LEMMA TellWellFormed ==
  /\ WellFormed(Tell)
  /\ WellFormed([Tell EXCEPT !.gives = {"RESPONSE_RECEIVED"}])
  /\ WellFormed([Tell EXCEPT !.ignores = TRUE, !.gives = {"OK"}])
  /\ WellFormed([Tell EXCEPT !.ignores = TRUE, !.rejected = {"Internal"}])
<1>1. WellFormed(Tell)
  BY TellIs DEF Is, WellFormed
<1>2. PICK q : q = [Tell EXCEPT !.gives = {"RESPONSE_RECEIVED"}]
  OBVIOUS
<1>3. Is(q, "none", "no", {}, {}, "nothing", {"RESPONSE_RECEIVED"}, FALSE)
  BY <1>2, TellIs, GivesIs
<1>4. WellFormed(q)
  BY <1>3 DEF Is, WellFormed
<1>5. PICK i : i = [Tell EXCEPT !.ignores = TRUE]
  OBVIOUS
<1>6. Is(i, "none", "no", {}, {}, "nothing", {"REQUEST_PROCESSING"}, TRUE)
  BY <1>5, TellIs, IgnoresIs
<1>7. PICK g : g = [i EXCEPT !.gives = {"OK"}]
  OBVIOUS
<1>8. Is(g, "none", "no", {}, {}, "nothing", {"OK"}, TRUE)
  BY <1>6, <1>7, GivesIs
<1>9. WellFormed(g)
  BY <1>8 DEF Is, WellFormed
<1>10. PICK j : j = [i EXCEPT !.rejected = {"Internal"}]
  OBVIOUS
<1>11. Is(j, "none", "no", {}, {"Internal"}, "nothing", {"REQUEST_PROCESSING"}, TRUE)
  BY <1>6, <1>10, RejectedIs
<1>12. WellFormed(j)
  BY <1>11 DEF Is, WellFormed
<1>13. WellFormed([Tell EXCEPT !.gives = {"RESPONSE_RECEIVED"}])
  BY <1>2, <1>4
<1>14. WellFormed([Tell EXCEPT !.ignores = TRUE, !.gives = {"OK"}])
  BY <1>5, <1>7, <1>9
<1>15. WellFormed([Tell EXCEPT !.ignores = TRUE, !.rejected = {"Internal"}])
  BY <1>5, <1>10, <1>12
<1> QED
  BY <1>1, <1>13, <1>14, <1>15

LEMMA AnswerWellFormed ==
  ASSUME NEW results, "none" \notin results
  PROVE  WellFormed(Answer(results))
<1>1. PICK q : q = [Tell EXCEPT !.refused = results]
  OBVIOUS
<1>2. Is(q, "none", "no", results, {}, "nothing", {"REQUEST_PROCESSING"}, FALSE)
  BY <1>1, TellIs, RefusedIs
<1>3. PICK r : r = [q EXCEPT !.gives = {}]
  OBVIOUS
<1>4. Is(r, "none", "no", results, {}, "nothing", {}, FALSE)
  BY <1>2, <1>3, GivesIs
<1>5. WellFormed(r)
  BY <1>4 DEF Is, WellFormed
<1> QED
  BY <1>1, <1>3, <1>5 DEF Answer

LEMMA AskWellFormed ==
  ASSUME NEW tag, tag # "none"
  PROVE  /\ WellFormed(Ask(tag)) /\ WellFormed(AskFor(tag)) /\ WellFormed(AskUnique(tag))
         /\ WellFormed(AskSlowly(tag)) /\ WellFormed(AskTagged(tag))
         /\ WellFormed(AskForFile(tag)) /\ WellFormed(AskForList(tag))
         /\ WellFormed([Ask(tag) EXCEPT !.refused = {"last result"}])
         /\ WellFormed([Ask(tag) EXCEPT !.rejected = {"InvalidArgument"}])
         /\ WellFormed([Ask(tag) EXCEPT !.reads = "speech"])
         /\ WellFormed([AskSlowly(tag) EXCEPT !.reads = "nothing"])
         /\ WellFormed([Ask(tag) EXCEPT !.rejected = {"InvalidArgument"}, !.gives = {}])
<1>1. WellFormed(Ask(tag))
  BY AskIs DEF Is, WellFormed
<1>2. Is(AskFor(tag), tag, "shared", {}, {}, "one", {"ANSWERED"}, FALSE)
  BY AskIs, GivesIs DEF AskFor
<1>3. WellFormed(AskFor(tag))
  BY <1>2 DEF Is, WellFormed
<1>4. Is(AskSlowly(tag), tag, "shared", {}, {}, "one", {"REQUEST_PROCESSING"}, FALSE)
  BY AskIs, GivesIs DEF AskSlowly
<1>5. WellFormed(AskSlowly(tag))
  BY <1>4 DEF Is, WellFormed
<1>6. Is(AskForFile(tag), tag, "shared", {}, {}, "one", {"NOT_FOUND", "Unknown", "RESPONSE_RECEIVED"}, FALSE)
  BY AskIs, GivesIs DEF AskForFile
<1>7. WellFormed(AskForFile(tag))
  BY <1>6 DEF Is, WellFormed
<1>8. Is(AskForList(tag), tag, "shared", {}, {}, "list", {"RESPONSE_RECEIVED"}, FALSE)
  BY AskIs, ReadsIs DEF AskForList
<1>9. WellFormed(AskForList(tag))
  BY <1>8 DEF Is, WellFormed
<1>10. Is(AskTagged(tag), tag, "shared", {"InvalidArgument"}, {}, "one", {"RESPONSE_RECEIVED"}, FALSE)
  BY AskIs, RefusedIs DEF AskTagged, ValidateActionTag
<1>11. WellFormed(AskTagged(tag))
  BY <1>10 DEF Is, WellFormed
<1>12. Is(AskUnique(tag), tag, "unique", {}, {}, "one", {"ANSWERED"}, FALSE)
  BY ZenonT(60), <1>2, ListensIs DEF AskUnique
<1>13. WellFormed(AskUnique(tag))
  BY <1>12 DEF Is, WellFormed
<1>14. WellFormed([Ask(tag) EXCEPT !.refused = {"last result"}])
  <2>1. PICK q : q = [Ask(tag) EXCEPT !.refused = {"last result"}]
    OBVIOUS
  <2>2. Is(q, tag, "shared", {"last result"}, {}, "one", {"RESPONSE_RECEIVED"}, FALSE)
    BY <2>1, AskIs, RefusedIs
  <2>3. WellFormed(q)
    BY <2>2 DEF Is, WellFormed
  <2> QED
    BY <2>1, <2>3
<1>15. WellFormed([Ask(tag) EXCEPT !.rejected = {"InvalidArgument"}])
  <2>1. PICK q : q = [Ask(tag) EXCEPT !.rejected = {"InvalidArgument"}]
    OBVIOUS
  <2>2. Is(q, tag, "shared", {}, {"InvalidArgument"}, "one", {"RESPONSE_RECEIVED"}, FALSE)
    BY <2>1, AskIs, RejectedIs
  <2>3. WellFormed(q)
    BY <2>2 DEF Is, WellFormed
  <2> QED
    BY <2>1, <2>3
<1>16. WellFormed([Ask(tag) EXCEPT !.reads = "speech"])
  <2>1. PICK q : q = [Ask(tag) EXCEPT !.reads = "speech"]
    OBVIOUS
  <2>2. Is(q, tag, "shared", {}, {}, "speech", {"RESPONSE_RECEIVED"}, FALSE)
    BY <2>1, AskIs, ReadsIs
  <2>3. WellFormed(q)
    BY <2>2 DEF Is, WellFormed
  <2> QED
    BY <2>1, <2>3
<1>17. WellFormed([AskSlowly(tag) EXCEPT !.reads = "nothing"])
  <2>1. PICK q : q = [AskSlowly(tag) EXCEPT !.reads = "nothing"]
    OBVIOUS
  <2>2. Is(q, tag, "shared", {}, {}, "nothing", {"REQUEST_PROCESSING"}, FALSE)
    BY <1>4, <2>1, ReadsIs
  <2>3. WellFormed(q)
    BY <2>2 DEF Is, WellFormed
  <2> QED
    BY <2>1, <2>3
<1>18. WellFormed([Ask(tag) EXCEPT !.rejected = {"InvalidArgument"}, !.gives = {}])
  <2>1. PICK q : q = [Ask(tag) EXCEPT !.rejected = {"InvalidArgument"}]
    OBVIOUS
  <2>2. Is(q, tag, "shared", {}, {"InvalidArgument"}, "one", {"RESPONSE_RECEIVED"}, FALSE)
    BY <2>1, AskIs, RejectedIs
  <2>3. PICK r : r = [q EXCEPT !.gives = {}]
    OBVIOUS
  <2>4. Is(r, tag, "shared", {}, {"InvalidArgument"}, "one", {}, FALSE)
    BY <2>2, <2>3, GivesIs
  <2>5. WellFormed(r)
    BY <2>4 DEF Is, WellFormed
  <2> QED
    BY <2>1, <2>3, <2>5
<1> QED
  BY <1>1, <1>3, <1>5, <1>7, <1>9, <1>11, <1>13, <1>14, <1>15, <1>16, <1>17, <1>18

LEMMA RequestsWellFormed == \A q \in Requests : WellFormed(q)
<1> DEFINE Told == {DriveWheels, MoveHead, MoveLift, StopAllMotors, CancelBehavior,
              CancelActionByIdTag, AppIntent, CancelFaceEnrollment, UpdateEnrolledFaceByID,
              EraseEnrolledFaceByID, EraseAllEnrolledFaces, DisconnectCube, FlashCubeLights,
              ForgetPreferredCube, SetPreferredCube, SetCubeLights, AlexaOptIn, SetEyeColor,
              PlayAnimation, PlayAnimationTrigger, SendAppDisconnected, DisplayFaceImageRGB}
           Passed == {SetFaceToEnroll, EnrollFace, RequestEnrolledNames, DriveOffCharger,
              DriveOnCharger, FindFaces, LookAroundInPlace, RollBlock, GetOnboardingState,
              PhotosInfo, DeletePhoto, GetLatestAttentionTransfer, ConnectCube,
              CubesAvailable, SetMasterVolume, BatteryState, VersionState,
              EnableFaceDetection, EnableMotionDetection, EnableMirrorMode,
              EnableImageStreaming, CreateFixedCustomObject, GetFeatureFlag,
              GetFeatureFlagList, GetAlexaAuthState, SetCameraSettings}
           Tagged == {GoToPose, DockWithCube, DriveStraight, TurnInPlace, SetHeadAngle,
              SetLiftHeight, TurnTowardsFace, GoToObject, RollObject, PopAWheelie,
              PickupObject, PlaceObjectOnGroundHere}
           Special == {Photo, Thumbnail, ListAnimations, ListAnimationTriggers,
              CheckCloudConnection, DefineCustomObject, SayText}
           Local == {ProtocolVersion, SDKInitialization, UserAuthentication,
              UpdateAndRestart, UploadDebugLogs}
<1>1. \A q \in Told : WellFormed(q)
  BY TellWellFormed
  DEF DriveWheels, MoveHead, MoveLift, StopAllMotors, CancelBehavior,
      CancelActionByIdTag, AppIntent, CancelFaceEnrollment, UpdateEnrolledFaceByID,
      EraseEnrolledFaceByID, EraseAllEnrolledFaces, DisconnectCube, FlashCubeLights,
      ForgetPreferredCube, SetPreferredCube, SetCubeLights, AlexaOptIn, SetEyeColor,
      PlayAnimation, PlayAnimationTrigger, SendAppDisconnected, DisplayFaceImageRGB
<1>2. \A q \in SendOnboardingInput : WellFormed(q)
  <2>1. WellFormed(Answer({"InvalidArgument"}))
    BY AnswerWellFormed
  <2> QED
    BY <2>1, TellWellFormed, AskWellFormed
    DEF SendOnboardingInput, SendOnboardingComplete, SendOnboardingWakeUpStarted,
        SendOnboardingWakeUp, SendOnboardingSkipOnboarding, SendOnboardingRestart,
        SendOnboardingSetPhase, SendOnboardingPhaseProgress, SendOnboardingChargeInfo,
        SendOnboardingMarkCompleteAndExit
<1>3. \A q \in Passed : WellFormed(q)
  BY AskWellFormed
  DEF SetFaceToEnroll, EnrollFace, RequestEnrolledNames, DriveOffCharger,
      DriveOnCharger, FindFaces, LookAroundInPlace, RollBlock, GetOnboardingState,
      PhotosInfo, DeletePhoto, GetLatestAttentionTransfer, ConnectCube,
      CubesAvailable, SetMasterVolume, BatteryState, VersionState,
      EnableFaceDetection, EnableMotionDetection, EnableMirrorMode,
      EnableImageStreaming, CreateFixedCustomObject, GetFeatureFlag,
      GetFeatureFlagList, GetAlexaAuthState, SetCameraSettings
<1>4. \A q \in {RobotStatusHistory, PullJdocs, IsImageStreamingEnabled, GetCameraConfig} :
        WellFormed(q)
  BY AskWellFormed DEF RobotStatusHistory, PullJdocs, IsImageStreamingEnabled, GetCameraConfig
<1>5. \A q \in {UpdateSettings, UpdateAccountSettings, UpdateUserEntitlements} : WellFormed(q)
  BY AskWellFormed DEF UpdateSettings, UpdateAccountSettings, UpdateUserEntitlements
<1>6. \A q \in Tagged : WellFormed(q)
  BY AskWellFormed
  DEF GoToPose, DockWithCube, DriveStraight, TurnInPlace, SetHeadAngle,
      SetLiftHeight, TurnTowardsFace, GoToObject, RollObject, PopAWheelie,
      PickupObject, PlaceObjectOnGroundHere
<1>7. \A q \in Special : WellFormed(q)
  BY ZenonT(60), AskWellFormed
  DEF Photo, Thumbnail, ListAnimations, ListAnimationTriggers, CheckCloudConnection,
      DefineCustomObject, SayText
<1>8. \A enable \in BOOLEAN : WellFormed(EnableMarkerDetection(enable))
  BY AskWellFormed DEF EnableMarkerDetection
<1>9. \A mode : WellFormed(DeleteCustomObjects(mode))
  BY AskWellFormed DEF DeleteCustomObjects
<1>10. \A q \in Local : WellFormed(q)
  <2>1. /\ WellFormed(Answer({"SUCCESS", "UNSUPPORTED"}))
        /\ WellFormed(Answer({"REQUEST_PROCESSING"}))
        /\ WellFormed(Answer({"Internal", "ResourceExhausted", "RESPONSE_RECEIVED"}))
        /\ WellFormed(Answer({"OK", "NOT_FOUND"}))
        /\ WellFormed(Answer({"ResourceExhausted", "OK"}))
    BY AnswerWellFormed
  <2> QED
    BY <2>1 DEF ProtocolVersion, SDKInitialization, UserAuthentication, UpdateAndRestart,
                UploadDebugLogs
<1> HIDE DEF Told, Passed, Tagged, Special, Local
<1>11. \A q \in Requests :
         \/ q \in Told \/ q \in SendOnboardingInput \/ q \in Passed
         \/ q \in {RobotStatusHistory, PullJdocs, IsImageStreamingEnabled, GetCameraConfig}
         \/ q \in {UpdateSettings, UpdateAccountSettings, UpdateUserEntitlements}
         \/ q \in Tagged \/ q \in Special \/ q \in Local
         \/ \E enable \in BOOLEAN : q = EnableMarkerDetection(enable)
         \/ \E mode \in {"ARCHETYPES", "FIXED_CUSTOM_OBJECTS", "CUSTOM_MARKER_OBJECTS",
                         "UNKNOWN"} : q = DeleteCustomObjects(mode)
  BY DEF Requests, Told, Passed, Tagged, Special, Local
<1> QED
  BY <1>1, <1>2, <1>3, <1>4, <1>5, <1>6, <1>7, <1>8, <1>9, <1>10, <1>11

-----------------------------------------------------------------------------
\* A message is the call it is meant for and its kind.
Message == Calls \X {"entry", "end", "speaking", "FINISHED", "INVALID", "answer"}

Ended == {"leaving", "returned"}

CallsType ==
  /\ request \in [Calls -> Requests]
  /\ at \in [Calls -> {"start", "free", "registered", "waiting", "leaving", "returned"}]
  /\ code = [c \in Calls |-> code[c]]
  /\ listening \subseteq Calls /\ asked \subseteq Calls
  /\ box \in [Calls -> Seq(Message)]
  /\ got \in [Calls -> Seq(Message)]
  /\ due \in [Calls -> Seq(Message)]

\* How far the handler is says what has become of its channel and its request.
CallBook(c) ==
  /\ code[c] = "none" <=> at[c] \notin Ended
  /\ c \in listening => at[c] \in {"registered", "waiting", "leaving"}
  /\ c \in asked => at[c] \in {"waiting"} \cup Ended
  /\ at[c] = "waiting" => c \in asked /\ request[c].reads # "nothing"
  /\ at[c] \in {"start", "free", "registered"} => got[c] = <<>>
  /\ c \notin asked => due[c] = <<>>
  /\ \A i \in DOMAIN due[c] : due[c][i][1] = c
  /\ \A i \in DOMAIN box[c] : request[box[c][i][1]].tag = request[c].tag
  /\ Len(box[c]) <= ListCapacity

\* What a call that nobody disturbs has read, has in its channel and is to get is
\* an answer of the engine.  Once its channel has overflowed and is closed, the end
\* of the answer is lost: it comes after everything that is in the channel.
Undisturbed(c) ==
  asked \subseteq {c} /\ request[c].reads # "nothing" =>
    /\ c \notin asked => box[c] = <<>>
    /\ at[c] = "waiting" =>
         \/ c \in listening /\ got[c] \o (box[c] \o due[c]) \in Answers(c)
         \/ c \notin listening /\ \A i \in DOMAIN box[c] : ~IsLast(c, box[c][i])
    /\ at[c] \in Ended /\ code[c] = "RESPONSE_RECEIVED" => due[c] = <<>> /\ got[c] \in Answers(c)

CallsIInv == CallsType /\ \A c \in Calls : CallBook(c) /\ Undisturbed(c)

-----------------------------------------------------------------------------
\* Sequences that hand on their elements.
LEMMA HandOver ==
  ASSUME NEW S, NEW s \in Seq(S), NEW t \in Seq(S), NEW u \in Seq(S)
  PROVE  /\ s \o (t \o u) \in Seq(S) /\ Len(s \o (t \o u)) = Len(s) + Len(t) + Len(u)
         /\ \A i \in 1..Len(t) : (s \o (t \o u))[Len(s) + i] = t[i]
         /\ t # <<>> => Append(s, Head(t)) \o (Tail(t) \o u) = s \o (t \o u)
<1>1. /\ s \o (t \o u) \in Seq(S) /\ Len(s \o (t \o u)) = Len(s) + Len(t) + Len(u)
      /\ \A i \in 1..Len(t) : (s \o (t \o u))[Len(s) + i] = t[i]
  OBVIOUS
<1>2. ASSUME t # <<>>
      PROVE  Append(s, Head(t)) \o (Tail(t) \o u) = s \o (t \o u)
  <2>1. Head(t) \in S /\ Tail(t) \in Seq(S)
    BY <1>2
  <2>2. <<Head(t)>> \o Tail(t) = t
    BY <1>2, HeadTailAppend
  <2>3. Append(s, Head(t)) = s \o <<Head(t)>>
    BY <2>1, AppendIsConcat
  <2>4. <<Head(t)>> \in Seq(S) /\ Tail(t) \o u \in Seq(S)
    BY <2>1
  <2>5. (s \o <<Head(t)>>) \o (Tail(t) \o u) = s \o (<<Head(t)>> \o (Tail(t) \o u))
    <3>1. PICK h \in Seq(S), v \in Seq(S) : h = <<Head(t)>> /\ v = Tail(t) \o u
      BY <2>4
    <3>2. (s \o h) \o v = s \o (h \o v)
      BY SMTT(40), ConcatAssociative
    <3> QED
      BY <3>1, <3>2
  <2>6. <<Head(t)>> \o (Tail(t) \o u) = (<<Head(t)>> \o Tail(t)) \o u
    BY <2>1, <2>4, ConcatAssociative
  <2> QED
    BY <2>2, <2>3, <2>5, <2>6
<1> QED
  BY <1>1, <1>2

\* Taking the oldest message of t, and where it stands in the whole.
LEMMA TakeOldest ==
  ASSUME NEW S, NEW s \in Seq(S), NEW t \in Seq(S), NEW u \in Seq(S), t # <<>>,
         NEW a, a = s \o (t \o u)
  PROVE  /\ Append(s, Head(t)) \o (Tail(t) \o u) = a
         /\ Len(s) + 1 \in DOMAIN a /\ a[Len(s) + 1] = Head(t)
         /\ Len(s) + 1 = Len(a) =>
              Tail(t) = <<>> /\ u = <<>> /\ Append(s, Head(t)) = a
<1>1. Append(s, Head(t)) \o (Tail(t) \o u) = a
  BY SMTT(40), HandOver
<1>2. /\ a \in Seq(S) /\ Len(a) = Len(s) + Len(t) + Len(u)
      /\ \A i \in 1..Len(t) : a[Len(s) + i] = t[i]
  BY HandOver
<1>3. Len(s) \in Nat /\ Len(t) \in Nat \ {0} /\ Len(u) \in Nat /\ Head(t) = t[1]
  OBVIOUS
<1>4. DOMAIN a = 1..Len(a)
  BY <1>2
<1>5. Len(s) + 1 \in DOMAIN a /\ a[Len(s) + 1] = Head(t)
  BY <1>2, <1>3, <1>4
<1>6. ASSUME Len(s) + 1 = Len(a)
      PROVE  Tail(t) = <<>> /\ u = <<>> /\ Append(s, Head(t)) = a
  <2> DEFINE k == Len(s)
             l == Len(t)
             n == Len(u)
  <2>1. k \in Nat /\ l \in Nat \ {0} /\ n \in Nat /\ k + 1 = k + l + n
    BY <1>2, <1>3, <1>6
  <2>2. l = 1 /\ n = 0
    <3> HIDE DEF k, l, n
    <3> QED
      BY <2>1
  <2>4. u = <<>>
    BY <2>2
  <2>5. Tail(t) \in Seq(S) /\ Len(Tail(t)) = 0
    BY <2>2
  <2>6. Tail(t) = <<>>
    BY <2>5, EmptySeq
  <2>7. Append(s, Head(t)) \in Seq(S)
    OBVIOUS
  <2>3. Append(s, Head(t)) \o (<<>> \o <<>>) = Append(s, Head(t))
    BY <2>7, ConcatEmptySeq
  <2> QED
    BY <1>1, <2>3, <2>4, <2>6
<1> QED
  BY <1>1, <1>5, <1>6

\* An answer of the engine: its messages are meant for the call, and the last one,
\* and no other, ends it.
LEMMA AnswerShape ==
  ASSUME NEW c \in Calls, WellFormed(request[c]), NEW a \in Answers(c)
  PROVE  \/ request[c].tag = "none" /\ a = <<>>
         \/ /\ request[c].tag # "none" /\ request[c].reads = "list"
            /\ a = [i \in 1..ListLength |-> <<c, "entry">>] \o <<<<c, "end">>>>
         \/ /\ request[c].tag # "none" /\ request[c].reads = "speech"
            /\ \E end \in {"FINISHED", "INVALID"} : a = <<<<c, "speaking">>, <<c, end>>>>
         \/ /\ request[c].tag # "none" /\ request[c].reads \notin {"list", "speech"}
            /\ a = <<<<c, "answer">>>>
<1>1. CASE request[c].tag = "none"
  <2>1. request[c].reads = "nothing"
    BY <1>1 DEF WellFormed
  <2> QED
    BY <1>1, <2>1 DEF Answers
<1>2. CASE request[c].tag # "none" /\ request[c].reads = "list"
  BY <1>2 DEF Answers
<1>3. CASE request[c].tag # "none" /\ request[c].reads = "speech"
  BY <1>3 DEF Answers
<1>4. CASE request[c].tag # "none" /\ request[c].reads \notin {"list", "speech"}
  BY <1>4 DEF Answers
<1> QED
  BY <1>1, <1>2, <1>3, <1>4

LEMMA AnswerType ==
  ASSUME NEW c \in Calls, WellFormed(request[c]), NEW a \in Answers(c)
  PROVE  a \in Seq(Message) /\ \A i \in DOMAIN a : a[i][1] = c
<1>1. CASE a = [i \in 1..ListLength |-> <<c, "entry">>] \o <<<<c, "end">>>>
  <2>1. PICK e : e = [i \in 1..ListLength |-> <<c, "entry">>]
    OBVIOUS
  <2>2. PICK z : z = <<<<c, "end">>>>
    OBVIOUS
  <2>3. e \in Seq(Message) /\ z \in Seq(Message)
    BY <2>1, <2>2, CallsAssumption DEF Message
  <2>4. (\A i \in 1..Len(e) : e[i][1] = c) /\ \A i \in 1..Len(z) : z[i][1] = c
    BY <2>1, <2>2, CallsAssumption
  <2>5. a = e \o z
    BY <1>1, <2>1, <2>2
  <2> QED
    BY <2>3, <2>4, <2>5, ConcatProperties
<1>2. ASSUME NEW end \in {"FINISHED", "INVALID"}, a = <<<<c, "speaking">>, <<c, end>>>>
      PROVE  a \in Seq(Message) /\ \A i \in DOMAIN a : a[i][1] = c
  BY <1>2 DEF Message
<1>3. CASE a = <<<<c, "answer">>>>
  BY <1>3 DEF Message
<1>4. CASE a = <<>>
  BY <1>4
<1> QED
  BY <1>1, <1>2, <1>3, <1>4, AnswerShape

LEMMA AnswerEnds ==
  ASSUME NEW c \in Calls, WellFormed(request[c]), NEW a \in Answers(c),
         request[c].tag # "none"
  PROVE  a # <<>> /\ \A i \in DOMAIN a : IsLast(c, a[i]) <=> i = Len(a)
<1>1. CASE /\ request[c].reads = "list"
           /\ a = [i \in 1..ListLength |-> <<c, "entry">>] \o <<<<c, "end">>>>
  <2>1. PICK e : e = [i \in 1..ListLength |-> <<c, "entry">>]
    OBVIOUS
  <2>2. PICK z : z = <<<<c, "end">>>>
    OBVIOUS
  <2>3. /\ e \in Seq(Message) /\ Len(e) = ListLength /\ \A i \in 1..ListLength : e[i][2] = "entry"
        /\ z \in Seq(Message) /\ Len(z) = 1 /\ z[1][2] = "end"
    BY <2>1, <2>2, CallsAssumption DEF Message
  <2>4. a = e \o z
    BY <1>1, <2>1, <2>2
  <2>5. Len(a) = ListLength + 1 /\ DOMAIN a = 1..(ListLength + 1)
    <3>1. e \o z \in Seq(Message) /\ Len(e \o z) = Len(e) + Len(z)
      BY <2>3, ConcatProperties
    <3>2. a \in Seq(Message) /\ Len(a) = ListLength + 1
      BY <2>3, <2>4, <3>1
    <3> QED
      BY <3>2
  <2>6. \A i \in 1..(Len(e) + Len(z)) : a[i] = IF i <= Len(e) THEN e[i] ELSE z[i - Len(e)]
    BY <2>3, <2>4, ConcatProperties
  <2>7. a[ListLength + 1] = z[1] /\ \A i \in 1..ListLength : a[i] = e[i]
    BY <2>3, <2>6, CallsAssumption
  <2> QED
    BY <1>1, <2>3, <2>5, <2>7, CallsAssumption DEF IsLast
<1>2. ASSUME request[c].reads = "speech",
             NEW end \in {"FINISHED", "INVALID"}, a = <<<<c, "speaking">>, <<c, end>>>>
      PROVE  a # <<>> /\ \A i \in DOMAIN a : IsLast(c, a[i]) <=> i = Len(a)
  <2>1. Len(a) = 2 /\ DOMAIN a = 1..2 /\ a[1][2] = "speaking" /\ a[2][2] = end
    BY <1>2
  <2> QED
    BY <1>2, <2>1 DEF IsLast
<1>3. CASE request[c].reads \notin {"list", "speech"} /\ a = <<<<c, "answer">>>>
  BY <1>3 DEF IsLast
<1> QED
  BY <1>1, <1>2, <1>3, AnswerShape

LEMMA CallsInitIInv == CallsInit => CallsIInv
  BY CallsAssumption
  DEF CallsInit, CallsStart, CallsIInv, CallsType, CallBook, Undisturbed, Ended

-----------------------------------------------------------------------------
LEMMA SameAnswers ==
  ASSUME request' = request, NEW c
  PROVE  Answers(c)' = Answers(c)
  BY DEF Answers

\* A step of one call leaves the others as they are; only the engine has a new
\* request.
LEMMA OtherCallKeeps ==
  ASSUME CallsIInv, NEW c \in Calls, NEW d \in Calls, d # c, request' = request,
         at'[d] = at[d], code'[d] = code[d], got'[d] = got[d], due'[d] = due[d],
         box'[d] = box[d], d \in listening' <=> d \in listening,
         asked' = asked \/ asked' = asked \cup {c}
  PROVE  CallBook(d)' /\ Undisturbed(d)'
<1>1. CallBook(d) /\ Undisturbed(d)
  BY DEF CallsIInv
<1>2. CallBook(d)'
  BY <1>1 DEF CallBook
<1>3. Undisturbed(d)'
  BY <1>1, SameAnswers DEF Undisturbed, IsLast
<1> QED
  BY <1>2, <1>3

\* A call that ends with an error.
LEMMA LeavesKeeps ==
  ASSUME CallsIInv, NEW c \in Calls, NEW result, Leaves(c, result), result # "none",
         result = "RESPONSE_RECEIVED" => request[c].reads = "nothing",
         UNCHANGED <<request, channelVars, engineVars>>
  PROVE  CallsIInv'
<1>1. /\ UNCHANGED <<request, listening, box, got, asked, due>>
      /\ at' = [at EXCEPT ![c] = "leaving"] /\ code' = [code EXCEPT ![c] = result]
  BY DEF Leaves, channelVars, engineVars
<1>2. CallsType'
  BY <1>1 DEF CallsIInv, CallsType
<1>3. at'[c] = "leaving" /\ code'[c] = result /\ \A d \in Calls \ {c} : at'[d] = at[d] /\ code'[d] = code[d]
  BY <1>1 DEF CallsIInv, CallsType
<1>4. CallBook(c)'
  BY <1>1, <1>3 DEF CallsIInv, CallBook, Ended
<1>5. Undisturbed(c)'
  BY <1>1, <1>3 DEF CallsIInv, Undisturbed, Ended
<1>6. \A d \in Calls \ {c} : CallBook(d)' /\ Undisturbed(d)'
  BY <1>1, <1>3, OtherCallKeeps
<1> QED
  BY <1>2, <1>4, <1>5, <1>6 DEF CallsIInv

\* A call that has not asked yet moves on.
LEMMA MovesKeeps ==
  ASSUME CallsIInv, NEW c \in Calls, NEW place \in {"free", "registered"},
         at[c] \in {"start", "free"}, at' = [at EXCEPT ![c] = place],
         listening' = listening \/ (place = "registered" /\ listening' = listening \cup {c}),
         UNCHANGED <<request, code, box, got, engineVars>>
  PROVE  CallsIInv'
<1>1. CallsType'
  BY DEF CallsIInv, CallsType, engineVars
<1>2. at'[c] = place /\ \A d \in Calls \ {c} : at'[d] = at[d]
  BY DEF CallsIInv, CallsType
<1>3. CallBook(c)'
  BY <1>2 DEF CallsIInv, CallBook, Ended, engineVars
<1>4. Undisturbed(c)'
  BY <1>2 DEF CallsIInv, Undisturbed, Ended, engineVars
<1>5. \A d \in Calls \ {c} : CallBook(d)' /\ Undisturbed(d)'
  BY <1>2, OtherCallKeeps DEF engineVars
<1> QED
  BY <1>1, <1>3, <1>4, <1>5 DEF CallsIInv

LEMMA ReturnKeeps ==
  ASSUME CallsIInv, NEW c \in Calls, Return(c)
  PROVE  CallsIInv'
<1>1. CallsType'
  BY DEF CallsIInv, CallsType, Return, engineVars
<1>2. /\ at'[c] = "returned" /\ box'[c] = <<>> /\ c \notin listening'
      /\ \A d \in Calls \ {c} : at'[d] = at[d] /\ box'[d] = box[d]
  BY DEF CallsIInv, CallsType, Return
<1>3. CallBook(c)'
  BY <1>2, CallsAssumption DEF CallsIInv, CallBook, Ended, engineVars, Return
<1>4. Undisturbed(c)'
  BY <1>2, SameAnswers DEF CallsIInv, Undisturbed, Ended, engineVars, Return
<1>5. \A d \in Calls \ {c} : CallBook(d)' /\ Undisturbed(d)'
  BY <1>2, OtherCallKeeps DEF engineVars, Return
<1> QED
  BY <1>1, <1>3, <1>4, <1>5 DEF CallsIInv

\* The request reaches the engine, which settles what it will answer.
LEMMA WriteKeeps ==
  ASSUME CallsIInv, NEW c \in Calls, Write(c)
  PROVE  CallsIInv'
<1>1. WellFormed(request[c])
  BY RequestsWellFormed DEF CallsIInv, CallsType
<1>2. PICK answers \in Answers(c) : due' = [due EXCEPT ![c] = answers]
  BY DEF Write
<1>3. UNCHANGED <<request, listening, box, got>> /\ asked' = asked \cup {c} /\ Ready(c)
  BY DEF Write, channelVars
<1>4. answers \in Seq(Message) /\ \A i \in DOMAIN answers : answers[i][1] = c
  BY <1>1, AnswerType
<1>5. due'[c] = answers /\ \A d \in Calls \ {c} : due'[d] = due[d]
  BY <1>2 DEF CallsIInv, CallsType
<1>6. CASE request[c].reads = "nothing"
  <2>1. PICK result \in request[c].gives : Leaves(c, result)
    BY <1>6 DEF Write
  <2>2. /\ at' = [at EXCEPT ![c] = "leaving"] /\ code' = [code EXCEPT ![c] = result]
        /\ result # "none"
    BY <1>1, <2>1 DEF Leaves, WellFormed
  <2>3. /\ at'[c] = "leaving" /\ code'[c] # "none"
        /\ \A d \in Calls \ {c} : at'[d] = at[d] /\ code'[d] = code[d]
    BY <2>2 DEF CallsIInv, CallsType
  <2>4. CallsType'
    BY <1>2, <1>3, <1>4, <2>2 DEF CallsIInv, CallsType
  <2>5. CallBook(c)'
    BY <1>3, <1>4, <1>5, <2>3 DEF CallsIInv, CallBook, Ended
  <2>6. Undisturbed(c)'
    BY <1>3, <1>6 DEF Undisturbed
  <2>7. \A d \in Calls \ {c} : CallBook(d)' /\ Undisturbed(d)'
    BY <1>3, <1>5, <2>3, OtherCallKeeps
  <2> QED
    BY <2>4, <2>5, <2>6, <2>7 DEF CallsIInv
<1>7. CASE request[c].reads # "nothing"
  <2>1. at' = [at EXCEPT ![c] = "waiting"] /\ UNCHANGED code
    BY <1>7 DEF Write
  <2>2. at'[c] = "waiting" /\ \A d \in Calls \ {c} : at'[d] = at[d]
    BY <2>1 DEF CallsIInv, CallsType
  <2>3. at[c] = "registered"
    BY <1>1, <1>3, <1>7 DEF Ready, WellFormed
  <2>4. CallsType'
    BY <1>2, <1>3, <1>4, <2>1 DEF CallsIInv, CallsType
  <2>5. CallBook(c)'
    BY <1>3, <1>4, <1>5, <1>7, <2>1, <2>2, <2>3 DEF CallsIInv, CallBook, Ended
  <2>6. Undisturbed(c)'
    <3>1. SUFFICES ASSUME asked' \subseteq {c}
                   PROVE  \/ c \in listening /\ got[c] \o (box[c] \o answers) \in Answers(c)
                          \/ c \notin listening /\ \A i \in DOMAIN box[c] : ~IsLast(c, box[c][i])
      BY <1>3, <1>5, <2>2, SameAnswers DEF Undisturbed, IsLast, Ended
    <3>2. c \notin asked /\ got[c] = <<>>
      BY <2>3 DEF CallsIInv, CallBook, Ended
    <3>3. box[c] = <<>>
      BY <1>3, <1>7, <3>1, <3>2 DEF CallsIInv, Undisturbed
    <3>4. <<>> \o (<<>> \o answers) = answers
      BY <1>4, ConcatEmptySeq
    <3> QED
      BY <3>2, <3>3, <3>4
  <2>7. \A d \in Calls \ {c} : CallBook(d)' /\ Undisturbed(d)'
    BY <1>3, <1>5, <2>1, <2>2, OtherCallKeeps
  <2> QED
    BY <2>4, <2>5, <2>6, <2>7 DEF CallsIInv
<1> QED
  BY <1>6, <1>7

\* The handler takes the oldest message of its channel.  The last one of an answer
\* has nothing behind it, in the channel or with the engine.
LEMMA ReadKeeps ==
  ASSUME CallsIInv, NEW c \in Calls, Read(c)
  PROVE  CallsIInv'
<1> DEFINE m == Head(box[c])
<1>1. WellFormed(request[c])
  BY RequestsWellFormed DEF CallsIInv, CallsType
<1>2. /\ UNCHANGED <<request, listening, asked, due>>
      /\ at[c] = "waiting" /\ box[c] # <<>>
      /\ got' = [got EXCEPT ![c] = Append(@, m)]
      /\ box' = [box EXCEPT ![c] = Tail(@)]
  BY DEF Read, engineVars
<1>3. /\ got'[c] = Append(got[c], m) /\ box'[c] = Tail(box[c])
      /\ \A d \in Calls \ {c} : got'[d] = got[d] /\ box'[d] = box[d]
  BY <1>2 DEF CallsIInv, CallsType
<1>4. /\ box[c] \in Seq(Message) /\ got[c] \in Seq(Message) /\ due[c] \in Seq(Message)
      /\ m \in Message /\ Tail(box[c]) \in Seq(Message)
      /\ Append(got[c], m) \in Seq(Message)
  BY <1>2 DEF CallsIInv, CallsType
<1>5. /\ Len(Tail(box[c])) = Len(box[c]) - 1 /\ m = box[c][1]
      /\ \A i \in DOMAIN Tail(box[c]) : i + 1 \in DOMAIN box[c] /\ Tail(box[c])[i] = box[c][i + 1]
      /\ 1 \in DOMAIN box[c]
  BY <1>2, <1>4
<1>6. request[c].reads # "nothing" /\ c \in asked
  BY <1>2 DEF CallsIInv, CallBook
<1>7. \E place \in {"waiting", "leaving"} :
        /\ at' = [at EXCEPT ![c] = place] /\ code' = [code EXCEPT ![c] = code'[c]]
        /\ code'[c] = "none" <=> place = "waiting"
        /\ place = "waiting" <=> ~IsLast(c, m)
  <2>1. CASE IsLast(c, m)
    <3>1. PICK result \in IF m[2] = "INVALID" THEN {"Internal"} ELSE request[c].gives :
                 Leaves(c, result)
      BY <2>1 DEF Read
    <3>2. result # "none"
      BY <1>1 DEF WellFormed
    <3>3. code' = [code EXCEPT ![c] = result] /\ code'[c] = result
      BY <3>1 DEF Leaves, CallsIInv, CallsType
    <3> QED
      BY <2>1, <3>1, <3>2, <3>3 DEF Leaves
  <2>2. CASE ~IsLast(c, m)
    <3>1. UNCHANGED <<at, code>>
      BY <2>2 DEF Read, handlerVars
    <3>2. at = [at EXCEPT ![c] = "waiting"] /\ code = [code EXCEPT ![c] = code[c]]
      BY <1>2 DEF CallsIInv, CallsType
    <3>3. code[c] = "none"
      BY <1>2 DEF CallsIInv, CallBook, Ended
    <3> QED
      BY <2>2, <3>1, <3>2, <3>3
  <2> QED
    BY <2>1, <2>2
<1>8. PICK place \in {"waiting", "leaving"} :
        /\ at' = [at EXCEPT ![c] = place] /\ code' = [code EXCEPT ![c] = code'[c]]
        /\ code'[c] = "none" <=> place = "waiting"
        /\ place = "waiting" <=> ~IsLast(c, m)
  BY <1>7
<1>9. at'[c] = place /\ \A d \in Calls \ {c} : at'[d] = at[d] /\ code'[d] = code[d]
  BY <1>8 DEF CallsIInv, CallsType
<1> HIDE DEF m
<1>10. CallsType'
  BY <1>2, <1>3, <1>4, <1>8 DEF CallsIInv, CallsType
<1>11. CallBook(c)'
  <2>1. CallBook(c)
    BY DEF CallsIInv
  <2>2. \A i \in DOMAIN box'[c] : request[box'[c][i][1]].tag = request[c].tag
    BY <1>3, <1>5, <2>1 DEF CallBook
  <2>3. Len(box'[c]) <= ListCapacity
    BY <1>3, <1>4, <1>5, <2>1, CallsAssumption DEF CallBook
  <2> QED
    BY <1>2, <1>6, <1>8, <1>9, <2>1, <2>2, <2>3 DEF CallBook, Ended
<1>12. Undisturbed(c)'
  <2>1. SUFFICES ASSUME asked \subseteq {c}
                 PROVE  /\ place = "waiting" =>
                             \/ /\ c \in listening
                                /\ got'[c] \o (box'[c] \o due[c]) \in Answers(c)
                             \/ /\ c \notin listening
                                /\ \A i \in DOMAIN box'[c] : ~IsLast(c, box'[c][i])
                        /\ place # "waiting" => due[c] = <<>> /\ got'[c] \in Answers(c)
    BY <1>2, <1>6, <1>9, SameAnswers DEF Undisturbed, IsLast, Ended
  <2>2. CASE c \in listening
    <3>1. PICK a \in Answers(c) : a = got[c] \o (box[c] \o due[c])
      BY <1>2, <1>6, <2>1, <2>2 DEF CallsIInv, Undisturbed
    <3>2. /\ got'[c] \o (box'[c] \o due[c]) = a
          /\ Len(got[c]) + 1 \in DOMAIN a /\ a[Len(got[c]) + 1] = m
          /\ Len(got[c]) + 1 = Len(a) => due[c] = <<>> /\ got'[c] = a
      <4>1. box[c] # <<>>
        BY <1>2
      <4>2. PICK s \in Seq(Message), t \in Seq(Message), u \in Seq(Message) :
              s = got[c] /\ t = box[c] /\ u = due[c]
        BY <1>4
      <4>3. t # <<>> /\ a = s \o (t \o u)
        BY <3>1, <4>1, <4>2
      <4>4. /\ Append(s, Head(t)) \o (Tail(t) \o u) = a
            /\ Len(s) + 1 \in DOMAIN a /\ a[Len(s) + 1] = Head(t)
            /\ Len(s) + 1 = Len(a) => u = <<>> /\ Append(s, Head(t)) = a
        <5>1. t # <<>>
          BY <4>3
        <5> HIDE DEF m
        <5> QED
          BY SMTT(40), <4>3, <5>1, TakeOldest
      <4>5. got'[c] = Append(s, Head(t)) /\ box'[c] = Tail(t) /\ m = Head(t)
        BY <1>3, <4>2 DEF m
      <4> QED
        BY <4>2, <4>4, <4>5
    <3>3. CASE place # "waiting"
      <4>1. IsLast(c, m) /\ request[c].tag # "none"
        BY <1>1, <1>6, <1>8, <3>3 DEF WellFormed
      <4>2. Len(got[c]) + 1 = Len(a)
        BY <1>1, <3>2, <4>1, AnswerEnds
      <4> QED
        BY <3>2, <3>3, <4>2
    <3> QED
      BY <2>2, <3>2, <3>3
  <2>3. CASE c \notin listening
    <3>1. \A i \in DOMAIN box[c] : ~IsLast(c, box[c][i])
      BY <1>2, <1>6, <2>1, <2>3 DEF CallsIInv, Undisturbed
    <3>2. place = "waiting"
      BY <1>5, <1>8, <3>1 DEF m
    <3> QED
      BY <1>3, <1>5, <2>3, <3>1, <3>2
  <2> QED
    BY <2>2, <2>3
<1>13. \A d \in Calls \ {c} : CallBook(d)' /\ Undisturbed(d)'
  BY <1>2, <1>3, <1>9, OtherCallKeeps
<1> QED
  BY <1>10, <1>11, <1>12, <1>13 DEF CallsIInv

\* Where t stands in the whole: not at its end.
LEMMA NotTheEnd ==
  ASSUME NEW S, NEW s \in Seq(S), NEW t \in Seq(S), NEW u \in Seq(S), u # <<>>,
         NEW i \in DOMAIN t, NEW a, a = s \o (t \o u)
  PROVE  Len(s) + i \in DOMAIN a /\ a[Len(s) + i] = t[i] /\ Len(s) + i # Len(a)
<1>1. /\ a \in Seq(S) /\ Len(a) = Len(s) + Len(t) + Len(u)
      /\ \A j \in 1..Len(t) : a[Len(s) + j] = t[j]
  BY HandOver
<1>2. Len(s) \in Nat /\ Len(t) \in Nat /\ Len(u) \in Nat \ {0}
  OBVIOUS
<1>3. DOMAIN a = 1..Len(a) /\ DOMAIN t = 1..Len(t)
  BY <1>1
<1>4. a[Len(s) + i] = t[i]
  BY <1>1, <1>3
<1> DEFINE k == Len(s)
           l == Len(t)
           n == Len(u)
<1>5. k \in Nat /\ l \in Nat /\ n \in Nat \ {0} /\ i \in 1..l /\ Len(a) = k + l + n
  BY <1>1, <1>2, <1>3
<1>6. k + i \in 1..Len(a) /\ k + i # Len(a)
  <2> HIDE DEF k, l, n
  <2> QED
    BY <1>5
<1> QED
  BY <1>3, <1>4, <1>6

\* The engine's answer reaches every channel of its type.  A channel that is full
\* loses its oldest message instead and is closed: what is left in it is not the end
\* of the answer, which the engine had yet to send.
LEMMA SendKeeps ==
  ASSUME CallsIInv, NEW c \in Calls, SendToListeners(c)
  PROVE  CallsIInv'
<1> DEFINE m == Head(due[c])
           takers == {d \in listening : request[d].tag = request[c].tag}
           full == {d \in takers : ~Room(d)}
<1>1. /\ due[c] # <<>> /\ due' = [due EXCEPT ![c] = Tail(@)]
      /\ box' = [d \in Calls |-> IF d \in full THEN Tail(box[d])
                                 ELSE IF d \in takers THEN Append(box[d], m) ELSE box[d]]
      /\ listening' = listening \ full
      /\ UNCHANGED <<request, at, code, got, asked>>
  BY DEF SendToListeners, handlerVars
<1>2. c \in asked
  BY <1>1 DEF CallsIInv, CallBook
<1>3. /\ due[c] \in Seq(Message) /\ Tail(due[c]) \in Seq(Message) /\ m \in Message
      /\ Len(Tail(due[c])) = Len(due[c]) - 1 /\ m = due[c][1] /\ 1 \in DOMAIN due[c]
      /\ \A i \in DOMAIN Tail(due[c]) : i + 1 \in DOMAIN due[c] /\ Tail(due[c])[i] = due[c][i + 1]
  BY <1>1 DEF CallsIInv, CallsType
<1>4. m[1] = c
  BY <1>3 DEF CallsIInv, CallBook
<1>5. due'[c] = Tail(due[c]) /\ \A d \in Calls \ {c} : due'[d] = due[d]
  BY <1>1 DEF CallsIInv, CallsType
<1> HIDE DEF m
<1>6. ASSUME NEW d \in Calls
      PROVE  /\ box'[d] \in Seq(Message) /\ box[d] \in Seq(Message)
             /\ Len(box'[d]) <= ListCapacity
             /\ \A i \in DOMAIN box'[d] : request[box'[d][i][1]].tag = request[d].tag
  <2>1. /\ box[d] \in Seq(Message) /\ Len(box[d]) <= ListCapacity
        /\ \A i \in DOMAIN box[d] : request[box[d][i][1]].tag = request[d].tag
    BY DEF CallsIInv, CallsType, CallBook
  <2>2. CASE d \in full
    <3>1. box'[d] = Tail(box[d]) /\ ~Room(d)
      BY <1>1, <2>2
    <3>2. box[d] # <<>>
      BY <2>1, <3>1, CallsAssumption DEF Room
    <3> QED
      BY <2>1, <3>1, <3>2, CallsAssumption
  <2>3. CASE d \in takers \ full
    <3>1. box'[d] = Append(box[d], m) /\ Room(d) /\ request[d].tag = request[c].tag
      BY <1>1, <2>3
    <3>2. Len(box'[d]) <= ListCapacity
      BY <1>3, <2>1, <3>1, CallsAssumption DEF Room
    <3> QED
      BY <1>3, <1>4, <2>1, <3>1, <3>2
  <2>4. CASE d \notin takers
    BY <1>1, <2>1, <2>4
  <2> QED
    BY <2>2, <2>3, <2>4
<1>7. CallsType'
  <2>1. box' = [d \in Calls |-> box'[d]]
    BY <1>1
  <2>2. box' \in [Calls -> Seq(Message)]
    BY <1>6, <2>1
  <2> QED
    BY <1>1, <1>3, <2>2 DEF CallsIInv, CallsType
<1>8. ASSUME NEW d \in Calls
      PROVE  CallBook(d)'
  <2>1. CallBook(d)
    BY DEF CallsIInv
  <2>2. /\ d \notin asked => due'[d] = <<>>
        /\ \A i \in DOMAIN due'[d] : due'[d][i][1] = d
    <3>1. CASE d # c
      BY <1>5, <2>1, <3>1 DEF CallBook
    <3>2. CASE d = c
      <4>1. \A i \in DOMAIN due[c] : due[c][i][1] = c
        BY DEF CallsIInv, CallBook
      <4>2. \A i \in DOMAIN Tail(due[c]) : Tail(due[c])[i][1] = c
        BY <1>3, <4>1
      <4> QED
        BY <1>2, <1>5, <3>2, <4>2
    <3> QED
      BY <3>1, <3>2
  <2> QED
    BY <1>1, <1>6, <2>1, <2>2 DEF CallBook
<1>9. ASSUME NEW d \in Calls \ {c}
      PROVE  Undisturbed(d)'
  BY <1>1, <1>2 DEF Undisturbed
<1>10. Undisturbed(c)'
  <2>1. SUFFICES ASSUME asked \subseteq {c}, request[c].reads # "nothing", at[c] = "waiting"
                 PROVE  \/ c \in listening' /\ got[c] \o (box'[c] \o due'[c]) \in Answers(c)
                        \/ /\ c \notin listening'
                           /\ \A i \in DOMAIN box'[c] : ~IsLast(c, box'[c][i])
    <3>1. ~(at[c] \in Ended /\ code[c] = "RESPONSE_RECEIVED" /\ asked \subseteq {c}
              /\ request[c].reads # "nothing")
      BY <1>1 DEF CallsIInv, Undisturbed
    <3> QED
      BY <1>1, <1>2, <3>1, SameAnswers DEF Undisturbed, IsLast
  <2>2. CASE c \notin listening
    <3>1. box'[c] = box[c] /\ c \notin listening'
      BY <1>1, <2>2
    <3> QED
      BY <2>1, <2>2, <3>1 DEF CallsIInv, Undisturbed
  <2>3. CASE c \in listening
    <3>1. WellFormed(request[c]) /\ request[c].tag # "none"
      BY <2>1, RequestsWellFormed DEF CallsIInv, CallsType, WellFormed
    <3>2. CASE c \in full
      <4>1. PICK s \in Seq(Message), t \in Seq(Message), u \in Seq(Message) :
              s = got[c] /\ t = box[c] /\ u = due[c]
        BY DEF CallsIInv, CallsType
      <4>2. PICK a \in Answers(c) : a = s \o (t \o u)
        BY <2>1, <2>3, <4>1 DEF CallsIInv, Undisturbed
      <4>3. u # <<>> /\ a = s \o (t \o u)
        BY <1>1, <4>1, <4>2
      <4>4. \A i \in DOMAIN t :
              Len(s) + i \in DOMAIN a /\ a[Len(s) + i] = t[i] /\ Len(s) + i # Len(a)
        BY <4>3, NotTheEnd
      <4>5. \A i \in DOMAIN t : ~IsLast(c, t[i])
        BY <3>1, <4>4, AnswerEnds
      <4>6. box'[c] = Tail(t) /\ c \notin listening' /\ ~Room(c)
        BY <1>1, <3>2, <4>1
      <4>7. t # <<>>
        BY <4>1, <4>6, CallsAssumption DEF Room
      <4>8. \A i \in DOMAIN Tail(t) : i + 1 \in DOMAIN t /\ Tail(t)[i] = t[i + 1]
        BY <4>7
      <4> QED
        BY <4>5, <4>6, <4>8
    <3>3. CASE c \notin full
      <4>1. PICK s \in Seq(Message), t \in Seq(Message), u \in Seq(Message) :
              s = got[c] /\ t = box[c] /\ u = due[c]
        BY DEF CallsIInv, CallsType
      <4>2. PICK a \in Answers(c) : a = s \o (t \o u)
        BY <2>1, <2>3, <4>1 DEF CallsIInv, Undisturbed
      <4>3. u # <<>> /\ a = s \o (t \o u)
        BY <1>1, <4>1, <4>2
      <4>4. Append(t, Head(u)) \o Tail(u) = t \o u
        <5>1. Head(u) \in Message /\ Tail(u) \in Seq(Message) /\ <<Head(u)>> \o Tail(u) = u
          BY <4>3, HeadTailAppend
        <5>2. Append(t, Head(u)) = t \o <<Head(u)>>
          BY <5>1, AppendIsConcat
        <5>3. <<Head(u)>> \in Seq(Message)
          BY <5>1
        <5>4. (t \o <<Head(u)>>) \o Tail(u) = t \o (<<Head(u)>> \o Tail(u))
          BY SMTT(40), <5>1, <5>3, ConcatAssociative
        <5> QED
          BY <5>1, <5>2, <5>4
      <4>5. box'[c] = Append(t, Head(u)) /\ c \in listening' /\ due'[c] = Tail(u)
        BY <1>1, <1>5, <2>3, <3>3, <4>1 DEF m
      <4> QED
        BY <4>1, <4>2, <4>4, <4>5
    <3> QED
      BY <3>2, <3>3
  <2> QED
    BY <2>2, <2>3
<1> QED
  BY <1>7, <1>8, <1>9, <1>10 DEF CallsIInv

-----------------------------------------------------------------------------
LEMMA HandleKeeps ==
  ASSUME CallsIInv, NEW c \in Calls, Handle(c)
  PROVE  CallsIInv'
<1>1. WellFormed(request[c])
  BY RequestsWellFormed DEF CallsIInv, CallsType
<1>2. ASSUME Refuse(c) PROVE CallsIInv'
  <2>1. PICK result \in request[c].refused : Leaves(c, result)
    BY <1>2 DEF Refuse
  <2>2. result # "none" /\ (result = "RESPONSE_RECEIVED" => request[c].reads = "nothing")
    BY <1>1 DEF WellFormed
  <2> QED
    BY <1>2, <2>1, <2>2, LeavesKeeps DEF Refuse
<1>3. ASSUME CreateChannel(c) PROVE CallsIInv'
  BY <1>3, MovesKeeps DEF CreateChannel, Listen
<1>4. ASSUME FindTaken(c) PROVE CallsIInv'
  BY <1>4, LeavesKeeps DEF FindTaken
<1>5. ASSUME FindFree(c) PROVE CallsIInv'
  BY <1>5, MovesKeeps DEF FindFree, channelVars
<1>6. ASSUME CreateUniqueChannel(c) PROVE CallsIInv'
  BY <1>6, MovesKeeps DEF CreateUniqueChannel, Listen
<1>7. ASSUME Reject(c) PROVE CallsIInv'
  <2>1. PICK result \in request[c].rejected : Leaves(c, result)
    BY <1>7 DEF Reject
  <2>2. result # "none" /\ (result = "RESPONSE_RECEIVED" => request[c].reads = "nothing")
    BY <1>1 DEF WellFormed
  <2> QED
    BY <1>7, <2>1, <2>2, LeavesKeeps DEF Reject
<1>8. ASSUME WriteFails(c) PROVE CallsIInv'
  <2>1. PICK result \in IF request[c].ignores THEN request[c].gives ELSE {"not written"} :
               Leaves(c, result)
    BY <1>8 DEF WriteFails
  <2>2. result # "none" /\ (result = "RESPONSE_RECEIVED" => request[c].reads = "nothing")
    BY <1>1 DEF WellFormed
  <2> QED
    BY <1>8, <2>1, <2>2, LeavesKeeps DEF WriteFails
<1>9. ASSUME FindClosed(c) PROVE CallsIInv'
  BY <1>9, LeavesKeeps DEF FindClosed
<1>10. ASSUME TimeOut(c) PROVE CallsIInv'
  BY <1>10, LeavesKeeps DEF TimeOut
<1> QED
  BY <1>2, <1>3, <1>4, <1>5, <1>6, <1>7, <1>8, <1>9, <1>10,
     WriteKeeps, ReadKeeps, ReturnKeeps DEF Handle

LEMMA CallsNextIInv == CallsIInv /\ [CallsNext]_callsVars => CallsIInv'
<1> SUFFICES ASSUME CallsIInv, [CallsNext]_callsVars
             PROVE  CallsIInv'
  OBVIOUS
<1>1. CASE CallsNext
  BY <1>1, HandleKeeps, SendKeeps DEF CallsNext
<1>2. CASE UNCHANGED callsVars
  <2>1. UNCHANGED <<request, at, code, listening, box, got, asked, due>>
    BY <1>2 DEF callsVars, handlerVars, channelVars, engineVars
  <2>2. CallsType'
    BY <2>1 DEF CallsIInv, CallsType
  <2>3. \A c \in Calls : CallBook(c)' /\ Undisturbed(c)'
    BY <2>1, SameAnswers DEF CallsIInv, CallBook, Undisturbed, IsLast
  <2> QED
    BY <2>2, <2>3 DEF CallsIInv
<1> QED
  BY <1>1, <1>2

\* The calls in progress keep their book: what a handler has registered, asked for
\* and read fits how far it is, and an answer nobody disturbs is never torn.
THEOREM CallsInductive == CallsSpec => []CallsIInv
  BY CallsInitIInv, CallsNextIInv, PTL DEF CallsSpec

LEMMA CallsInvType == CallsIInv => CallsTypeOK
  BY DEF CallsIInv, CallsType, CallBook, CallsTypeOK, Ended

\* For any number of calls and any capacity of a list's channel: a channel never
\* holds more than it has room for, nor an answer of another type, and it is
\* registered only while its handler has not returned.
THEOREM CallsTypeCorrect == CallsSpec => []CallsTypeOK
  BY CallsInvType, CallsInductive, PTL

LEMMA CallsInvWhole == CallsIInv => AnswersAreWhole
<1> SUFFICES ASSUME CallsIInv, NEW c \in Calls, code[c] = "RESPONSE_RECEIVED",
                    asked = {c}, request[c].reads # "nothing"
             PROVE  due[c] = <<>> /\ got[c] \in Answers(c)
  BY DEF AnswersAreWhole
<1>1. at[c] \in Ended
  BY DEF CallsIInv, CallBook
<1> QED
  BY <1>1 DEF CallsIInv, Undisturbed

\* For any number of calls and lists of any length: while no other call has asked
\* for answers, one that reports RESPONSE_RECEIVED has read a whole answer, whatever
\* overflowed, was closed or timed out on the way.
THEOREM AnswersAlwaysWhole == CallsSpec => []AnswersAreWhole
  BY CallsInvWhole, CallsInductive, PTL
=============================================================================
