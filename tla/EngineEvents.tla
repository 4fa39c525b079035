----------------------------- MODULE EngineEvents -----------------------------
(***************************************************************************)
(* What the gateway and vic-engine still say in CLAD (EngineCladIpcManager *)
(* of cloud/ipc_manager.go, the conversions of cloud/message_handler.go):  *)
(* a client defines a custom object; the engine's messages become events   *)
(* for the event streams, each with its filters.  Of a message are kept    *)
(* its tag and its enumerators, as numbers: all else is copied, or not     *)
(* exposed.  The channel to an event stream is that of IpcListeners.       *)
(***************************************************************************)
EXTENDS Integers, Sequences, TLC

CONSTANT Definitions   \* how many custom objects the client defines

\* Go's integers.
int8 == [low |-> -128, high |-> 127]
uint8 == [low |-> 0, high |-> 255]
int32 == [low |-> -2147483647 - 1, high |-> 2147483647]

Increment(n, type) == IF n = type.high THEN type.low ELSE n + 1

\* The conversion to int16.
Int16(n) == LET low == n % 65536 IN IF low < 32768 THEN low ELSE low - 65536

-----------------------------------------------------------------------------
\* The enumerators that have a name: gw_clad is generated from the engine's .clad files,
\* extint from the clients' .proto files.
Enumerators(first, names) == [n \in first..(first + Len(names) - 1) |-> names[n - first + 1]]

Numbered(name, n) == name \o ToString(n)

gw_FacialExpression ==
  Enumerators(-1, <<"unknown", "neutral", "happiness", "surprise", "anger", "sadness">>)
extint_FacialExpression ==
  Enumerators(0, <<"unknown", "neutral", "happiness", "surprise", "anger", "sadness">>)

gw_ObjectFamily ==
  Enumerators(-1, <<"invalid", "unknown", "block", "light cube", "charger">>)
    @@ 6 :> "custom object"
extint_ObjectFamily ==
  Enumerators(0, <<"invalid", "unknown", "block", "light cube", "charger">>)
    @@ 7 :> "custom object"

gw_ObjectType ==
  Enumerators(0, <<"unknown", "cube 1", "cube 2", "cube 3", "ghost", "charger">>)
    @@ Enumerators(14, [n \in 1..20 |-> Numbered("custom type", n - 1)]) @@ 34 :> "fixed obstacle"
extint_ObjectType ==
  Enumerators(0, <<"invalid", "unknown", "cube 1">>) @@ 6 :> "charger"
    @@ 15 :> Numbered("custom type", 0)

extint_CustomType == Enumerators(0, <<"invalid">> \o [n \in 1..20 |-> Numbered("custom type", n - 1)])

gw_UpAxis == Enumerators(0, <<"-x", "+x", "-y", "+y", "-z", "+z">>) @@ 7 :> "invalid"
extint_UpAxis == Enumerators(0, <<"invalid", "-x", "+x", "-y", "+y", "-z", "+z">>)

gw_ENodeContentTypeEnum ==
  Enumerators(0, <<"unknown", "clear of obstacle", "clear of cliff", "cube", "proximity",
                   "proximity explored", "unrecognized", "cliff", "interesting edge",
                   "non-interesting edge">>)
extint_NavNodeContentType ==
  Enumerators(0, <<"unknown", "clear of obstacle", "clear of cliff", "cube", "proximity",
                   "proximity explored", "unrecognized", "cliff", "interesting edge",
                   "non-interesting edge">>)

Markers ==
  [n \in 1..16 |-> Numbered(<<"circles", "diamonds", "hexagons", "triangles">>
                              [(n - 1) \div 4 + 1], 2 + ((n - 1) % 4))]
gw_CustomObjectMarker == Enumerators(0, Markers)
extint_CustomObjectMarker == Enumerators(0, <<"unknown">> \o Markers)

-----------------------------------------------------------------------------
VARIABLES
  defined,    \* the custom objects a client defined: type and markers, in proto
  known,      \* the same as the engine got them, in CLAD
  said,       \* what is on the engine's socket, or <<>>
  events,     \* what is on its way to an event stream, or <<>>; with the CLAD message
  forwarded,  \* what is on its way to a handler that listens for CLAD, or <<>>
  whiteList, blackList,  \* of an event stream: the types in it, or <<>>: none
  told,       \* what a client was told, or <<>>; with the CLAD message
  reading,    \* ProcessMessages goes on
  panicked    \* the gateway has broken down

eventVars ==
  <<defined, known, said, events, forwarded, whiteList, blackList, told, reading, panicked>>

NothingSaid ==
  /\ defined = <<>> /\ known = <<>> /\ said = <<>> /\ events = <<>> /\ forwarded = <<>>
  /\ told = <<>>

-----------------------------------------------------------------------------
\* From the client to the engine.  Of a box all six sides are converted alike.
ObjectType(customType) == customType - 1 + 14

Marker(marker) == Int16(marker - 1)

ProtoDefineCustomBoxToClad(in) ==
  [type |-> ObjectType(in.type), markers |-> [s \in 1..6 |-> Marker(in.markers[s])]]
ProtoDefineCustomCubeToClad(in) ==
  [type |-> ObjectType(in.type), markers |-> <<Marker(in.markers[1])>>]
ProtoDefineCustomWallToClad(in) ==
  [type |-> ObjectType(in.type), markers |-> <<Marker(in.markers[1])>>]

\* The write to the engine's socket, which reads it.
Write(msg) == known' = Append(known, msg)

DefineCustomObject(shape, in) ==
  /\ ~panicked /\ Len(defined) < Definitions
  /\ Write(CASE shape = "box" -> ProtoDefineCustomBoxToClad(in)
             [] shape = "cube" -> ProtoDefineCustomCubeToClad(in)
             [] shape = "wall" -> ProtoDefineCustomWallToClad(in))
  /\ defined' = Append(defined, in)
  /\ UNCHANGED <<said, events, forwarded, whiteList, blackList, told, reading, panicked>>

-----------------------------------------------------------------------------
\* From the engine to the clients.  An event's type is what a filter names it by.
ObjectEvent(tag, values) == [type |-> "object_event", tag |-> tag, values |-> values]

CladRobotObservedFaceToProto(msg) ==
  [type |-> "robot_observed_face", tag |-> msg.tag,
   values |-> <<Increment(msg.values[1], int8)>>]
CladRobotChangedObservedFaceIDToProto(msg) ==
  [type |-> "robot_changed_observed_face_id", tag |-> msg.tag, values |-> <<>>]
CladObjectConnectionStateToProto(msg) ==
  ObjectEvent(msg.tag, <<Increment(msg.values[1], int32)>>)
CladObjectAvailableToProto(msg) == ObjectEvent(msg.tag, <<>>)
CladObjectMovedToProto(msg) == ObjectEvent(msg.tag, <<>>)
CladObjectStoppedMovingToProto(msg) == ObjectEvent(msg.tag, <<>>)
CladObjectTappedToProto(msg) == ObjectEvent(msg.tag, <<>>)
CladRobotObservedObjectToProto(msg) ==
  ObjectEvent(msg.tag, <<Increment(msg.values[1], int32), Increment(msg.values[2], int32)>>)

\* Mutant: all axes are shifted by one, the unknown one too.
CladUpAxisShifted(msg) == ObjectEvent(msg.tag, <<Increment(msg.values[1], uint8)>>)

\* "In clad, unknown is the final value.  In proto, the convention is that 0 is unknown."
CladObjectUpAxisChangedToProto(msg) ==
  ObjectEvent(msg.tag, <<IF msg.values[1] = 7 THEN 0 ELSE Increment(msg.values[1], uint8)>>)

\* A CLAD event has no event of the clients that it stands for.
CladEventToProto(msg) == [type |-> "nil", tag |-> msg.tag, values |-> <<>>]

\* "Not incrementing this one because the CLAD enum has 0 as unknown."
CladMemoryMapQuadInfoToProto(msg) == [tag |-> msg.tag, values |-> msg.values]

ToEvent(msg) ==
  CASE msg.tag = "Event" -> CladEventToProto(msg)
    [] msg.tag = "RobotObservedFace" -> CladRobotObservedFaceToProto(msg)
    [] msg.tag = "RobotChangedObservedFaceID" -> CladRobotChangedObservedFaceIDToProto(msg)
    [] msg.tag = "ObjectAvailable" -> CladObjectAvailableToProto(msg)
    [] msg.tag = "ObjectConnectionState" -> CladObjectConnectionStateToProto(msg)
    [] msg.tag = "ObjectMoved" -> CladObjectMovedToProto(msg)
    [] msg.tag = "ObjectStoppedMoving" -> CladObjectStoppedMovingToProto(msg)
    [] msg.tag = "ObjectUpAxisChanged" -> CladObjectUpAxisChangedToProto(msg)
    [] msg.tag = "ObjectTapped" -> CladObjectTappedToProto(msg)
    [] msg.tag = "RobotObservedObject" -> CladRobotObservedObjectToProto(msg)

\* The enumerations of a message's values.
Enumerations(tag) ==
  CASE tag = "RobotObservedFace" -> <<"FacialExpression">>
    [] tag = "ObjectConnectionState" -> <<"ObjectType">>
    [] tag = "ObjectUpAxisChanged" -> <<"UpAxis">>
    [] tag = "RobotObservedObject" -> <<"ObjectFamily", "ObjectType">>
    [] tag = "MemoryMapMessage" -> <<"ContentType">>
    [] OTHER -> <<>>

\* The tags of the switch, and two of those that are passed on.
Converted ==
  {"Event", "RobotObservedFace", "RobotChangedObservedFaceID", "ObjectAvailable",
   "ObjectConnectionState", "ObjectMoved", "ObjectStoppedMoving", "ObjectUpAxisChanged",
   "ObjectTapped", "RobotObservedObject"}
PassedOn == {"MemoryMapMessage", "DefinedCustomObject"}

\* ReadBlock returns nothing: the loop ends.
ReadNothing ==
  /\ reading /\ ~panicked
  /\ reading' = FALSE
  /\ UNCHANGED <<defined, known, said, events, forwarded, whiteList, blackList, told,
                 panicked>>

SendEventToChannel(event, msg) == events' = <<event, msg>>

\* Blocks that are too short and those that do not unpack are ignored.
ProcessMessages ==
  /\ reading /\ ~panicked /\ said # <<>>
  /\ said' = <<>>
  /\ IF said[1].tag \in Converted THEN SendEventToChannel(ToEvent(said[1]), said[1])
                                   ELSE UNCHANGED events
  /\ forwarded' = IF said[1].tag \in PassedOn THEN said ELSE forwarded
  /\ UNCHANGED <<defined, known, whiteList, blackList, told, reading, panicked>>

checkFilters(type) ==
  \/ whiteList = <<>> /\ blackList = <<>>
  \/ whiteList # <<>> /\ type \in whiteList[1]
  \/ blackList # <<>> /\ type \notin blackList[1]

\* A filter looks for the type's name: an event without a type has none, the gateway
\* breaks down.
EventStream ==
  /\ ~panicked /\ events # <<>>
  /\ events' = <<>>
  /\ panicked' = (events[1].type = "nil" /\ (whiteList # <<>> \/ blackList # <<>>))
  /\ told' = IF ~panicked' /\ checkFilters(events[1].type) THEN events ELSE told
  /\ UNCHANGED <<defined, known, said, forwarded, whiteList, blackList, reading>>

\* NavMapFeed, with the quads of one message; and DefineCustomObject, which only takes
\* the engine's answer.
TakeForwarded ==
  /\ ~panicked /\ forwarded # <<>>
  /\ told' = IF forwarded[1].tag = "MemoryMapMessage"
             THEN <<CladMemoryMapQuadInfoToProto(forwarded[1]), forwarded[1]>> ELSE told
  /\ forwarded' = <<>>
  /\ UNCHANGED <<defined, known, said, events, whiteList, blackList, reading, panicked>>

-----------------------------------------------------------------------------
\* What vic-engine says: every enumerator, the numbers beside them and at the ends of
\* their type, and the objects that were defined.
Numbers(enumeration) ==
  CASE enumeration = "FacialExpression" -> (-2)..6 \cup {int8.low, int8.high}
    [] enumeration = "ObjectFamily" -> (-2)..8 \cup {int32.low, int32.high}
    [] enumeration = "ObjectType" ->
         (-1)..7 \cup {14, int32.low, int32.high} \cup {known[i].type : i \in DOMAIN known}
    [] enumeration = "UpAxis" -> 0..8 \cup {uint8.high}
    [] enumeration = "ContentType" -> 0..10

Values(tag) ==
  IF Enumerations(tag) = <<>> THEN {<<>>}
  ELSE IF Len(Enumerations(tag)) = 1 THEN {<<n>> : n \in Numbers(Enumerations(tag)[1])}
  ELSE {<<n, 0>> : n \in Numbers(Enumerations(tag)[1])}
         \cup {<<0, n>> : n \in Numbers(Enumerations(tag)[2])}

\* One message is followed at a time, until a client was told of one.
EngineSays(tag) ==
  /\ said = <<>> /\ events = <<>> /\ forwarded = <<>> /\ told = <<>> /\ ~panicked
  /\ \E values \in Values(tag) : said' = <<[tag |-> tag, values |-> values]>>
  /\ UNCHANGED <<defined, known, events, forwarded, whiteList, blackList, told, reading,
                 panicked>>

\* What a client may ask for: any number is an enumerator of an open enumeration.
DefinitionsTried ==
  {[type |-> t, markers |-> [s \in 1..6 |-> s]] : t \in {0, 1, 2, 20, 21}}
    \cup {[type |-> 1, markers |-> [s \in 1..6 |-> (n + s) % 18]] : n \in {5, 11, 17}}
    \cup {[type |-> 1, markers |-> [s \in 1..6 |-> 65537]]}

EngineEventsInit ==
  /\ NothingSaid /\ reading = TRUE /\ panicked = FALSE
  /\ whiteList \in {<<>>, <<{"object_event"}>>}
  /\ blackList \in {<<>>, <<{"robot_observed_face"}>>}

\* The gateway does not run.
EngineEventsIdle ==
  /\ NothingSaid /\ reading = FALSE /\ panicked = TRUE
  /\ whiteList = <<>> /\ blackList = <<>>

EngineEventsNext ==
  \/ \E in \in DefinitionsTried, shape \in {"box", "cube", "wall"} : DefineCustomObject(shape, in)
  \/ \E tag \in Converted \cup PassedOn \cup {"too short", "unknown"} : EngineSays(tag)
  \/ ReadNothing \/ ProcessMessages \/ EventStream \/ TakeForwarded

-----------------------------------------------------------------------------
gw(enumeration) ==
  CASE enumeration = "FacialExpression" -> gw_FacialExpression
    [] enumeration = "ObjectFamily" -> gw_ObjectFamily
    [] enumeration = "ObjectType" -> gw_ObjectType
    [] enumeration = "UpAxis" -> gw_UpAxis
    [] enumeration = "ContentType" -> gw_ENodeContentTypeEnum

extint(enumeration) ==
  CASE enumeration = "FacialExpression" -> extint_FacialExpression
    [] enumeration = "ObjectFamily" -> extint_ObjectFamily
    [] enumeration = "ObjectType" -> extint_ObjectType
    [] enumeration = "UpAxis" -> extint_UpAxis
    [] enumeration = "ContentType" -> extint_NavNodeContentType

Named(enumerators, name) == {n \in DOMAIN enumerators : enumerators[n] = name}

\* A number that has a name keeps it wherever the other side has that name.
NameKept(from, n, to, m) ==
  n \in DOMAIN from => Named(to, from[n]) \in {{}, {m}}

\* Gateway and engine number the same enumerators differently: a client that is told
\* of an object, a face or a quad is told of the kind that the engine meant, of no kind
\* if the client's side has none, and of the custom type under which it defined the
\* object; and the engine gets the type and the sides' markers that the client meant
\* (the conversions, ProcessMessages).
ToldAsMeant ==
  /\ told # <<>> =>
       /\ \A i \in DOMAIN told[2].values :
            LET enumeration == Enumerations(told[2].tag)[i]
                meant == told[2].values[i]
                heard == told[1].values[i] IN
            /\ NameKept(gw(enumeration), meant, extint(enumeration), heard)
            /\ heard \in DOMAIN extint(enumeration) /\ extint(enumeration)[heard] # "invalid" =>
                 NameKept(extint(enumeration), heard, gw(enumeration), meant)
            /\ enumeration = "ObjectType" =>
                 \A d \in DOMAIN known : known[d].type = meant =>
                   heard - 15 = defined[d].type - 1
  /\ \A d \in DOMAIN defined :
       /\ NameKept(extint_CustomType, defined[d].type, gw_ObjectType, known[d].type)
       /\ \A s \in DOMAIN known[d].markers :
            NameKept(extint_CustomObjectMarker, defined[d].markers[s],
                     gw_CustomObjectMarker, known[d].markers[s])
=============================================================================
