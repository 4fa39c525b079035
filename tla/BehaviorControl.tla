-------------------------- MODULE BehaviorControl --------------------------
(***************************************************************************)
(* Control of the robot's behaviors: RobotClient acquires and releases it  *)
(* (cloud/robot.go) over a gRPC stream to the gateway in the same process, *)
(* whose BehaviorControl handler (cloud/message_handler.go) relays it to   *)
(* vic-engine.  Other SDK clients use the same handler.  Every stream has  *)
(* a connection id of its own; a stream stands for its id.                 *)
(* The engine's answers reach every stream through the listener registry,  *)
(* whose channels are those of IpcListeners with a buffer of one.          *)
(***************************************************************************)
EXTENDS Naturals, Sequences

CONSTANTS Tool,         \* the goroutine running tool calls, one at a time
          Animations,   \* goroutines of PlayAnimationCancelPrev
          OwnStreams,   \* the streams RobotClient opens, in a bounded run
          SdkStreams,   \* those of other clients
          None          \* no stream

Threads == {Tool} \cup Animations
Streams == OwnStreams \cup SdkStreams

ASSUME ControlAssumption ==
  /\ Tool \notin Animations
  /\ OwnStreams \cap SdkStreams = {}
  /\ None \notin Streams

VARIABLES
  client,      \* stream -> "unused", "open" or "closed", at the client's end
  up,          \* stream -> requests on their way to the gateway
  heard,       \* stream -> responses its client was sent, until it closes; of
               \* the pings only one that comes first
  pc,          \* thread -> what it is doing
  job,         \* thread -> which call it is in, or None
  mine,        \* thread -> the stream its StartForegroundActivity opened
  bcStream,    \* RobotClient.bcStream, shared by the threads without a lock
  bcCancel,    \* RobotClient.bcCancel, likewise: the stream it cancels
  reader,      \* stream -> state of BehaviorControlRequestHandler
  responder,   \* stream -> state of BehaviorControlResponseHandler
  listening,   \* streams whose response channel is registered
  inbox,       \* stream -> the response channel, with room for one
  toEngine, fromEngine,   \* the socket, both directions
  holder,      \* the connection the engine gave control to, or None
  granted      \* history: connections that ever had control

clientVars  == <<client, up, heard>>
threadVars  == <<pc, job, mine, bcStream, bcCancel>>
handlerVars == <<reader, responder, listening, inbox>>
engineVars  == <<toEngine, fromEngine, holder, granted>>
vars == <<clientVars, threadVars, handlerVars, engineVars>>

-----------------------------------------------------------------------------
\* Clients.

\* A client opens a stream, each at most once, and sends its request for control.
Open(k) ==
  /\ client[k] = "unused"
  /\ client' = [client EXCEPT ![k] = "open"]
  /\ up' = [up EXCEPT ![k] = <<"request">>]

\* It cancels the stream's context and reads no more.
Close(k) ==
  /\ client' = [client EXCEPT ![k] = "closed"]
  /\ heard' = [heard EXCEPT ![k] = <<>>]

SdkOpens(k) ==
  /\ k \in SdkStreams /\ Open(k)
  /\ UNCHANGED <<heard, threadVars, handlerVars, engineVars>>

SdkCloses(k) ==
  /\ k \in SdkStreams /\ client[k] = "open"
  /\ Close(k)
  /\ UNCHANGED <<up, threadVars, handlerVars, engineVars>>

\* The calls of RobotClient that take control stop again when the movement or the
\* animation is over ("hold"); a movement that is too small takes none.
DriveStraightTimed == "hold"
TurnInPlaceTimed == "hold"
MoveHeadTimed == "hold"
MoveLiftTimed == "hold"
PlayAnimationCancelPrev == "hold"

\* The tools that use them, and robot_activity_start, which only takes control.
handleDriveStraight == DriveStraightTimed
handleTurnInPlace == TurnInPlaceTimed
handleSetHeadAngle == MoveHeadTimed
handleSetLiftHeight == MoveLiftTimed
handleDriveOffCharger == DriveStraightTimed
handlePlayAnimation == PlayAnimationCancelPrev
handleActivityStart == "start"

\* An animation has a goroutine of its own.
Jobs(t) ==
  IF t = Tool
  THEN {handleDriveStraight, handleTurnInPlace, handleSetHeadAngle, handleSetLiftHeight,
        handleDriveOffCharger, handleActivityStart}
  ELSE {handlePlayAnimation}

StartForegroundActivity(t, j) ==
  /\ pc[t] = "idle" /\ j \in Jobs(t)
  /\ \E k \in OwnStreams : Open(k) /\ mine' = [mine EXCEPT ![t] = k]
  /\ pc' = [pc EXCEPT ![t] = "receiving"]
  /\ job' = [job EXCEPT ![t] = j]
  /\ UNCHANGED <<heard, bcStream, bcCancel, handlerVars, engineVars>>

ReturnTo(t, state) ==
  /\ pc' = [pc EXCEPT ![t] = state]
  /\ job' = IF state = "idle" THEN [job EXCEPT ![t] = None] ELSE job
  /\ mine' = IF state = "idle" THEN [mine EXCEPT ![t] = None] ELSE mine

\* The first response decides; later ones are drained.
ReceiveGrant(t) ==
  /\ pc[t] = "receiving"
  /\ heard[mine[t]] # <<>> /\ Head(heard[mine[t]]) = "granted"
  /\ ReturnTo(t, "storing stream")
  /\ UNCHANGED <<clientVars, bcStream, bcCancel, handlerVars, engineVars>>

\* Anything else, a ping included, or the end of the stream is a failure.
ReceiveOther(t) ==
  /\ pc[t] = "receiving"
  /\ \/ heard[mine[t]] # <<>> /\ Head(heard[mine[t]]) # "granted"
     \/ heard[mine[t]] = <<>> /\ responder[mine[t]] = "returned"
  /\ Close(mine[t])
  /\ ReturnTo(t, "idle")
  /\ UNCHANGED <<up, bcStream, bcCancel, handlerVars, engineVars>>

StoreStream(t) ==
  /\ pc[t] = "storing stream"
  /\ bcStream' = mine[t]
  /\ ReturnTo(t, "storing cancel")
  /\ UNCHANGED <<clientVars, bcCancel, handlerVars, engineVars>>

StoreCancel(t) ==
  /\ pc[t] = "storing cancel"
  /\ bcCancel' = mine[t]
  /\ ReturnTo(t, IF job[t] = "hold" THEN "working" ELSE "idle")
  /\ UNCHANGED <<clientVars, bcStream, handlerVars, engineVars>>

\* StopForegroundActivity: called by robot_activity_end, or deferred by a
\* movement or an animation that is over.
Stop(t) ==
  /\ pc[t] = "working" \/ (t = Tool /\ pc[t] = "idle")
  /\ pc' = [pc EXCEPT ![t] = "stopping"]
  /\ UNCHANGED <<clientVars, job, mine, bcStream, bcCancel, handlerVars, engineVars>>

CheckStream(t) ==
  /\ pc[t] = "stopping"
  /\ ReturnTo(t, IF bcStream = None THEN "idle" ELSE "sending release")
  /\ UNCHANGED <<clientVars, bcStream, bcCancel, handlerVars, engineVars>>

\* The fields are read again; a call through a nil one ends the process.  Here
\* the thread stops.
Panics(t) == \/ pc[t] = "sending release" /\ bcStream = None
             \/ pc[t] = "cancelling" /\ bcCancel = None

SendRelease(t) ==
  /\ pc[t] = "sending release" /\ bcStream # None
  /\ up' = IF client[bcStream] = "open" THEN [up EXCEPT ![bcStream] = Append(@, "release")]
                                        ELSE up
  /\ ReturnTo(t, "cancelling")
  /\ UNCHANGED <<client, heard, bcStream, bcCancel, handlerVars, engineVars>>

Cancel(t) ==
  /\ pc[t] = "cancelling" /\ bcCancel # None
  /\ Close(bcCancel)
  /\ ReturnTo(t, "clearing stream")
  /\ UNCHANGED <<up, bcStream, bcCancel, handlerVars, engineVars>>

ClearStream(t) ==
  /\ pc[t] = "clearing stream"
  /\ bcStream' = None
  /\ ReturnTo(t, "clearing cancel")
  /\ UNCHANGED <<clientVars, bcCancel, handlerVars, engineVars>>

ClearCancel(t) ==
  /\ pc[t] = "clearing cancel"
  /\ bcCancel' = None
  /\ ReturnTo(t, "idle")
  /\ UNCHANGED <<clientVars, bcStream, handlerVars, engineVars>>

-----------------------------------------------------------------------------
\* The gateway's handlers.

\* BehaviorControl registers the response channel and then starts the request
\* handler.
Accept(k) ==
  /\ client[k] # "unused" /\ responder[k] = "none"
  /\ listening' = listening \cup {k}
  /\ responder' = [responder EXCEPT ![k] = "running"]
  /\ reader' = [reader EXCEPT ![k] = "reading"]
  /\ UNCHANGED <<clientVars, threadVars, inbox, engineVars>>

ReadRequest(k) ==
  /\ reader[k] = "reading" /\ up[k] # <<>>
  /\ up' = [up EXCEPT ![k] = Tail(@)]
  /\ toEngine' = Append(toEngine, <<Head(up[k]), k>>)
  /\ UNCHANGED <<client, heard, threadVars, handlerVars,
                 fromEngine, holder, granted>>

\* Mutant: on an error the loop goes on with the next request.
ReadErrorContinues(k) ==
  /\ reader[k] = "reading" /\ up[k] # <<>>
  /\ up' = [up EXCEPT ![k] = <<>>]
  /\ UNCHANGED <<client, heard, threadVars, handlerVars, engineVars>>

\* The request cannot be written, or in.Recv() fails: when the client is gone,
\* whatever was still on its way, and when the response handler has returned.
ReadError(k) ==
  /\ reader[k] = "reading"
  /\ up[k] # <<>> \/ client[k] = "closed" \/ responder[k] = "returned"
  /\ up' = [up EXCEPT ![k] = <<>>]
  /\ reader' = [reader EXCEPT ![k] = "releasing"]
  /\ UNCHANGED <<client, heard, threadVars, responder, listening, inbox,
                 engineVars>>

\* Mutant: nothing is deferred but close(done).
EndWithoutRelease(k) ==
  /\ reader[k] = "releasing"
  /\ reader' = [reader EXCEPT ![k] = "done"]
  /\ UNCHANGED <<clientVars, threadVars, responder, listening, inbox, engineVars>>

\* The deferred calls: the release is written, and then done is closed.
Release(k) ==
  /\ reader[k] = "releasing"
  /\ toEngine' = Append(toEngine, <<"release", k>>)
  /\ reader' = [reader EXCEPT ![k] = "done"]
  /\ UNCHANGED <<clientVars, threadVars, responder, listening, inbox,
                 fromEngine, holder, granted>>

\* Mutant: answers to other connections are passed on.
ForAnybody(k) == inbox[k] # <<>>

ForMe(k) == inbox[k] # <<>> /\ Head(inbox[k])[2] = k

\* The response handler's select.  Sending to a client that is gone fails.
Respond(k) ==
  /\ responder[k] = "running" /\ inbox[k] # <<>>
  /\ inbox' = [inbox EXCEPT ![k] = Tail(@)]
  /\ heard' = IF ForMe(k) /\ client[k] = "open"
                THEN [heard EXCEPT ![k] = Append(@, Head(inbox[k])[1])] ELSE heard
  /\ responder' = IF ForMe(k) /\ client[k] = "closed"
                    THEN [responder EXCEPT ![k] = "leaving"] ELSE responder
  /\ UNCHANGED <<client, up, threadVars, reader, listening, engineVars>>

\* Mutant: the ticker starts with the first answer to the stream.
PingLater(k) ==
  /\ responder[k] = "running" /\ client[k] = "open" /\ heard[k] # <<>>
  /\ Head(heard[k]) # "keepAlive"
  /\ heard' = [heard EXCEPT ![k] = <<"keepAlive">>]
  /\ UNCHANGED <<client, up, threadVars, handlerVars, engineVars>>

\* Once a second.  Of the pings that arrive only the first response counts.
Ping(k) ==
  /\ responder[k] = "running" /\ client[k] = "open" /\ heard[k] = <<>>
  /\ heard' = [heard EXCEPT ![k] = <<"keepAlive">>]
  /\ UNCHANGED <<client, up, threadVars, handlerVars, engineVars>>

\* A ping finds the client gone, done was closed, or the registry has closed
\* the channel.
EndResponses(k) ==
  /\ responder[k] = "running"
  /\ \/ client[k] = "closed"
     \/ reader[k] = "done"
     \/ k \notin listening /\ inbox[k] = <<>>
  /\ responder' = [responder EXCEPT ![k] = "leaving"]
  /\ UNCHANGED <<clientVars, threadVars, reader, listening, inbox, engineVars>>

\* The deferred delete-listener call; then the RPC ends.
Return(k) ==
  /\ responder[k] = "leaving"
  /\ responder' = [responder EXCEPT ![k] = "returned"]
  /\ listening' = listening \ {k}
  /\ inbox' = [inbox EXCEPT ![k] = <<>>]
  /\ UNCHANGED <<clientVars, threadVars, reader, engineVars>>

-----------------------------------------------------------------------------
\* Mutant: a channel that missed an answer stays on the list.
PropagateForgiving ==
  /\ fromEngine # <<>>
  /\ fromEngine' = Tail(fromEngine)
  /\ inbox' = [k \in Streams |-> IF k \in listening /\ inbox[k] = <<>>
                                   THEN <<Head(fromEngine)>> ELSE inbox[k]]
  /\ UNCHANGED <<clientVars, threadVars, reader, responder, listening,
                 toEngine, holder, granted>>

\* Mutant: a full channel is written to again.
PropagateBeyond ==
  /\ fromEngine # <<>>
  /\ fromEngine' = Tail(fromEngine)
  /\ inbox' = [k \in Streams |-> IF k \in listening THEN Append(inbox[k], Head(fromEngine))
                                                   ELSE inbox[k]]
  /\ UNCHANGED <<clientVars, threadVars, reader, responder, listening,
                 toEngine, holder, granted>>

\* SendToListeners with one answer of the engine, seen from its end: channels
\* with room have got it, those that stayed full are emptied, closed and off
\* the list.  IpcListeners has it step by step.
Propagate ==
  /\ fromEngine # <<>>
  /\ fromEngine' = Tail(fromEngine)
  /\ inbox' = [k \in Streams |-> IF k \in listening /\ inbox[k] = <<>>
                                   THEN <<Head(fromEngine)>>
                                 ELSE IF k \in listening THEN <<>> ELSE inbox[k]]
  /\ listening' = {k \in listening : inbox[k] = <<>>}
  /\ UNCHANGED <<clientVars, threadVars, reader, responder, toEngine, holder, granted>>

-----------------------------------------------------------------------------
\* vic-engine, as the code in src/ uses it: one connection at a time has
\* control; it is told when it gets control and when it loses it to another.
Losing == IF holder = None THEN <<>> ELSE <<<<"lost", holder>>>>

EngineGrants(k) ==
  /\ toEngine # <<>> /\ Head(toEngine) = <<"request", k>>
  /\ toEngine' = Tail(toEngine)
  /\ holder' = k
  /\ granted' = granted \cup {k}
  /\ fromEngine' = fromEngine \o Losing \o <<<<"granted", k>>>>
  /\ UNCHANGED <<clientVars, threadVars, handlerVars>>

EngineIgnores(k) ==
  /\ toEngine # <<>> /\ Head(toEngine) = <<"request", k>>
  /\ toEngine' = Tail(toEngine)
  /\ UNCHANGED <<clientVars, threadVars, handlerVars, fromEngine, holder, granted>>

EngineReleases(k) ==
  /\ toEngine # <<>> /\ Head(toEngine) = <<"release", k>>
  /\ toEngine' = Tail(toEngine)
  /\ holder' = IF holder = k THEN None ELSE holder
  /\ UNCHANGED <<clientVars, threadVars, handlerVars, fromEngine, granted>>

\* The engine needs control for itself.
EngineReclaims ==
  /\ holder # None
  /\ holder' = None
  /\ fromEngine' = fromEngine \o Losing
  /\ UNCHANGED <<clientVars, threadVars, handlerVars, toEngine, granted>>

-----------------------------------------------------------------------------
Init ==
  /\ client = [k \in Streams |-> "unused"]
  /\ up = [k \in Streams |-> <<>>]
  /\ heard = [k \in Streams |-> <<>>]
  /\ pc = [t \in Threads |-> "idle"]
  /\ job = [t \in Threads |-> None]
  /\ mine = [t \in Threads |-> None]
  /\ bcStream = None /\ bcCancel = None
  /\ reader = [k \in Streams |-> "none"]
  /\ responder = [k \in Streams |-> "none"]
  /\ listening = {}
  /\ inbox = [k \in Streams |-> <<>>]
  /\ toEngine = <<>> /\ fromEngine = <<>>
  /\ holder = None /\ granted = {}

ThreadStep(t) ==
  \/ \E j \in {"start", "hold"} : StartForegroundActivity(t, j)
  \/ ReceiveGrant(t) \/ ReceiveOther(t) \/ StoreStream(t) \/ StoreCancel(t)
  \/ Stop(t)
  \/ CheckStream(t) \/ SendRelease(t) \/ Cancel(t) \/ ClearStream(t) \/ ClearCancel(t)

HandlerStep(k) ==
  \/ Accept(k)
  \/ ReadRequest(k) \/ ReadError(k) \/ Release(k)
  \/ Respond(k) \/ Ping(k) \/ EndResponses(k) \/ Return(k)

EngineStep ==
  \/ \E k \in Streams : EngineGrants(k) \/ EngineIgnores(k) \/ EngineReleases(k)
  \/ EngineReclaims

Next ==
  \/ \E t \in Threads : ThreadStep(t)
  \/ \E k \in Streams : SdkOpens(k) \/ SdkCloses(k) \/ HandlerStep(k)
  \/ Propagate
  \/ EngineStep

Spec == Init /\ [][Next]_vars

\* Goroutines that can run do run, the ticker ticks and the engine reads its
\* socket.  No client is obliged to open, to stop or to close a stream.
Fairness ==
  /\ \A t \in Threads :
       WF_vars(\/ ReceiveGrant(t) \/ ReceiveOther(t) \/ StoreStream(t) \/ StoreCancel(t)
               \/ CheckStream(t) \/ SendRelease(t) \/ Cancel(t)
               \/ ClearStream(t) \/ ClearCancel(t))
  /\ \A k \in Streams :
       /\ WF_vars(ReadRequest(k) \/ ReadError(k) \/ Release(k))
       /\ WF_vars(Accept(k) \/ Respond(k) \/ Ping(k) \/ EndResponses(k) \/ Return(k))
  /\ WF_vars(Propagate)
  /\ WF_vars(\E k \in Streams : EngineGrants(k) \/ EngineIgnores(k) \/ EngineReleases(k))

FairSpec == Spec /\ Fairness

-----------------------------------------------------------------------------
TypeOK ==
  /\ client \in [Streams -> {"unused", "open", "closed"}]
  /\ up \in [Streams -> Seq({"request", "release"})]
  /\ heard \in [Streams -> Seq({"granted", "lost", "keepAlive"})]
  /\ pc \in [Threads -> {"idle", "receiving", "storing stream", "storing cancel",
                         "working", "stopping", "sending release", "cancelling",
                         "clearing stream", "clearing cancel"}]
  /\ job \in [Threads -> {"start", "hold", None}]
  /\ mine \in [Threads -> Streams \cup {None}]
  /\ bcStream \in Streams \cup {None} /\ bcCancel \in Streams \cup {None}
  /\ reader \in [Streams -> {"none", "reading", "releasing", "done"}]
  /\ responder \in [Streams -> {"none", "running", "leaving", "returned"}]
  /\ listening \subseteq Streams
  /\ inbox \in [Streams -> Seq({"granted", "lost"} \X Streams)]
  /\ \A k \in Streams : Len(inbox[k]) <= 1
  /\ toEngine \in Seq({"request", "release"} \X Streams)
  /\ fromEngine \in Seq({"granted", "lost"} \X Streams)
  /\ holder \in Streams \cup {None}
  /\ granted \subseteq Streams

\* StartForegroundActivity succeeds only for a stream the engine gave control
\* to: neither another connection's grant nor a ping is taken for its own.
GrantIsReal ==
  \A t \in Threads :
    pc[t] \in {"storing stream", "storing cancel", "working"} => mine[t] \in granted

\* Once a request handler is done, however its client went away, the engine
\* has got or will get a release after everything that stream asked for: no
\* control is left with a connection nobody reads from.
ReleaseFollows ==
  \A k \in Streams :
    (reader[k] = "done"
       /\ (holder = k \/ \E i \in DOMAIN toEngine : toEngine[i] = <<"request", k>>))
      => \E i \in DOMAIN toEngine :
           /\ toEngine[i] = <<"release", k>>
           /\ \A n \in DOMAIN toEngine : toEngine[n] = <<"request", k>> => n < i

\* No tool call and no animation brings the process down by a call through
\* bcStream or bcCancel after another call has cleared them.  It is not so when
\* two calls overlap, as they may with animations; BehaviorControlProofs shows
\* that it takes that.
NoNilCall == \A t \in Threads : ~Panics(t)

\* StartForegroundActivity does not wait for ever, though it has no timeout and
\* the engine may never answer: the gateway's ping ends it.
StartReturns ==
  \A t \in Threads : (pc[t] = "receiving") ~> (pc[t] # "receiving")

\* When its client closes a stream, in whatever state it is, both goroutines of
\* the handler end and the engine takes control back.
ClosedIsReleased ==
  \A k \in Streams : (client[k] = "closed") ~>
    (responder[k] = "returned" /\ reader[k] = "done" /\ holder # k)

\* ControlGrantedResponse: "Until a ControlLostResponse is received, they are
\* directly in control".  Who loses control is told so, or its stream ends,
\* although the answer goes through a channel that may be full.
LossIsTold ==
  \A k \in Streams : (k \in granted /\ holder # k) ~>
    \/ \E i \in DOMAIN heard[k] : heard[k][i] = "lost"
    \/ responder[k] = "returned"
    \/ client[k] # "open"

\* PlayAnimationCancelPrev: "BC is held in background for duration": nobody else
\* ends the stream of an animation that is playing.
HeldForDuration ==
  \A t \in Animations : pc[t] = "working" => client[mine[t]] = "open"

\* StopForegroundActivity "releases behavior control": when no call is running
\* and bcStream is nil, so that a further call releases nothing, no stream of
\* RobotClient is open any more, whether the engine has since given control to
\* a later one or not.
NothingLeftOpen ==
  ((\A t \in Threads : pc[t] = "idle") /\ bcStream = None) =>
    \A k \in OwnStreams : client[k] # "open"
=============================================================================
