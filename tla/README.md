# A TLA+ verification project for vector-mcp

vector-mcp is the on-robot server of Vector: one Go process (`cloud/`) that is an
MCP server on stdio, a gRPC/REST gateway for SDK clients, and a client of that
gateway itself. It talks to `vic-engine` over datagram sockets. The packages of
the older `vic-cloud` process (`internal/voice`, `internal/token`,
`internal/jdocs`, ...) are kept in the repository and are not linked into it.

## 1. Inventory

| component | state | operations | interacts with |
|---|---|---|---|
| IPC managers and listener registry, `cloud/ipc_manager.go` | `managedChannels`, `managerMutex`, one buffered channel per call | `CreateChannel`, `CreateUniqueChannel`, `deleteListenerCallback`, `SendToListeners`, `ProcessMessages`, `WriteWithID` | every RPC handler; engine, switchboard sockets |
| Gateway unary calls, `cloud/message_handler.go` | per call: a channel | about ninety calls: write and return, wait for one answer, collect a list, wait for speech to end | registry, engine |
| Camera, audio and map feeds, `message_handler.go` | per client: channels, the image or map in progress; in the engine: on or off | `CameraFeed`, `CaptureSingleImage`, `AudioFeed`, `NavMapFeed` | registry, engine, each other through the engine |
| Event stream and update status, `message_handler.go` | globals `connectionId`, `statusStreamRunning`, `lastProgress`, `lastExpected` | `EventStream`, `onDisconnect`, `StartUpdateEngine`, `UpdateStatusStream` | registry, update files |
| Behavior control, `robot.go` + `message_handler.go` | `bcStream`, `bcCancel`; per stream: `done`, connection id, response channel | `StartForegroundActivity`, `StopForegroundActivity`, `BehaviorControl` | tool calls, animation goroutines, SDK clients, engine |
| Speaker queue and stream, `audio_socket.go` + `message_handler.go` | `spkQueue`, `buffer`, `nextSeq`; per sentence: a gRPC stream | socket connections, the player, `spkPlay`, `ExternalAudioStreamPlayback` | text-to-speech processes, engine |
| Robot client link, `robot.go`, `main.go` | `conn`, `client`, `robotState` | `connect`, `ConnectWithRetry`, `eventStreamLoop`, the supervisor | gateway |
| Microphone subscriber, `audio.go` | `active`, `conn`, `done`, `lastDir` | `Start`, `Stop`, `readLoop` | vic-anim's socket, transport |
| MCP transport and tools, `transport.go`, `tools.go` | handler table, output lock, `lastAppIntent` | `Run`, `handleRequest`, `SendNotification`, forty tools | robot client, microphone |
| Rate limiters, `multilimiter.go` | token buckets | `Allow` | three handlers |
| IPC sockets and router, `internal/ipc` | reader goroutine, `kill`, `read`; `conns`; `clients` | read, write, accept, close, route | everything in `internal/` |
| Voice process and streamer, `internal/voice` | `strm`, receivers; `byteChan`, `audioStream`, `respOnce`, `closed` | hotword, audio, result, error, time-out, close | mic, AI, cloud |
| Token service, `internal/token` | request queue, current token, backoff | requests, refresh, retry | token server |
| Other services, utilities, generated code, logging | none that outlives a request | | |

What is hard here is concurrency between goroutines that share channels and
fields, and messages that may be lost, late or for somebody else: the engine's
answers carry a type but hardly ever the call they answer; the registry drops a
listener that does not read for 250 ms; clients of streams may vanish at any
time; several fields of `RobotClient` are shared without a lock. What makes each
part correct:

* registry: no send on a closed channel, no double close, the map is exact, each
  reader's messages arrive in order, whoever misses one learns of it, no sender
  and no handler waits for ever;
* behavior control: control is granted to who asked, given up by who leaves, and
  its loss is told; no tool call hangs;
* speech: sentences are spoken in order, whole, once, one at a time, and neither
  a gap nor a failing stream stops the player for good;
* unary calls: an answered call returns, and a list is whole unless another call
  asked for one at the same time;
* feeds: only whole images and maps go out, each of them, and the engine's source is on
  only for one who uses it or could not switch it off;
* event streams: reports end with the last client, are valid and never fall, whatever is
  in the files; a client is told of the events the engine meant;
* voice: each stream is answered at most once, and in the end answered or closed;
* tokens: refreshes, retries and crashes never give the robot back to an earlier user;
* sockets and messages: what is sent arrives as it was sent and in order, and closing
  ends every goroutine.

`PROJECT.json` lists the components one by one and, under `hazards`, every place
in the code where this can go wrong, with the properties that cover it.

## 2. Modules

```
Mailboxes <------- IpcListeners <--- MCIpcListeners   (IpcListeners.cfg, IpcUnique.cfg)
 (abstract)             ^       <--- MCIpcWedge       (IpcWedge.cfg)
                        +----------- IpcListenersProofs
Speech <---------- SpeakerQueue <--- MCSpeakerQueue   (SpeakerQueue.cfg)
 (abstract)             ^
                        +----------- SpeakerQueueProofs
SpeakerStream <--------------------- MCSpeakerStream  (SpeakerStream.cfg)
                <------------------- SpeakerStreamProofs
BehaviorControl   (BehaviorControl.cfg, BehaviorLeak.cfg, BehaviorKept.cfg)
                <------------------- BehaviorControlProofs

GatewayCalls, Feeds, NavMap, EventStreams <---- MCGateway  (Gateway.cfg)
     ^                                              ^
     +------- GatewayCallsProofs <-------- GatewayProofs

VoiceProcess, TokenService, RobotLink, MicAudio, IpcSockets <---- Services
     IpcSockets <----- IpcSocketsProofs             (LinkRetries.cfg, VoiceAdd.cfg)
     Dialogues <------------+                           ^        ^
     (abstract)             |                           |        |
                            +------ ServicesProofs -----+        |
ProtoParts <-- ProtoLayouts <-- ProtoMessages, CladCodec, EngineEvents <-- MCServices
                                                                  (Services.cfg)
```

An arrow points at the module that is extended or instantiated.

**Mailboxes** is what the registry promises an RPC handler: a mailbox that is
opened once and closed once, takes messages of its own kind in order up to its
capacity, and loses at most its oldest message when it is closed.

**IpcListeners** is `cloud/ipc_manager.go` at the grain of lock operations and
channel operations. `managedChannels` is the map, `writer` and `Readers` are
`managerMutex` (a Go `RWMutex`: a waiting writer keeps new readers out),
`buffer` and `closes` are the channels, `sending`, `timedOut` and `marked` are
the goroutines of one `SendToListeners` call and its `markedForDelete`. Senders
are the `ProcessMessages` loop and `UpdateStatusStream`, which calls
`SendToListeners` from a goroutine of its own. A handler may stop reading or
return at any time. The three managers repeat one code; the lines given are the
first one's.

**Speech** is in-order speech: sentences are accepted in any order; the next one
spoken is one whose number is the count of those spoken, modulo the counter's
range. **SpeakerQueue** is `listenSpeakerSocket`: a goroutine per connection
(`Receive`, `GiveUp`, `Enqueue`), the channel, and the player (`Collect` takes
one sentence and sorts, `StartPlaying` and `FinishPlaying` are the inner loop
around `spkPlay`). The sorted buffer is a set, whose `Front` is any sentence
with the least number, since `sort.Slice` is not stable.

**SpeakerStream** opens up `spkPlay`: one gRPC stream per sentence, the chunks,
the end, the drain; in the gateway one goroutine reads requests and writes them
to the engine (a step to read and a step to write, since the RPC may end between
them), another waits for the engine's responses and for `done`. `Dial` is the robot
client's first successful dial; a sentence that comes before it calls through a nil
client (`OpenPanics`). The registry
appears as `EngineResponds`: a channel that is full loses its message and is
closed; IpcListeners is where that is taken apart. Writes to the engine may
fail, streams may fail to open.

**BehaviorControl** has RobotClient's threads (the goroutine of tool calls and
those of animations) at the grain of single reads and writes of `bcStream` and
`bcCancel`, the gateway's two goroutines per stream with their deferred calls,
and SDK clients that open and close streams as they like. `heard` keeps of the
pings only one that comes before everything else, because
`StartForegroundActivity` looks at the first response alone. The engine is
modelled from how the code uses it: one connection has control; a request may be
granted or not answered; who loses control to another, or to the engine, is
told. Steps are not atomic where Go does not make them so; a thread that would
call through nil stops (`Panics`). `Jobs` says of each tool whether it gives control
back when its movement or animation is over (`"hold"`) or keeps it (`"start"`).

**GatewayCalls** first says of each RPC what its handler does, as a record: the type
of the answer, whether it registers and alone, what it may return before it asks, how
much it reads and what it returns. `DriveWheels == Tell` and so on are translations of
one handler each. The second part is the protocol for calls in progress at the same
time: `CreateChannel`, `FindTaken`/`FindFree` (the two halves of
`CreateUniqueChannel`), `Write`, `Read`, `FindClosed`, `TimeOut`, `Return`. An answer
goes to every channel of its type, whoever asked; a channel that is full loses the
answer and its oldest entry and is closed (`SendToListeners`).

**Feeds** has the handlers that switch a source of the engine on, listen for chunks,
put them together and switch it off. `UnpackChunk` is the cache of chunks with its
reset value and its different initial value. The writes that switch the source on or off
may fail (`SwitchOffFails`: the error of the deferred call is dropped). The commands to
the engine are a queue; the engine sends the chunks of one image after the other
(`next`); a chunk may be lost, be read late or find a full channel. **NavMap** is
`NavMapFeed`: three channels registered one after the other and one select over them;
`upcoming` is the engine's next message. `hurried` remembers that a message came while
the handler had another one to read.

**EventStreams** has `connectionId` with its locked write and its unlocked clearing,
and the status goroutine at the grain of reads and writes of the globals it shares
with `StartUpdateEngine`. The update files may hold any two numbers at any time, or be
missing or broken (-1), with an exit code or none; the guards on what is sent are
`CompareProgress`.

**EngineEvents** is what gateway and engine say in CLAD. A client defines custom objects;
the engine says something (`EngineSays`), `ProcessMessages` makes an event of it or hands
it on, and `EventStream` with its white or black list, or the handler that listens, tells
a client. Of a message are kept the tag and the enumerators, as numbers: both sides'
numberings are tables read off the generated code (`gw_UpAxis`, `extint_UpAxis` and so
on), and the conversions are Go's arithmetic in the types' ranges. One message is
followed at a time, until a client was told of it; the channel between, which may
overflow, is IpcListeners.

**VoiceProcess** is the loop of `Process.Run` and, per stream, the goroutines of a
Streamer: `bufferRoutine`, the transcriber, `cancelResponse`. Streams that are over may
still have results under way. **TokenService** is the queue of requests, handled one at
a time in the steps of the code: contact the server, write and rename the file, set the
token in memory, answer; beside it the refresher, `OnError` with its unlocked backoff,
and `Reboot` between any two steps, which reads the file (`ReadToken`) or removes it
because it does not parse or names no user (`RemoveToken`). **RobotLink** is the
client's connection and its supervisor, **MicAudio** the microphone subscriber, whose
readers also end when a read fails. **IpcSockets** is a datagram server with its one
reader for all peers, a handler per peer, and the peers' connections; peers may close,
lose their socket or start again, and the server may be closed at any point, in the
steps of `Close`. **Dialogues** is what they promise a peer: it reads answers to what it
asked, each at most once and in the order of the questions, and as long as nothing has
interrupted its dialogue none is left out. **CladCodec** has the layout of every CLAD
message and the generated `Size`, `Pack` and `Unpack` of each kind of field.

**ProtoParts** and **ProtoLayouts** have the layouts of the 216 protobuf messages that
a `GatewayWrapper` can hold, read off the struct tags of the generated code.
**ProtoMessages** says what the protobuf library makes of a message by its layout, and
follows one message from `WriteWithID` with its length prefix through a socket whose
reader has a buffer of a fixed size to `ProcessMessages`, which breaks down over a message
without a type (`Typeless`).

**MCGateway** and **Services** join modules that share no variable, so that one run
checks them all: an initial state chooses one subsystem, the others stay idle, and the
states are the sum and not the product; the theorems about their invariants do not use
that others are idle. **MCServices** adds the messages, whose codecs are recursive, and
EngineEvents, so that Services, which theorems are about, does not reach them. Where
components do interact, the interaction is in one module (the registry is an action in
GatewayCalls, Feeds and SpeakerStream; IpcListeners takes it apart and shows that it
implements Mailboxes).

## 3. Runs

| run | instance | shows |
|---|---|---|
| `IpcListeners` | two handlers, one of them unique, two senders, capacity 1, `markedForDelete` of 2, up to 3 messages | no panic, exact map, order, no wedge with as few listeners, nobody is locked out (sends return, handlers get the lock), a listener that misses a message is told, implementation of Mailboxes |
| `IpcUnique` | two unique handlers of one tag | **violated**: both find no listener and both register |
| `IpcWedge` | six handlers that have stalled, `markedForDelete` of 5 as in the code | **violated**: the sixth give-up blocks, with the read lock held |
| `SpeakerQueue` | five sentences numbered 0, 1, 1, 2, 3 of four numbers, channel of 2 | nothing lost, spoken in order, no jam, all spoken when no number is repeated or missing |
| `SpeakerStream` | sentences of 2, 0 and 1 chunks, three responses, one failing write | sentences do not mix and arrive whole, the player always returns, streams are freed |
| `BehaviorControl` | the tool goroutine with one stream, one SDK stream | right grants, release whoever leaves, no hang, loss is told |
| `BehaviorLeak` | the tool goroutine with two streams | **violated**: a second start leaks the first stream |
| `BehaviorKept` | the tool goroutine and one animation | **violated**: a tool call closes a playing animation's stream |
| `Gateway` | two calls of any two RPCs of one answer type, lists of two; two feeds, two images of three chunks, channel of 1; two maps of two parts; three clients out of two event streams and two updates | lists, images and maps are whole, answered calls return, the source is on only for one who uses it or could not switch it off, who leaves a feed gets away, reports end and make sense |
| `Services` | two voice streams and three chunks; two clients, two listeners and the refresher, two users, one crash; three Starts of the microphone; two peers, two messages, one restart; every CLAD and protobuf message with boundary lengths and values, a reader's buffer of 139 bytes; one custom object defined and one CLAD message with any enumerator, named or beside one | one answer per stream, the robot stays its user's, messages arrive in order and are not mistaken for others, clients are told what the engine meant, what is told to stop does |
| `LinkRetries` | as `Services`, the link alone | **violated**: after a failed handshake nobody connects again |
| `VoiceAdd` | as `Services`, the voice process alone | **violated**: samples are added to a stream whose channel is closed |

Bounds. A capacity of one makes every second message find a full channel, which
is also what most handlers ask for. Two handlers and two senders give every
pair of (register, delete, send, sweep) at once; more of them only repeat pairs,
and the theorems below hold for any number. In SpeakerQueue a repeated number, a
possible gap and a wrap fit into five sentences; with a channel of two, three
connections can find it full. In SpeakerStream a sentence of no chunks, one with
several and one after another are there; three responses fill and overflow a
channel of one and leave one for the next stream. In BehaviorControl two streams
are what it takes to grant, to lose to the other and to answer the wrong one; the
tool's second stream is in the violation runs. `SdkStreams` bounds how many
streams other clients open, `OwnStreams` how many RobotClient does,
`MaxResponses`, `MaxFailures`, `MaxSends` and `MaxNumber` what their names say.

In `Gateway`, two calls are a list that overflows (`ListCapacity` 2, three entries), a
call that takes another's answer, and two unique ones; `CallsInit` lets all calls wait
for one type, since calls of different types share nothing. Two users of one source
suffice for one to leave while the other stays, comes or fails; two images of three
chunks have a first, a middle and a last chunk to lose and an image to mix with.
`NavMapInit` starts at every point of the stream. Three clients of four are two of a
kind and one of the other. In `Services`, two streams are the current one and its
predecessor; a token's whole life (an Auth for another user in the queue behind a
refresh, a retry, a crash) needs two requests beside the refresher, which is not
bounded. Two messages are one that waits in the server's reader while the other peer
connects; with three (512 000 states) the run also passes, in twice the time. A
`BufferSize` of 139 is one that some protobuf messages fit and some exceed, by one byte
and by many. `Base = 2` makes lengths of one, two and four bytes overflow at 2, 4 and 16
elements instead of 2^8, 2^16 and 2^32; tags and widths are the code's. One defined
object (`Definitions`) is enough, since conversions keep nothing between calls; its
types and markers are the ends of the enumerations and the numbers beyond them.
`MaxConnects`, `MaxAttempts`, `MaxBoots`, `MaxAsks`, `MaxStarts` and `MaxRestarts` bound
what their names say; of `MaxAttempts` the code has ten, and of `AudioCapacity` and
`FeedCapacity` more than the runs, which only makes them full less often.

`CHECK_DEADLOCK FALSE` everywhere: once the bounded inputs are used up nothing
needs to happen any more.

Fairness. Weak fairness for every goroutine's own steps: the Go scheduler runs
what can run, and timers fire. It is never assumed that a client reads, stops or
closes, that a handler returns, that the engine answers a request (it only reads
its socket), or that anybody sends. The player's fairness in SpeakerQueue assumes
that `spkPlay` returns, which is `PlayerReturns` of SpeakerStream. The lock is
weakly fair for each waiting goroutine: a Go writer's wait ends because new readers
queue behind it. In `Gateway`
the engine reads its commands but owes no answer and no chunk. In `Services` the
loop's select is strongly fair to a stream's error: Go's select chooses at random
among what is ready, so a case that is ready again and again is taken. `TimesOut` is
weakly fair because every stream has a deadline. A socket's handlers need not answer.

Every property of a passing run has a mutant in `PROJECT.json`: a definition of
the model changed as a plausible bug would change the code, with which TLC finds
the property violated. The mutants stand in the modules beside what they change.

### What the violation runs say about the code

1. `CreateUniqueChannel` is not atomic (`ipc_manager.go:188`).
2. Six stalled listeners of one type stop all message delivery (`ipc_manager.go:244`).
3. `StartForegroundActivity` overwrites an open stream (`robot.go:466`). Control moves
   to the newer one; the older one stays open with its context, its handler and its
   listener, and nothing can close it any more.
4. Animations and tool calls share `bcStream` without a lock (`robot.go:488`).
5. `connect` leaves `conn` set when the handshake fails, and the supervisor looks only
   whether it is nil (`robot.go:122`): "will retry" does not happen.
6. `byteChan` is closed while samples may still be added (`voice/stream/context.go:39`).

### Observations

Behaviors seen while modelling which no line of the repository rules out clearly
enough to be a finding:

* Speech: a repeated speaker number, or a sender that starts over at 0, silences the
  player for good (`audio_socket.go:61`). When the registry closes the response channel
  of an audio stream, the last chunk of a sentence can reach the engine after the
  beginning of the next one (the exception in `OneAtATime`). A write that fails leaves a
  hole in a sentence and is not reported (`HeardInFull` excludes it). A sentence that
  comes before the robot client has dialled for the first time ends the process: only
  the robot client is checked for nil, not its gRPC client (`audio_socket.go:119`).
* Control: with animations running, `StopForegroundActivity` can call through a nil
  `bcStream` or `bcCancel` and end the process (`robot.go:486`). No run checks
  `NoNilCall`, which is false; the theorem `NilNeedsOverlap` says when it holds.
* Calls: two calls of one type at a time take each other's answers, and two lists mix
  (`asked = {c}` in `AnswersAreWhole`). When a channel overflows, the registry drops its
  *oldest* entry; the list that is read afterwards still fails, unless another call's
  end marker is in it. `PlayAnimationTrigger` and `PlayAnimation` report
  RESPONSE_RECEIVED as soon as they have written, although the comment at
  `message_handler.go:561` says that the former "intentionally waits".
* Feeds: a client that leaves switches the camera off for one that stays, and one whose
  write fails leaves it on for nobody (both are in `SourceFollowsUsers`, which says that
  there is no other way for source and users to disagree). A map feed that is slower
  than the engine may send a map that lacks quads or has those of two maps (`hurried`).
* Update status: two `StartUpdateEngine` calls reset and write `lastProgress` and
  `lastExpected` between each other's reads, and a client may be told 200 %
  (`disturbed` in `ReportsMakeSense`). `onDisconnect` clears `connectionId` without
  the lock.
* Link: when the event stream ends, nobody starts its loop again; after a supervised
  connect two loops read (`loops + 2`).
* Events: a CLAD `Event` becomes an event without a type, over which any white or black
  list breaks down (`message_handler.go:979`), and so does the reader of the engine's
  protobuf socket over a message without a type (`ipc_manager.go:271`). A request of a
  client with a number that is no enumerator is converted all the same: custom type 21
  becomes a fixed obstacle, marker 65537 becomes CIRCLES_2.
* Voice: when `Run` returns it closes channels that streams may be sending results on
  (`ResultPanics`). After a hotword that was no good, the stream that was closed for it
  may still answer.
* Tokens: two services that notice a denial at once both pass the check for a backoff;
  the goroutine of the second reads the backoff after the first has reset it
  (`StartRetrying` needs it set; the code would break down). A request sent when the
  queue has ended waits for ever.
* Sockets: one handler that does not read stops the reader for all peers. A peer that
  starts again is not told apart from its earlier life and may be sent the answer to a
  question that one asked. `WriteWithID` (`ipc_manager.go:118`) sends a length of
  16 bits without a check, and texts with a 32-bit length are not checked either.
  `internal/ipc/multi`, which nothing uses, would read from closed channels when closed.

## 4. Proofs

Every invariant, action property and refinement that a passing run checks, but for the
messages', is also a theorem, for every value of the constants, from the assumptions
named in the modules only. All have one form: an inductive invariant, one lemma per
action (or per group of actions that do the same to it), and the property as a
consequence. TLC has checked the inductive invariants on the runs' instances.

Of what the violation runs refute, two properties are theorems under the condition that
excludes the counterexample; it is a hypothesis of the theorem, which the code does not
guarantee, and says what the code would have to do: `WedgeNeedsManyListeners` (at no
time have more handlers of one tag a channel than `markedForDelete` holds) and
`UniqueNeedsOneLock`. Two more theorems are about the threads that share `bcStream`,
under the hypothesis that `StartForegroundActivity` and `StopForegroundActivity` do not
overlap, as if a lock were around them: `NilNeedsOverlap` and `LeakIsSecondStart`.
Leaves that a prover needs long for name it with a limit (`SMTT(40)`, `ZenonT(60)`), so
that the proofs do not depend on a fast machine.

* **IpcListeners.** `IInv` joins `TypeOK`, `RegistryIsExact` and `NoPanic` with what
  ties the goroutines together. `SenderBook`: a channel that is still being sent to is
  listed under the sender's tag, because deleting needs the write lock and the sender
  holds the read lock, and what a sender is doing says which of its sets are not empty.
  `FreshChannels`: a channel never registered is open and empty. From it follow
  `TypeCorrect`, `NeverPanics` and `RegistryCorrect`. `RegistryIsExact` alone is not
  inductive: without the link between `sending` and the map, a close could hit a channel
  that is being sent to. `WedgeNeedsManyListeners` adds `MarkBook`, which says that what
  a sender has given up on, marked and still has to send to are disjoint sets of
  channels of its tag, and shows that no sender is stuck if at no time more than
  `MarkCapacity` channels of a tag are registered (`FewListen`), however many come and
  go: the bound in `IpcWedge` is sharp. `FedInOrderAlways` adds `OrderBook`: of each
  sender, the messages in a channel are consecutive numbers after the last one taken, up
  to the last one sent, unless the channel has missed one, and then the sender has it
  marked or it is closed. `Refinement` maps each step to a mailbox step or a stutter.
  `UniqueNeedsOneLock` assumes that no unique channel's handler looks for listeners
  between another one's look and its registration (`ChecksApart`, a restriction of
  steps); inductive is then that of the unique channels of a tag only one has looked and
  found none, or is listed (`ClaimedOnce`), which deleting cannot break.
* **SpeakerQueue.** `IInv` joins `TypeOK` with `Counts` (`nextSeq` is the number of
  sentences played, modulo `Modulus`, and the sentence being played carries it),
  `Apart` (no sentence is twice in a place or in two of the four) and `Accounted`
  (the four places hold exactly the sentences that went into the channel).
  `NoSentenceLost` turns this into "exactly one
  place", `Refinement` into in-order speech, whatever the order of arrival and also
  when the counter wraps.
* **SpeakerStream.** `RpcBook` says when an RPC may have ended: `spkPlay` goes on only
  after that, and `OneAtATime` follows (`StreamsDoNotMix`). `AlwaysInFull` needs
  `InTransit`: of a sentence that nothing harmed, what has been sent is what has been
  written, then the request the handler holds, then what is on its way, message by
  message; the request handler is done only when the end is all there is left. The
  number of parts written is the cardinality of the places in `written`.
* **BehaviorControl.** `GrantIsReal` says something about the thread that was granted
  control; inductive is that every grant on its way, in the engine's socket, in a
  handler's channel or on a stream, is one the engine gave (`GrantsOnTheWay`).
  `ReleaseFollows`, about the order of two messages in a queue, is inductive with
  the types. The two
  theorems about `bcStream` assume `OneCall`: at most one thread is inside
  `StartForegroundActivity` or `StopForegroundActivity`. Animations may hold control
  between their two calls, start it while a tool holds it, and stop what the tool
  started. Then `bcStream` and `bcCancel` are set and cleared together but for named
  places of the one call (`FieldsAgree`), and no thread calls through nil
  (`NilNeedsOverlap`); and every step that leaves a stream of RobotClient's open and out
  of reach is the step that stores a second one over it (`LeakIsSecondStart`, an action
  property): of the ways to lose a stream, `BehaviorLeak` shows the only one that a lock
  would leave.
* **GatewayCalls.** Requests are `WellFormed`, handler by handler. `CallBook` ties a
  handler's place to what it has registered; `Undisturbed`: what it has read, has in its
  channel and has yet to get from the engine is, put together, one answer; and once its
  channel has overflowed, the end of the answer, which comes last, is lost.
  `AnswersAlwaysWhole` is what remains of that when the handler has returned.
* **Feeds, NavMap, EventStreams.** `ImagesAlwaysExact`: chunks may be lost but not
  overtake each other (`ChunksInOrder`), the image in progress is the beginning of one
  of which all chunks were read (`Begun`), and the images sent are exactly the whole
  ones among the chunks read. `SourceAlwaysFollows`: the last command not yet read, or
  what the source is set to, is what counts (`LastCommandCounts`), and every step of a
  user changes it together with the users' stages. `MapsAlwaysWhole`: while every
  message finds the handler waiting, at most one message is on its way and what is
  pending is all of its map before it (`TakenInTurn`). `ReportsAlwaysMakeSense`, an
  action property: a request that overlaps with no other has the globals to itself, and
  at each place of its goroutine they hold what it has put there (`Shares`); what is in
  the files is any pair of numbers, and the guards keep back those that make no sense.
  `GatewayCorrect` puts the four components together.
* **VoiceProcess.** The stream that the loop listens to is later than all answered ones,
  and an answer ends it; `Buffers` bounds what a stream's channels hold.
* **TokenService.** At most one request is being handled (`OneHandled`), and what it
  carries belongs, place by place, to the user whom the last Auth stored a token for,
  unless it is an Auth itself (`CarriesItsUser`). `UserSticks` without these is not
  inductive: a request begun before an Auth would store an old user's token after it.
  `OnlyAuthsChangeTheUser` says the same of steps and without the history variable: the
  file gets a token of another user only from an Auth for that user, loses one only when
  a start finds the file broken, and the memory only ever becomes the file's. It needs
  besides that an Auth names an owner (`AuthsName`).
* **IpcSockets.** `ArrivesInOrder` has two halves. For the order alone, the numbers of a
  peer's messages fall all the way from the socket over the handler and the inbox to
  what was heard (`InOrder`); this survives restarts, since numbers go on. That nothing
  is lost while server and connection last (`NothingLost`) needs who is known to the
  reader: a message that waits is of a peer that has been added to `clients` or whose
  connection packet is before it (`Known`), so the reader does not drop it; the packet of
  a new peer is not dropped either (`Reaching`), and a peer that never dialled has
  nothing anywhere (`Strangers`). Then the waiting numbers are an interval, and the one
  read next is its first. `Refinement` maps the sockets to Dialogues: a peer's dialogue is
  intact while nobody has started again, the server is open and its connection is open or
  not yet made (`Intact`); sending is asking, reading from the connection is reading the
  answer, whatever makes `Intact` smaller is an interruption, and every other step is a
  stutter. It needs that no connect is among what is answered (`OnlyMessages`) and
  that no step makes a dialogue intact again (`IntactShrinks`).
* **RobotLink, MicAudio.** Their types: a loop reads only an open connection, since
  `ConnectWithRetry` runs only without one (`LinkIInv`). `ServicesCorrect` puts the five
  services together.

Sequences. A theorem about all sequences by induction is out of the prover's reach. The
properties that speak of order (`FedInOrder`, `HeardInFull`, `ExactlyTheWholeImages`,
`MapsAreWhole`, `ArrivesInOrder`, `AnsweredOnce`) are therefore stated by places, and so
are their invariants: what `Append` and `Tail` do to a place is all that is used.

The theorems are about each component's own specification (`CallsSpec`, `FeedsSpec`,
`NavMapSpec`, `EventsSpec`, `VoiceProcessSpec`, `TokenSpec`, `SocketsSpec`, and `Spec`
of the first four modules) and about the compositions `GatewaySpec` and
`ServicesSpec`.

Only model-checked: all liveness (it rests on fairness), and what becomes of messages
(`NoneIsMistaken`): CladCodec and ProtoMessages are recursive over data of any depth,
and what EngineEvents adds (`ToldAsMeant`) is about tables of which TLC looks at every
entry. The proofs say nothing about Go's memory model: accesses to shared fields are
single steps.

## 5. Not modelled, and why

* The REST gateway and the gRPC service code (`external_interface.pb.gw.go`, the
  service part of `external_interface.pb.go`), the messages that only gRPC carries and
  vision's, and the vendored C++ logging: tables for a library and copies of other
  projects. Of the generated messages that go to the engine, the layouts are modelled: a
  layout stands for its message's type with the struct tags and for the methods that
  hand that type to golang/protobuf, and for nothing else: getters, the wrapper types of
  a `oneof`, descriptors and the generated functions for a `oneof` are not mapped
  (golang/protobuf v1.5.4 does not call the latter but encodes as they do). The
  definitions here stand for about three tenths of the implementation's lines, more than
  half of them generated.
* Conversions between protobuf and CLAD that copy one field after another: a property of
  a copy restates it. Those of enumerators and events are in EngineEvents.
* How `isMember` finds an event's name by reflection: a filter is a set of types.
* What the managers for `vic-switchboard` and for CLAD do when they connect, and the two
  messages that the former answers by itself.
* Start-up of TLS, gRPC, REST and flags; certificates and serial numbers: file reads.
* Rate limiters: real-valued time in an external package, and no promise about them.
* MCP transport and tools: a request is decoded and passed to a vendored library; what
  the tools share is in BehaviorControl and RobotLink.
* Movements: real-valued arithmetic; their use of control is in BehaviorControl, tool by
  tool. `AssumeBehaviorControl` (its stream never asks for a release and its
  `done` is never closed) and an SDK client's explicit release are left out. Writes
  that fail are modelled for requests (`ReadError`), not for the final release.
* `internal/ipc/multi` (used by nothing), the UDP, stream and seqpacket variants of the
  sockets, and `serverConn.Close`, which only tests call.
* The cache of STS tokens, recording of speech to files, the streaming routines that
  are commented out (`connectFn`).
* JSON documents, log collector and offboard vision keep nothing between requests;
  their server is IpcSockets, their messages are in CladCodec.

## 6. Plan

Done: all modules above; theorems for every invariant and every action property of the
passing runs, for the refinements of Mailboxes, Speech and Dialogues, and for the
conditions under which counterexamples of three violation runs cannot occur, or only as
the run shows them.
TLC has checked on the runs' instances what the theorems add to the runs' properties
(`UserChanges`, the refinement of Dialogues).

What is left:

1. Conditions for the other violation runs. For `VoiceAdd` there is little to say
   (samples can be added as long as the stream's context has not ended), for
   `BehaviorKept` it is that nobody else uses control during an animation, and
   `LinkRetries` is about liveness, which stays with TLC.
2. Frames of ProtoMessages whose length does not depend on recursion (the prefix and the
   truncating reader).
3. Rate limiters and the tools' handler table, if they come to promise something.
