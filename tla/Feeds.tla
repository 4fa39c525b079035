------------------------------- MODULE Feeds -------------------------------
(***************************************************************************)
(* The RPCs that pass images and sound from vic-engine on                  *)
(* (cloud/message_handler.go): CameraFeed and CaptureSingleImage, which    *)
(* share one camera, and AudioFeed.  A user's handler switches the source  *)
(* on, listens for its chunks, puts them together, and when it ends it     *)
(* switches the source off, for whoever else may be using it.              *)
(***************************************************************************)
EXTENDS Integers, Sequences

CONSTANTS Users,          \* those of one source
          Images,         \* how many images the engine sends, in a bounded run
          Chunks,         \* how many chunks an image has
          FeedCapacity    \* chunks a handler's channel holds, 1024 in the code

ASSUME FeedsAssumption == Images \in Nat /\ Chunks \in Nat \ {0} /\ FeedCapacity \in Nat \ {0}

VARIABLES
  rpc,         \* user -> "CameraFeed", "CaptureSingleImage" or "AudioFeed"
  stage,       \* user -> how far its handler is; when it is over: "gone" if it
               \* switched the source off, "left on" if only on, else "failed"
  answers,     \* user -> the channel for the EnableImageStreamingResponse
  awaiting,    \* the users whose answer channel is registered
  chunkBox,    \* user -> its channel of chunks
  subscribed,  \* the users whose chunk channel is registered
  cache,       \* user -> the image in progress
  fed,         \* history: user -> the chunks its handler has read
  shown,       \* user -> the images its client was sent, each as its chunks
  commands,    \* what was written to the engine and not yet read, "on" or "off"
  running,     \* TRUE while the source is on
  next         \* the engine's next chunk

userVars == <<rpc, stage, answers, awaiting>>
dataVars == <<chunkBox, subscribed, cache, fed, shown>>
sourceVars == <<commands, running, next>>
feedsVars == <<userVars, dataVars, sourceVars>>

-----------------------------------------------------------------------------
\* Putting images together.  A chunk is its image and its place in it.
ResetCache == [image |-> -1, invalid |-> FALSE, data |-> <<>>, last |-> -1]

\* The struct literal in the handlers leaves LastChunkId 0.
NewCache == [ResetCache EXCEPT !.last = 0]

\* Mutant: chunks are told apart by their place only.
UnpackAnyImageChunk(kept, chunk) ==
  LET image == chunk[1]  place == chunk[2]
      begun == IF place = 0 THEN -1 ELSE kept.image
      open == IF begun = -1 THEN [ResetCache EXCEPT !.image = image] ELSE kept IN
  IF begun = -1 /\ place # 0 THEN [kept EXCEPT !.invalid = TRUE]
  ELSE IF place # open.last + 1 THEN [ResetCache EXCEPT !.invalid = TRUE]
  ELSE [open EXCEPT !.data = Append(@, chunk), !.last = place]

\* UnpackCameraImageChunk and UnpackAudioChunk, which are the same: chunk 0
\* starts an image, whatever was in progress; any other chunk must continue it.
UnpackChunk(kept, chunk) ==
  LET image == chunk[1]  place == chunk[2]
      begun == IF place = 0 THEN -1 ELSE kept.image
      open == IF begun = -1 THEN [ResetCache EXCEPT !.image = image] ELSE kept IN
  IF begun = -1 /\ place # 0 THEN [kept EXCEPT !.invalid = TRUE]
  ELSE IF place # open.last + 1 \/ image # open.image THEN [ResetCache EXCEPT !.invalid = TRUE]
  ELSE [open EXCEPT !.data = Append(@, chunk), !.last = place]

UnpackCameraImageChunk(kept, chunk) == UnpackChunk(kept, chunk)
UnpackAudioChunk(kept, chunk) == UnpackChunk(kept, chunk)

-----------------------------------------------------------------------------
\* A user of the camera or of the microphones.
Go(u, state) == stage' = [stage EXCEPT ![u] = state]

\* AudioSendModeRequest writes; EnableImageStreaming also registers for the
\* answer, before it writes.
Switches(u, command) ==
  /\ commands' = Append(commands, command)
  /\ IF rpc[u] = "AudioFeed" THEN UNCHANGED <<answers, awaiting>>
     ELSE /\ awaiting' = awaiting \cup {u}
          /\ answers' = [answers EXCEPT ![u] = <<>>]

SwitchOn(u) ==
  /\ stage[u] = "start"
  /\ Switches(u, "on")
  /\ Go(u, IF rpc[u] = "AudioFeed" THEN "enabled" ELSE "enabling")
  /\ UNCHANGED <<rpc, dataVars, running, next>>

\* The request cannot be written: the user gets an error.
SwitchOnFails(u) ==
  /\ stage[u] = "start"
  /\ Go(u, "failed")
  /\ UNCHANGED <<rpc, answers, awaiting, dataVars, sourceVars>>

\* The first answer of the type, whoever caused it.
Answered(u, state, after) ==
  /\ stage[u] = state /\ answers[u] # <<>>
  /\ Go(u, after)
  /\ awaiting' = awaiting \ {u}
  /\ answers' = [answers EXCEPT ![u] = <<>>]
  /\ UNCHANGED <<rpc, dataVars, sourceVars>>

\* Mutant: a channel that is found closed is read again.
ReadsOn(u, state, after) ==
  /\ stage[u] = state /\ answers[u] = <<>> /\ u \notin awaiting
  /\ UNCHANGED feedsVars

\* The registry closed the channel.  When that is the answer to switching on, the
\* user gets an error and nothing is deferred yet.
Unanswered(u, state, after) ==
  /\ stage[u] = state /\ answers[u] = <<>> /\ u \notin awaiting
  /\ Go(u, after)
  /\ UNCHANGED <<rpc, answers, awaiting, dataVars, sourceVars>>

Subscribe(u) ==
  /\ stage[u] = "enabled"
  /\ Go(u, "reading")
  /\ subscribed' = subscribed \cup {u}
  /\ cache' = [cache EXCEPT ![u] = NewCache]
  /\ UNCHANGED <<rpc, answers, awaiting, chunkBox, fed, shown, sourceVars>>

\* The loop of CameraFeed and AudioFeed sends a complete image to the client and
\* ends if the client is gone by then; CaptureSingleImage returns the first one.
ReadChunk(u) ==
  /\ stage[u] = "reading" /\ chunkBox[u] # <<>>
  /\ LET chunk == Head(chunkBox[u])
         kept == IF rpc[u] = "AudioFeed" THEN UnpackAudioChunk(cache[u], chunk)
                                         ELSE UnpackCameraImageChunk(cache[u], chunk)
         ready == ~kept.invalid /\ chunk[2] = Chunks - 1 IN
       /\ chunkBox' = [chunkBox EXCEPT ![u] = Tail(@)]
       /\ fed' = [fed EXCEPT ![u] = Append(@, chunk)]
       /\ cache' = [cache EXCEPT ![u] = IF ready THEN ResetCache ELSE kept]
       /\ shown' = IF ready THEN [shown EXCEPT ![u] = Append(@, kept.data)] ELSE shown
       /\ \/ ready /\ Go(u, "leaving")
          \/ ~(ready /\ rpc[u] = "CaptureSingleImage") /\ UNCHANGED stage
  /\ UNCHANGED <<rpc, answers, awaiting, subscribed, sourceVars>>

\* "engine stream died unexpectedly"
StreamDied(u) ==
  /\ stage[u] = "reading" /\ chunkBox[u] = <<>> /\ u \notin subscribed
  /\ Go(u, "leaving")
  /\ UNCHANGED <<rpc, answers, awaiting, dataVars, sourceVars>>

Unsubscribe(u) ==
  /\ stage[u] = "leaving"
  /\ Go(u, "unsubscribed")
  /\ subscribed' = subscribed \ {u}
  /\ chunkBox' = [chunkBox EXCEPT ![u] = <<>>]
  /\ UNCHANGED <<rpc, answers, awaiting, cache, fed, shown, sourceVars>>

\* Mutant: nothing is switched off.
LeaveOn(u) ==
  /\ stage[u] = "unsubscribed"
  /\ Go(u, "gone")
  /\ UNCHANGED <<rpc, answers, awaiting, dataVars, sourceVars>>

SwitchOff(u) ==
  /\ stage[u] = "unsubscribed"
  /\ Switches(u, "off")
  /\ Go(u, IF rpc[u] = "AudioFeed" THEN "gone" ELSE "disabling")
  /\ UNCHANGED <<rpc, dataVars, running, next>>

\* The write fails, and nobody looks at the error of a deferred call.
SwitchOffFails(u) ==
  /\ stage[u] = "unsubscribed"
  /\ Go(u, "left on")
  /\ UNCHANGED <<rpc, answers, awaiting, dataVars, sourceVars>>

-----------------------------------------------------------------------------
\* vic-engine, as the handlers use it: it answers each command about the camera,
\* to every channel registered for such answers, and sends chunks while it is on.
EngineSwitches ==
  /\ commands # <<>>
  /\ commands' = Tail(commands)
  /\ running' = (Head(commands) = "on")
  /\ LET full == {u \in awaiting : answers[u] # <<>>} IN
       /\ awaiting' = awaiting \ full
       /\ answers' = [u \in Users |-> IF u \in awaiting \ full THEN <<"answer">>
                                    ELSE IF u \in full THEN <<>> ELSE answers[u]]
  /\ UNCHANGED <<rpc, stage, dataVars, next>>

FollowingChunk(chunk) ==
  IF chunk[2] = Chunks - 1 THEN <<chunk[1] + 1, 0>> ELSE <<chunk[1], chunk[2] + 1>>

EngineSends ==
  /\ running /\ next[1] < Images
  /\ next' = FollowingChunk(next)
  /\ LET full == {u \in subscribed : Len(chunkBox[u]) = FeedCapacity} IN
       /\ subscribed' = subscribed \ full
       /\ chunkBox' = [u \in Users |-> IF u \in full THEN Tail(chunkBox[u])
                                     ELSE IF u \in subscribed THEN Append(chunkBox[u], next)
                                     ELSE chunkBox[u]]
  /\ UNCHANGED <<userVars, cache, fed, shown, commands, running>>

\* A chunk does not reach the gateway.
EngineLoses ==
  /\ running /\ next[1] < Images
  /\ next' = FollowingChunk(next)
  /\ UNCHANGED <<userVars, dataVars, commands, running>>

-----------------------------------------------------------------------------
FeedsStart ==
  /\ answers = [u \in Users |-> <<>>] /\ awaiting = {}
  /\ chunkBox = [u \in Users |-> <<>>] /\ subscribed = {}
  /\ cache = [u \in Users |-> NewCache]
  /\ fed = [u \in Users |-> <<>>] /\ shown = [u \in Users |-> <<>>]
  /\ commands = <<>> /\ running = FALSE /\ next = <<0, 0>>

FeedsInit ==
  /\ rpc \in [Users -> {"CameraFeed", "CaptureSingleImage"}] \cup [Users -> {"AudioFeed"}]
  /\ stage = [u \in Users |-> "start"]
  /\ FeedsStart

FeedsIdle ==
  /\ rpc = [u \in Users |-> "AudioFeed"]
  /\ stage = [u \in Users |-> "away"]
  /\ FeedsStart

HandleFeed(u) ==
  \/ SwitchOn(u) \/ SwitchOnFails(u)
  \/ Answered(u, "enabling", "enabled") \/ Unanswered(u, "enabling", "left on")
  \/ Subscribe(u) \/ ReadChunk(u) \/ StreamDied(u) \/ Unsubscribe(u)
  \/ SwitchOff(u) \/ SwitchOffFails(u)
  \/ Answered(u, "disabling", "gone") \/ Unanswered(u, "disabling", "gone")

FeedsNext ==
  \/ \E u \in Users : HandleFeed(u)
  \/ EngineSwitches \/ EngineSends \/ EngineLoses

FeedsSpec == FeedsInit /\ [][FeedsNext]_feedsVars

\* The handlers run and the engine reads its socket; it need not send anything.
FeedsFairness ==
  /\ \A u \in Users : WF_feedsVars(HandleFeed(u))
  /\ WF_feedsVars(EngineSwitches)

-----------------------------------------------------------------------------
Stages == {"away", "start", "enabling", "enabled", "reading", "leaving", "unsubscribed",
           "disabling", "gone", "left on", "failed"}

FeedsTypeOK ==
  /\ stage \in [Users -> Stages]
  /\ awaiting \subseteq {u \in Users : stage[u] \in {"enabling", "disabling"}}
  /\ subscribed \subseteq {u \in Users : stage[u] \in {"reading", "leaving"}}
  /\ \A u \in Users : Len(answers[u]) <= 1 /\ Len(chunkBox[u]) <= FeedCapacity
  /\ next \in (0..Images) \X (0..(Chunks - 1))

ImageOf(image) == [k \in 1..Chunks |-> <<image, k - 1>>]

IsIn(chunk, chunks) == \E k \in DOMAIN chunks : chunks[k] = chunk

WholeIn(image, chunks) == \A place \in 0..(Chunks - 1) : IsIn(<<image, place>>, chunks)

\* A client is sent the images of which every chunk has arrived, each of them,
\* once and in order, and none that is put together from several or has a hole:
\* what a lost chunk costs is its own image.
ExactlyTheWholeImages ==
  \A u \in Users :
    /\ \A n \in DOMAIN shown[u] :
         \E image \in 0..(Images - 1) : shown[u][n] = ImageOf(image) /\ WholeIn(image, fed[u])
    /\ \A image \in 0..(Images - 1) :
         WholeIn(image, fed[u]) => IsIn(ImageOf(image), shown[u])
    /\ \A m, n \in DOMAIN shown[u] : m < n => shown[u][m][1][1] < shown[u][n][1][1]

\* The source is on, or will be when the engine has read its commands.
SetOn == IF commands = <<>> THEN running ELSE commands[Len(commands)] = "on"

\* The users between switching on and switching off, and those who have switched off.
Using == {u \in Users :
           stage[u] \in {"enabling", "enabled", "reading", "leaving", "unsubscribed"}}
Finished == {u \in Users : stage[u] \in {"disabling", "gone"}}

\* The commands of users that come and go at the same time leave the source on only
\* for one that uses it, or for one whose handler failed after it had switched on;
\* and under a user they switch it off only when another one has finished.
SourceFollowsUsers ==
  /\ SetOn => Using # {} \/ \E u \in Users : stage[u] = "left on"
  /\ ~SetOn => \A u \in Using : Finished \ {u} # {}

\* Switching off waits for the engine's answer without a time-out, in a deferred
\* call.  It ends all the same: by an answer, whosesoever it is, or because there
\* were so many that the registry closed the channel.
LeaverReturns ==
  \A u \in Users : (stage[u] = "leaving") ~> (stage[u] \in {"gone", "left on"})
=============================================================================
