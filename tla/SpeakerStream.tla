--------------------------- MODULE SpeakerStream ---------------------------
(***************************************************************************)
(* How the sentences of the speaker queue get to the robot: for each of    *)
(* them spkPlay (cloud/audio_socket.go) opens a gRPC stream to the gateway *)
(* in the same process, sends it in chunks, closes it and waits for its    *)
(* end.  The gateway's ExternalAudioStreamPlayback                         *)
(* (cloud/message_handler.go) writes the chunks to vic-engine in one       *)
(* goroutine and passes the engine's responses back in another.  The       *)
(* listener registry is that of IpcListeners with a buffer of one.         *)
(***************************************************************************)
EXTENDS Naturals, Sequences, FiniteSets

CONSTANTS Sentences,     \* how many sentences the queue hands over
          Chunks,        \* sentence -> number of chunks
          MaxResponses,  \* bound: the responses the engine sends
          MaxFailures    \* bound: the writes to the engine that fail

Number == 1..Sentences

ASSUME StreamAssumption ==
  /\ Sentences \in Nat
  /\ Chunks \in [Number -> Nat]
  /\ MaxResponses \in Nat /\ MaxFailures \in Nat

VARIABLES
  dialled,    \* whether the robot client's connect has ever made a connection
  current,    \* the sentence spkPlay plays or played last
  player,     \* what spkPlay is doing
  left,       \* chunks of the current sentence still to be sent
  up,         \* sentence -> what is on its way to the gateway
  reader,     \* sentence -> state of ExternalAudioStreamRequestHandler
  request,    \* sentence -> the request its request handler is to write
  responder,  \* sentence -> state of ExternalAudioStreamResponseHandler
  listening,  \* sentences whose response channel is registered
  inbox,      \* sentence -> number of responses in that channel
  written,    \* history: what was written to the engine, with the sentence
  failures,   \* history: sentences a write failed for, as often as it did
  cut,        \* history: sentences whose channel the registry closed
  responses   \* how many responses the engine sent

playerVars  == <<dialled, current, player, left>>
handlerVars == <<reader, request, responder, listening, inbox>>
engineVars  == <<written, failures, cut, responses>>
vars == <<playerVars, up, handlerVars, engineVars>>

Requests == {"prepare", "chunk", "complete"}

\* The client's end sees the end of the RPC.
Ended(n) == responder[n] = "returned"

-----------------------------------------------------------------------------
\* The robot client's first grpc.DialContext that succeeds sets its client.  The
\* speaker socket listens whether or not that has happened, or ever does.
Dial ==
  /\ ~dialled /\ player # "panicked"
  /\ dialled' = TRUE
  /\ UNCHANGED <<current, player, left, up, handlerVars, engineVars>>

\* spkPlay looks whether there is a robot client and not whether that has a gRPC
\* client: a sentence that comes before the first dial ends the process.
OpenPanics ==
  /\ player = "idle" /\ current < Sentences /\ ~dialled
  /\ player' = "panicked"
  /\ UNCHANGED <<dialled, current, left, up, handlerVars, engineVars>>

\* spkPlay.
Open ==
  /\ player = "idle" /\ current < Sentences /\ dialled
  /\ current' = current + 1
  /\ left' = Chunks[current + 1]
  /\ player' = "preparing"
  /\ UNCHANGED <<dialled, up, handlerVars, engineVars>>

\* No stream: spkPlay returns, the sentence is not heard.
OpenFails ==
  /\ player = "idle" /\ current < Sentences /\ dialled
  /\ current' = current + 1
  /\ responder' = [responder EXCEPT ![current + 1] = "returned"]
  /\ reader' = [reader EXCEPT ![current + 1] = "refused"]
  /\ UNCHANGED <<dialled, player, left, up, request, listening, inbox, engineVars>>

\* Send of the generated client.  After the end of the RPC it does not arrive,
\* and fails once the client has learnt of the end.
Send(m) ==
  up' = IF Ended(current) THEN up ELSE [up EXCEPT ![current] = Append(@, m)]

SendPrepare ==
  /\ player = "preparing"
  /\ Send("prepare")
  /\ player' = "sending"
  /\ UNCHANGED <<dialled, current, left, handlerVars, engineVars>>

SendChunk ==
  /\ player = "sending" /\ left > 0
  /\ Send("chunk")
  /\ left' = left - 1
  /\ UNCHANGED <<dialled, current, player, handlerVars, engineVars>>

\* A chunk that cannot be sent ends the call.
SendFails ==
  /\ player = "sending" /\ left > 0 /\ Ended(current)
  /\ player' = "closing"
  /\ UNCHANGED <<dialled, current, left, up, handlerVars, engineVars>>

\* Mutant: the loop ends before a last chunk that is not full.
SendCompleteEarly ==
  /\ player = "sending" /\ left <= 1
  /\ Send("complete")
  /\ player' = "closing"
  /\ UNCHANGED <<dialled, current, left, handlerVars, engineVars>>

\* Then it sleeps until the sentence must be over.
SendComplete ==
  /\ player = "sending" /\ left = 0
  /\ Send("complete")
  /\ player' = "closing"
  /\ UNCHANGED <<dialled, current, left, handlerVars, engineVars>>

\* Mutant: the stream is not closed.
NoCloseSend ==
  /\ player = "closing"
  /\ player' = "draining"
  /\ UNCHANGED <<dialled, current, left, up, handlerVars, engineVars>>

CloseSend ==
  /\ player = "closing"
  /\ Send("end")
  /\ player' = "draining"
  /\ UNCHANGED <<dialled, current, left, handlerVars, engineVars>>

\* Mutant: spkPlay returns without waiting for recvDone.
ReturnUndrained ==
  /\ player = "draining"
  /\ player' = "idle"
  /\ UNCHANGED <<dialled, current, left, up, handlerVars, engineVars>>

\* <-recvDone: the draining goroutine's Recv() failed.
Drained ==
  /\ player = "draining" /\ Ended(current)
  /\ player' = "idle"
  /\ UNCHANGED <<dialled, current, left, up, handlerVars, engineVars>>

-----------------------------------------------------------------------------
\* ExternalAudioStreamPlayback and its two goroutines.
Accept(n) ==
  /\ n <= current /\ responder[n] = "none"
  /\ listening' = listening \cup {n}
  /\ responder' = [responder EXCEPT ![n] = "running"]
  /\ reader' = [reader EXCEPT ![n] = "reading"]
  /\ UNCHANGED <<playerVars, up, request, inbox, engineVars>>

Read(n) ==
  /\ reader[n] = "reading" /\ up[n] # <<>> /\ Head(up[n]) # "end"
  /\ up' = [up EXCEPT ![n] = Tail(@)]
  /\ request' = [request EXCEPT ![n] = Head(up[n])]
  /\ reader' = [reader EXCEPT ![n] = "writing"]
  /\ UNCHANGED <<playerVars, responder, listening, inbox, engineVars>>

\* Mutant: an error of Recv() is logged and the loop goes on.
KeepReading(n) ==
  /\ reader[n] = "reading" /\ up[n] # <<>> /\ Head(up[n]) = "end"
  /\ up' = [up EXCEPT ![n] = Tail(@)]
  /\ UNCHANGED <<playerVars, handlerVars, engineVars>>

\* in.Recv() fails: the client closed its end, or the RPC has ended, whatever
\* was still to be read.  done is closed.
ReadEnd(n) ==
  /\ reader[n] = "reading"
  /\ (up[n] # <<>> /\ Head(up[n]) = "end") \/ Ended(n)
  /\ reader' = [reader EXCEPT ![n] = "done"]
  /\ UNCHANGED <<playerVars, up, request, responder, listening, inbox, engineVars>>

Write(n) ==
  /\ reader[n] = "writing"
  /\ written' = Append(written, <<request[n], n>>)
  /\ reader' = [reader EXCEPT ![n] = "reading"]
  /\ UNCHANGED <<playerVars, up, request, responder, listening, inbox,
                 failures, cut, responses>>

\* It is logged; the next request is written all the same.
WriteFails(n) ==
  /\ reader[n] = "writing" /\ Len(failures) < MaxFailures
  /\ failures' = Append(failures, n)
  /\ reader' = [reader EXCEPT ![n] = "reading"]
  /\ UNCHANGED <<playerVars, up, request, responder, listening, inbox,
                 written, cut, responses>>

\* The draining goroutine takes whatever is sent.
Respond(n) ==
  /\ responder[n] = "running" /\ inbox[n] > 0
  /\ inbox' = [inbox EXCEPT ![n] = @ - 1]
  /\ UNCHANGED <<playerVars, up, reader, request, responder, listening, engineVars>>

\* done was closed, or the registry closed the channel.
EndResponses(n) ==
  /\ responder[n] = "running"
  /\ reader[n] = "done" \/ (n \notin listening /\ inbox[n] = 0)
  /\ responder' = [responder EXCEPT ![n] = "leaving"]
  /\ UNCHANGED <<playerVars, up, reader, request, listening, inbox, engineVars>>

\* The deferred delete-listener call; then the RPC ends.
Return(n) ==
  /\ responder[n] = "leaving"
  /\ responder' = [responder EXCEPT ![n] = "returned"]
  /\ listening' = listening \ {n}
  /\ inbox' = [inbox EXCEPT ![n] = 0]
  /\ UNCHANGED <<playerVars, up, reader, request, engineVars>>

-----------------------------------------------------------------------------
\* Mutant: a full channel is written to again.
EngineRespondsBeyond ==
  /\ written # <<>> /\ responses < MaxResponses
  /\ responses' = responses + 1
  /\ inbox' = [n \in Number |-> IF n \in listening THEN inbox[n] + 1 ELSE inbox[n]]
  /\ UNCHANGED <<playerVars, up, reader, request, responder, listening,
                 written, failures, cut>>

\* A response of the engine, and SendToListeners with it: channels with room
\* get it, those that stay full are emptied, closed and off the list.
EngineResponds ==
  /\ written # <<>> /\ responses < MaxResponses
  /\ responses' = responses + 1
  /\ inbox' = [n \in Number |-> IF n \in listening /\ inbox[n] = 0 THEN 1
                                ELSE IF n \in listening THEN 0 ELSE inbox[n]]
  /\ cut' = cut \cup {n \in listening : inbox[n] > 0}
  /\ listening' = {n \in listening : inbox[n] = 0}
  /\ UNCHANGED <<playerVars, up, reader, request, responder, written, failures>>

-----------------------------------------------------------------------------
Init ==
  /\ dialled \in BOOLEAN /\ current = 0 /\ player = "idle" /\ left = 0
  /\ up = [n \in Number |-> <<>>]
  /\ reader = [n \in Number |-> "none"]
  /\ request = [n \in Number |-> "prepare"]
  /\ responder = [n \in Number |-> "none"]
  /\ listening = {}
  /\ inbox = [n \in Number |-> 0]
  /\ written = <<>> /\ failures = <<>> /\ cut = {} /\ responses = 0

PlayerStep ==
  \/ Open \/ OpenFails \/ OpenPanics
  \/ SendPrepare \/ SendChunk \/ SendFails \/ SendComplete \/ CloseSend \/ Drained

ReaderStep(n) == Read(n) \/ ReadEnd(n) \/ Write(n) \/ WriteFails(n)

ResponderStep(n) == Accept(n) \/ Respond(n) \/ EndResponses(n) \/ Return(n)

Next ==
  \/ Dial \/ PlayerStep
  \/ \E n \in Number : ReaderStep(n) \/ ResponderStep(n)
  \/ EngineResponds

Spec == Init /\ [][Next]_vars

\* Every goroutine that can run does.  The engine need not respond, nor the gateway
\* answer the first dial.
Fairness ==
  /\ WF_vars(PlayerStep)
  /\ \A n \in Number : WF_vars(ReaderStep(n)) /\ WF_vars(ResponderStep(n))

FairSpec == Spec /\ Fairness

-----------------------------------------------------------------------------
TypeOK ==
  /\ dialled \in BOOLEAN /\ current \in 0..Sentences
  /\ player \in {"idle", "preparing", "sending", "closing", "draining", "panicked"}
  /\ left \in Nat
  /\ up \in [Number -> Seq(Requests \cup {"end"})]
  /\ reader \in [Number -> {"none", "refused", "reading", "writing", "done"}]
  /\ request \in [Number -> Requests]
  /\ responder \in [Number -> {"none", "running", "leaving", "returned"}]
  /\ listening \subseteq Number
  /\ inbox \in [Number -> {0, 1}]
  /\ written \in Seq(Requests \X Number)
  /\ failures \in Seq(Number)
  /\ cut \subseteq Number
  /\ responses \in 0..MaxResponses

\* A stream "must close cleanly before next sentence creates a new stream":
\* nothing of a sentence is written to the engine after something of the next
\* one, unless the registry closed the sentence's response channel: then its
\* RPC ends while the request handler may still hold a chunk.
OneAtATime ==
  \A i, j \in DOMAIN written :
    (i < j /\ written[j][2] < written[i][2]) => written[j][2] \in cut

\* The i-th request of sentence n, and how many of the first j that were written
\* are of sentence n.
Part(n, i) ==
  IF i = 1 THEN "prepare" ELSE IF i <= Chunks[n] + 1 THEN "chunk" ELSE "complete"

CountOf(n, j) == Cardinality({i \in 1..j : written[i][2] = n})

\* When spkPlay has returned, the engine has been sent the whole sentence, in
\* order and with its end, if no write failed and the stream was not cut off.
\* The next sentence may start at once.
HeardInFull ==
  \A n \in Number :
    (/\ n < current \/ (n = current /\ player = "idle")
     /\ reader[n] # "refused" /\ n \notin cut /\ \A i \in DOMAIN failures : failures[i] # n)
    => /\ CountOf(n, Len(written)) = Chunks[n] + 2
       /\ \A j \in DOMAIN written :
            written[j][2] = n => written[j][1] = Part(n, CountOf(n, j))

\* "Drain responses in background to prevent engine IPC channel deadlock": the
\* player comes back from every sentence it opened a stream for, also when its
\* stream ends early.
PlayerReturns == player \notin {"idle", "panicked"} ~> player = "idle"

\* Nothing of a stream is left behind in the gateway: both goroutines end and
\* the channel is off the list.
StreamFreed ==
  \A n \in Number :
    reader[n] = "reading" ~> (reader[n] = "done" /\ Ended(n) /\ n \notin listening)
=============================================================================
