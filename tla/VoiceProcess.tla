---------------------------- MODULE VoiceProcess ----------------------------
(***************************************************************************)
(* The voice service: Process.Run in internal/voice/process.go, one loop   *)
(* that takes messages of the microphone and results of streams, and the   *)
(* goroutines of a Streamer in internal/voice/stream: bufferRoutine, the   *)
(* transcribing one started by init, and cancelResponse.  The stream       *)
(* before the current one may still have results under way.  Each message  *)
(* of the loop is one step, save adding samples, which waits for the       *)
(* stream's bufferRoutine.  Samples come in chunks of the size that is     *)
(* streamed; the recognised text stands for the intent.  connectFn and the *)
(* routines after it are commented out in the source: no stream opens,     *)
(* CloseSend has nothing to close, respOnce is used by one goroutine.      *)
(***************************************************************************)
EXTENDS Naturals, Sequences, FiniteSets

CONSTANTS MaxStreams,     \* how many streams are made
          MaxChunks,      \* how many chunks of samples the microphone sends
          AudioCapacity   \* of audioStream: 10

ASSUME VoiceAssumption == MaxStreams \in Nat /\ MaxChunks \in Nat /\ AudioCapacity \in Nat \ {0}

Strms == 1..MaxStreams

VARIABLES
  loop,         \* the process: "selecting", "adding", "returned" or "panicked"
  strm,         \* the current stream, 0 for none
  made,         \* how many streams have been made
  check,        \* the streams that are connection checks
  closed,       \* the streams closed by the loop
  ended,        \* the streams whose context is done
  byteChan,     \* stream -> its channel for samples: "open" or "closed"
  audioBuf,     \* stream -> chunks in bufferRoutine's buffer
  audioStream,  \* stream -> chunks in the channel to the transcriber
  hearing,      \* stream -> its transcriber: "listening", "sending" a result, "done"
  cancelling,   \* stream -> its cancelResponse: "waiting", "sending" an error, "done"
  answers,      \* the streams whose result or error went out, in order
  spoken,       \* how many chunks the microphone has sent
  stopping      \* Run's context is cancelled

streamVars == <<byteChan, audioBuf, audioStream, hearing, cancelling>>
voiceVars == <<loop, strm, made, check, closed, ended, streamVars, answers, spoken, stopping>>

Selecting == loop = "selecting"

Closing(s) ==
  /\ closed' = closed \cup ({s} \ {0})
  /\ ended' = ended \cup ({s} \ {0})

NewStream(isCheck) ==
  /\ made < MaxStreams
  /\ made' = made + 1
  /\ strm' = made + 1
  /\ check' = IF isCheck THEN check \cup {made + 1} ELSE check

\* A hotword or a connection check ends the current stream and makes a new one.
GotHotword ==
  /\ Selecting
  /\ Closing(strm)
  /\ NewStream(FALSE)
  /\ UNCHANGED <<loop, streamVars, answers, spoken, stopping>>

GotConnectionCheck ==
  /\ Selecting
  /\ Closing(strm)
  /\ NewStream(TRUE)
  /\ UNCHANGED <<loop, streamVars, answers, spoken, stopping>>

\* A hotword with an unknown mode or locale: the AI gets InvalidConfig, and strm
\* stays, though it is closed.
GotBadHotword ==
  /\ Selecting
  /\ Closing(strm)
  /\ UNCHANGED <<loop, strm, made, check, streamVars, answers, spoken, stopping>>

\* A connection check takes no samples, and without a stream they are discarded.
GotAudio ==
  /\ Selecting /\ spoken < MaxChunks
  /\ spoken' = spoken + 1
  /\ loop' = IF strm # 0 /\ strm \notin check THEN "adding" ELSE loop
  /\ UNCHANGED <<strm, made, check, closed, ended, streamVars, answers, stopping>>

\* A send on a closed channel.
AddPanics ==
  /\ loop = "adding" /\ byteChan[strm] = "closed"
  /\ loop' = "panicked"
  /\ UNCHANGED <<strm, made, check, closed, ended, streamVars, answers, spoken, stopping>>

Answer(s) ==
  /\ answers' = Append(answers, s)
  /\ Closing(s)
  /\ strm' = 0

\* Mutant: results of any stream count.
TakeIntentOfAny(s) ==
  /\ Selecting /\ hearing[s] = "sending"
  /\ hearing' = [hearing EXCEPT ![s] = "done"]
  /\ Answer(s)
  /\ UNCHANGED <<loop, made, check, byteChan, audioBuf, audioStream, cancelling, spoken, stopping>>

\* The results of streams other than the current one are dropped.
TakeIntent(s) ==
  /\ Selecting /\ hearing[s] = "sending"
  /\ hearing' = [hearing EXCEPT ![s] = "done"]
  /\ IF s = strm THEN Answer(s) ELSE UNCHANGED <<strm, closed, ended, answers>>
  /\ UNCHANGED <<loop, made, check, byteChan, audioBuf, audioStream, cancelling, spoken, stopping>>

TakeError(s) ==
  /\ Selecting /\ cancelling[s] = "sending"
  /\ cancelling' = [cancelling EXCEPT ![s] = "done"]
  /\ IF s = strm THEN Answer(s) ELSE UNCHANGED <<strm, closed, ended, answers>>
  /\ UNCHANGED <<loop, made, check, byteChan, audioBuf, audioStream, hearing, spoken, stopping>>

\* The service is stopped: its context and those of its streams end.
Cancel ==
  /\ ~stopping
  /\ stopping' = TRUE
  /\ ended' = Strms
  /\ UNCHANGED <<loop, strm, made, check, closed, streamVars, answers, spoken>>

\* Run returns and closes the channels of results.
StopRun ==
  /\ Selecting /\ stopping
  /\ loop' = "returned"
  /\ UNCHANGED <<strm, made, check, closed, ended, streamVars, answers, spoken, stopping>>

\* Whoever waits to hand over a result sends on a closed channel.
ResultPanics(s) ==
  /\ loop = "returned" /\ (hearing[s] = "sending" \/ cancelling[s] = "sending")
  /\ loop' = "panicked"
  /\ UNCHANGED <<strm, made, check, closed, ended, streamVars, answers, spoken, stopping>>

-----------------------------------------------------------------------------
Alive(s) == s <= made /\ loop # "panicked"

\* bufferRoutine: takes samples, passes a chunk on, or ends and closes both channels.
BufferTakes(s) ==
  /\ Alive(s) /\ byteChan[s] = "open"
  /\ loop = "adding" /\ strm = s
  /\ loop' = "selecting"
  /\ audioBuf' = [audioBuf EXCEPT ![s] = @ + 1]
  /\ UNCHANGED <<strm, made, check, closed, ended, byteChan, audioStream, hearing, cancelling,
                 answers, spoken, stopping>>

BufferPasses(s) ==
  /\ Alive(s) /\ byteChan[s] = "open"
  /\ audioBuf[s] > 0 /\ audioStream[s] < AudioCapacity
  /\ audioBuf' = [audioBuf EXCEPT ![s] = @ - 1]
  /\ audioStream' = [audioStream EXCEPT ![s] = @ + 1]
  /\ UNCHANGED <<loop, strm, made, check, closed, ended, byteChan, hearing, cancelling,
                 answers, spoken, stopping>>

\* Mutant: the buffer is not emptied with the routine that owns it.
BufferEndsFull(s) ==
  /\ Alive(s) /\ byteChan[s] = "open" /\ s \in ended
  /\ byteChan' = [byteChan EXCEPT ![s] = "closed"]
  /\ UNCHANGED <<loop, strm, made, check, closed, ended, audioBuf, audioStream, hearing,
                 cancelling, answers, spoken, stopping>>

BufferEnds(s) ==
  /\ Alive(s) /\ byteChan[s] = "open" /\ s \in ended
  /\ byteChan' = [byteChan EXCEPT ![s] = "closed"]
  /\ audioBuf' = [audioBuf EXCEPT ![s] = 0]
  /\ UNCHANGED <<loop, strm, made, check, closed, ended, audioStream, hearing, cancelling,
                 answers, spoken, stopping>>

\* vtr.Process recognises something or not.  What is left in the channel when it
\* is closed is still transcribed.
Transcribe(s) ==
  /\ Alive(s) /\ hearing[s] = "listening" /\ audioStream[s] > 0
  /\ audioStream' = [audioStream EXCEPT ![s] = @ - 1]
  /\ \E recognised \in BOOLEAN :
       hearing' = IF recognised THEN [hearing EXCEPT ![s] = "sending"] ELSE hearing
  /\ UNCHANGED <<loop, strm, made, check, closed, ended, byteChan, audioBuf, cancelling,
                 answers, spoken, stopping>>

TranscribeEnds(s) ==
  /\ Alive(s) /\ hearing[s] = "listening" /\ audioStream[s] = 0 /\ byteChan[s] = "closed"
  /\ hearing' = [hearing EXCEPT ![s] = "done"]
  /\ UNCHANGED <<loop, strm, made, check, closed, ended, byteChan, audioBuf, audioStream,
                 cancelling, answers, spoken, stopping>>

TimesOut(s) ==
  /\ Alive(s) /\ s \notin ended
  /\ ended' = ended \cup {s}
  /\ UNCHANGED <<loop, strm, made, check, closed, streamVars, answers, spoken, stopping>>

\* Mutant: the end of the context goes unnoticed.
CancelResponseQuietly(s) ==
  /\ Alive(s) /\ cancelling[s] = "waiting" /\ s \in ended
  /\ cancelling' = [cancelling EXCEPT ![s] = "done"]
  /\ UNCHANGED <<loop, strm, made, check, closed, ended, byteChan, audioBuf, audioStream,
                 hearing, answers, spoken, stopping>>

\* The context is done: closed tells whether the loop did it.
CancelResponse(s) ==
  /\ Alive(s) /\ cancelling[s] = "waiting" /\ s \in ended
  /\ cancelling' = [cancelling EXCEPT ![s] = IF s \in closed THEN "done" ELSE "sending"]
  /\ UNCHANGED <<loop, strm, made, check, closed, ended, byteChan, audioBuf, audioStream,
                 hearing, answers, spoken, stopping>>

-----------------------------------------------------------------------------
VoiceStart ==
  /\ strm = 0 /\ made = 0 /\ check = {} /\ closed = {}
  /\ byteChan = [s \in Strms |-> "open"]
  /\ audioBuf = [s \in Strms |-> 0] /\ audioStream = [s \in Strms |-> 0]
  /\ hearing = [s \in Strms |-> "listening"] /\ cancelling = [s \in Strms |-> "waiting"]
  /\ answers = <<>> /\ spoken = 0

VoiceInit == loop = "selecting" /\ stopping = FALSE /\ ended = {} /\ VoiceStart

\* The service is not running.
VoiceIdle == loop = "returned" /\ stopping = TRUE /\ ended = Strms /\ VoiceStart

HandleStream(s) ==
  \/ TakeIntent(s) \/ TakeError(s) \/ ResultPanics(s)
  \/ BufferTakes(s) \/ BufferPasses(s) \/ BufferEnds(s)
  \/ Transcribe(s) \/ TranscribeEnds(s) \/ TimesOut(s) \/ CancelResponse(s)

VoiceNext ==
  \/ GotHotword \/ GotConnectionCheck \/ GotBadHotword \/ GotAudio \/ AddPanics
  \/ Cancel \/ StopRun
  \/ \E s \in Strms : HandleStream(s)

\* Goroutines run, deadlines pass, and the loop's select, which chooses at random,
\* comes to a stream's results however much else there is to take.
VoiceFairness ==
  /\ WF_voiceVars(AddPanics) /\ WF_voiceVars(StopRun)
  /\ \A s \in Strms :
       /\ WF_voiceVars(BufferTakes(s)) /\ WF_voiceVars(TimesOut(s))
       /\ WF_voiceVars(CancelResponse(s)) /\ SF_voiceVars(TakeError(s))

VoiceProcessSpec == VoiceInit /\ [][VoiceNext]_voiceVars

-----------------------------------------------------------------------------
VoiceTypeOK ==
  /\ loop \in {"selecting", "adding", "returned", "panicked"}
  /\ strm \in 0..made /\ made \in 0..MaxStreams /\ spoken \in 0..MaxChunks
  /\ check \subseteq 1..made /\ closed \subseteq ended /\ ended \subseteq Strms
  /\ hearing \in [Strms -> {"listening", "sending", "done"}]
  /\ cancelling \in [Strms -> {"waiting", "sending", "done"}]
  /\ \A s \in Strms :
       /\ byteChan[s] = "open" \/ (s \in ended /\ audioBuf[s] = 0)
       /\ audioBuf[s] \in 0..MaxChunks /\ audioStream[s] \in 0..AudioCapacity

\* The engine acts on every answer: each stream has one at most, recognised
\* text or time-out, although both may be under way at once, and none comes for
\* an earlier stream after a later one was begun.
AnsweredOnce ==
  /\ \A i \in 1..(Len(answers) - 1) : answers[i] < answers[i + 1]
  /\ strm # 0 => \A i \in DOMAIN answers : answers[i] < strm

\* Every stream is answered, or closed by what comes after it, unless the
\* service is stopped or breaks down.
StreamAnswered ==
  \A s \in Strms :
    (strm = s) ~> (s \in closed \/ stopping \/ loop = "panicked")

\* "the main routine can always add bytes to the current buffer without stalling"
\* (bufferRoutine): while samples are added, the buffer is there.
CanAlwaysAdd == loop = "adding" => byteChan[strm] = "open"
=============================================================================
