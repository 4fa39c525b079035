--------------------------- MODULE ServicesProofs ---------------------------
(***************************************************************************)
(* Theorems about the services beside the gateway, for any constants: the  *)
(* voice process and the token service, the client's link, the microphone, *)
(* and all of them with the sockets, whose invariant is in                 *)
(* IpcSocketsProofs.                                                       *)
(***************************************************************************)
EXTENDS Services, IpcSocketsProofs

\* The voice process and its streams, for any number of streams and of chunks, and
\* any capacity of a stream's channel.

\* The loop's own variables, and those of the streams' goroutines.
LoopType ==
  /\ loop \in {"selecting", "adding", "returned", "panicked"}
  /\ made \in 0..MaxStreams /\ strm \in 0..made /\ spoken \in 0..MaxChunks
  /\ check \subseteq 1..made /\ closed \subseteq ended /\ ended \subseteq Strms

StreamType ==
  /\ byteChan \in [Strms -> {"open", "closed"}]
  /\ audioBuf \in [Strms -> Nat] /\ audioStream \in [Strms -> 0..AudioCapacity]
  /\ hearing \in [Strms -> {"listening", "sending", "done"}]
  /\ cancelling \in [Strms -> {"waiting", "sending", "done"}]

\* A buffer has no more than the microphone has sent, and one less while samples
\* are being added; it goes with its routine, which ends with its context.
Buffers ==
  \A s \in Strms :
    /\ audioBuf[s] <= spoken
    /\ loop = "adding" => audioBuf[s] < spoken
    /\ byteChan[s] = "closed" => s \in ended /\ audioBuf[s] = 0

\* Answers are of streams that have been made.
AnswerType == answers \in Seq(1..made)

\* The inductive invariant of the voice process.
VoiceIInv == LoopType /\ StreamType /\ Buffers /\ AnswerType /\ AnsweredOnce

-----------------------------------------------------------------------------
\* What the loop does to the answers: nothing, while the current stream stays or
\* is replaced by one that has just been made; or it adds the current stream to
\* them and has none any more.
LEMMA AnswersStayInOrder ==
  ASSUME AnswerType, AnsweredOnce, strm \in 0..made, made \in Nat,
         made' \in Nat, made' >= made,
         \/ answers' = answers /\ strm' \in {0, strm, made + 1}
         \/ strm # 0 /\ answers' = Append(answers, strm) /\ strm' = 0
  PROVE  AnswerType' /\ AnsweredOnce'
<1>1. /\ Len(answers) \in Nat /\ DOMAIN answers = 1..Len(answers)
      /\ \A i \in 1..Len(answers) : answers[i] \in 1..made
  BY DEF AnswerType
<1>2. CASE answers' = answers /\ strm' \in {0, strm, made + 1}
  <2>1. AnswerType'
    <3>1. 1..made \subseteq 1..made'
      OBVIOUS
    <3>2. Seq(1..made) \subseteq Seq(1..made')
      BY <3>1
    <3> QED
      BY <1>2, <3>2 DEF AnswerType
  <2>2. \A i \in 1..Len(answers) : answers[i] < made + 1
    BY <1>1
  <2>3. strm' # 0 => \A i \in DOMAIN answers : answers[i] < strm'
    BY <1>1, <1>2, <2>2 DEF AnsweredOnce
  <2>4. AnsweredOnce'
    BY <1>2, <2>3 DEF AnsweredOnce
  <2> QED
    BY <2>1, <2>4
<1>3. CASE strm # 0 /\ answers' = Append(answers, strm) /\ strm' = 0
  <2>1. strm \in 1..made /\ \A x \in 1..made : x \in 1..made'
    BY <1>3
  <2>2. /\ answers' \in Seq(1..made)
        /\ Len(answers') = Len(answers) + 1
        /\ \A i \in 1..Len(answers) : answers'[i] = answers[i]
        /\ answers'[Len(answers) + 1] = strm
    BY <1>3, <2>1 DEF AnswerType
  <2>3. AnswerType'
    BY <2>1, <2>2 DEF AnswerType
  <2>4. \A i \in 1..Len(answers) : answers[i] < strm
    BY <1>1, <1>3 DEF AnsweredOnce
  <2>5. ASSUME NEW i \in 1..(Len(answers') - 1) PROVE answers'[i] < answers'[i + 1]
    <3>1. CASE i = Len(answers)
      BY SMTT(40), <1>1, <2>2, <2>4, <3>1
    <3>2. CASE i # Len(answers)
      <4>1. i \in 1..(Len(answers) - 1) /\ i \in 1..Len(answers) /\ i + 1 \in 1..Len(answers)
        <5>1. PICK n \in Nat : n = Len(answers)
          BY <1>1
        <5>2. Len(answers') - 1 = n
          BY <2>2, <5>1
        <5>3. i \in 1..n /\ i # n
          BY <3>2, <5>1, <5>2
        <5> QED
          BY <5>1, <5>3
      <4>2. answers[i] < answers[i + 1]
        BY <4>1 DEF AnsweredOnce
      <4> QED
        BY <2>2, <4>1, <4>2
    <3> QED
      BY <3>1, <3>2
  <2> QED
    BY <1>3, <2>3, <2>5 DEF AnsweredOnce
<1> QED
  BY <1>2, <1>3

LEMMA VoiceInitIInv == VoiceInit \/ VoiceIdle => VoiceIInv
<1> SUFFICES ASSUME VoiceInit \/ VoiceIdle PROVE VoiceIInv
  OBVIOUS
<1>1. LoopType /\ StreamType /\ Buffers
  BY VoiceAssumption DEF VoiceInit, VoiceIdle, VoiceStart, LoopType, StreamType, Buffers
<1>2. AnswerType /\ AnsweredOnce
  <2>1. strm = 0 /\ answers = <<>>
    BY DEF VoiceInit, VoiceIdle, VoiceStart
  <2> QED
    BY <2>1 DEF AnswerType, AnsweredOnce
<1> QED
  BY <1>1, <1>2 DEF VoiceIInv

\* Steps of the loop that answer nothing.
LEMMA LoopIInv ==
  ASSUME VoiceIInv,
         \/ GotHotword \/ GotConnectionCheck \/ GotBadHotword \/ GotAudio \/ AddPanics
         \/ Cancel \/ StopRun
  PROVE  VoiceIInv'
<1>1. UNCHANGED <<streamVars, answers>>
  BY DEF GotHotword, GotConnectionCheck, GotBadHotword, GotAudio, AddPanics, Cancel, StopRun
<1>2. made \in Nat /\ strm \in 0..made /\ made' \in Nat /\ made' >= made
      /\ strm' \in {0, strm, made + 1}
  BY VoiceAssumption DEF VoiceIInv, LoopType, GotHotword, GotConnectionCheck, GotBadHotword, GotAudio,
     AddPanics, Cancel, StopRun, NewStream
<1>3. AnswerType' /\ AnsweredOnce'
  BY <1>1, <1>2, AnswersStayInOrder DEF VoiceIInv
<1>4. StreamType'
  BY <1>1 DEF VoiceIInv, StreamType, streamVars
<1>5. LoopType' /\ ended \subseteq ended'
  <2>1. CASE GotHotword \/ GotConnectionCheck
    <3>1. strm \in 1..MaxStreams \/ strm = 0
      BY VoiceAssumption DEF VoiceIInv, LoopType
    <3>2. closed' \subseteq ended' /\ ended' \subseteq Strms /\ ended \subseteq ended'
      BY <2>1, <3>1 DEF VoiceIInv, LoopType, GotHotword, GotConnectionCheck, Closing, Strms
    <3>3. made' \in 0..MaxStreams /\ strm' \in 0..made' /\ check' \subseteq 1..made'
      <4>1. made \in 0..MaxStreams /\ check \subseteq 1..made
        BY DEF VoiceIInv, LoopType
      <4>2. /\ made < MaxStreams /\ made' = made + 1 /\ strm' = made + 1
            /\ check' = check \cup {made + 1} \/ check' = check
        BY <2>1 DEF GotHotword, GotConnectionCheck, NewStream
      <4>3. 1..made \cup {made + 1} \subseteq 1..made'
        BY <4>1, <4>2
      <4>4. made' \in 0..MaxStreams /\ strm' \in 0..made'
        BY <4>1, <4>2, VoiceAssumption
      <4> QED
        BY <4>1, <4>2, <4>3, <4>4
    <3> QED
      BY <2>1, <3>2, <3>3 DEF VoiceIInv, LoopType, GotHotword, GotConnectionCheck
  <2>2. CASE GotBadHotword
    <3>1. strm \in 1..MaxStreams \/ strm = 0
      BY VoiceAssumption DEF VoiceIInv, LoopType
    <3> QED
      BY <2>2, <3>1 DEF VoiceIInv, LoopType, GotBadHotword, Closing, Strms
  <2>3. CASE GotAudio
    BY <2>3, VoiceAssumption DEF VoiceIInv, LoopType, GotAudio, Selecting
  <2>4. CASE AddPanics \/ Cancel \/ StopRun
    BY <2>4 DEF VoiceIInv, LoopType, AddPanics, Cancel, StopRun
  <2> QED
    BY <2>1, <2>2, <2>3, <2>4
<1>6. Buffers'
  <2> SUFFICES ASSUME NEW s \in Strms
               PROVE  /\ audioBuf[s] <= spoken'
                      /\ loop' = "adding" => audioBuf[s] < spoken'
                      /\ byteChan[s] = "closed" => s \in ended' /\ audioBuf[s] = 0
    BY <1>1 DEF Buffers, streamVars
  <2>1. audioBuf[s] \in Nat /\ spoken \in Nat /\ audioBuf[s] <= spoken
        /\ (loop = "adding" => audioBuf[s] < spoken)
    BY VoiceAssumption DEF VoiceIInv, LoopType, StreamType, Buffers
  <2>2. \/ spoken' = spoken + 1
        \/ spoken' = spoken /\ (loop' = "adding" => loop = "adding")
    BY DEF GotHotword, GotConnectionCheck, GotBadHotword, GotAudio, AddPanics, Cancel, StopRun
  <2>3. byteChan[s] = "closed" => s \in ended' /\ audioBuf[s] = 0
    BY <1>5 DEF VoiceIInv, Buffers
  <2> QED
    BY <2>1, <2>2, <2>3
<1> QED
  BY <1>3, <1>4, <1>5, <1>6 DEF VoiceIInv

\* A result or an error is taken by the loop.
LEMMA TakeIInv ==
  ASSUME VoiceIInv, NEW s \in Strms, TakeIntent(s) \/ TakeError(s)
  PROVE  VoiceIInv'
<1>1. UNCHANGED <<loop, made, check, byteChan, audioBuf, audioStream, spoken>>
  BY DEF TakeIntent, TakeError
<1>2. made \in Nat /\ strm \in 0..made /\ s # 0
  BY VoiceAssumption DEF VoiceIInv, LoopType, Strms
<1>3. \/ UNCHANGED <<strm, closed, ended, answers>>
      \/ s = strm /\ Answer(s)
  BY DEF TakeIntent, TakeError
<1>4. AnswerType' /\ AnsweredOnce'
  BY <1>1, <1>2, <1>3, AnswersStayInOrder DEF VoiceIInv, Answer
<1>5. LoopType' /\ ended \subseteq ended'
  BY <1>1, <1>2, <1>3 DEF VoiceIInv, LoopType, Answer, Closing
<1>6. StreamType'
  BY <1>1 DEF VoiceIInv, StreamType, TakeIntent, TakeError
<1>7. Buffers'
  BY <1>1, <1>5 DEF VoiceIInv, Buffers
<1> QED
  BY <1>4, <1>5, <1>6, <1>7 DEF VoiceIInv

\* Steps of a stream's goroutines.
LEMMA StreamIInv ==
  ASSUME VoiceIInv, NEW s \in Strms,
         \/ ResultPanics(s) \/ BufferTakes(s) \/ BufferPasses(s) \/ BufferEnds(s)
         \/ Transcribe(s) \/ TranscribeEnds(s) \/ TimesOut(s) \/ CancelResponse(s)
  PROVE  VoiceIInv'
<1> USE DEF ResultPanics, BufferTakes, BufferPasses, BufferEnds, Transcribe, TranscribeEnds,
            TimesOut, CancelResponse
<1>1. UNCHANGED <<strm, made, check, closed, answers, spoken>> /\ ended \subseteq ended'
  OBVIOUS
<1>2. AnswerType' /\ AnsweredOnce'
  BY <1>1 DEF VoiceIInv, AnswerType, AnsweredOnce
<1>3. LoopType'
  BY <1>1 DEF VoiceIInv, LoopType
<1>4. /\ StreamType
      /\ \A q \in Strms : audioBuf[q] \in Nat /\ audioStream[q] \in 0..AudioCapacity
      /\ spoken \in Nat
  BY VoiceAssumption DEF VoiceIInv, LoopType, StreamType
<1>5. StreamType' /\ Buffers'
  <2>1. CASE ResultPanics(s)
    BY <1>1, <1>4, <2>1 DEF VoiceIInv, StreamType, Buffers, streamVars
  <2>2. CASE BufferTakes(s)
    <3>1. StreamType'
      BY <1>4, <2>2 DEF StreamType
    <3> QED
      BY <1>1, <1>4, <2>2, <3>1 DEF VoiceIInv, StreamType, Buffers
  <2>3. CASE BufferPasses(s)
    <3>1. audioBuf[s] - 1 \in Nat /\ audioStream[s] + 1 \in 0..AudioCapacity
      BY <1>4, <2>3, VoiceAssumption
    <3>2. StreamType'
      BY <1>4, <2>3, <3>1 DEF StreamType
    <3> QED
      BY <1>1, <1>4, <2>3, <3>1, <3>2 DEF VoiceIInv, StreamType, Buffers
  <2>4. CASE BufferEnds(s)
    <3>1. StreamType'
      BY <1>4, <2>4 DEF StreamType
    <3> QED
      BY <1>1, <1>4, <2>4, <3>1 DEF VoiceIInv, StreamType, Buffers
  <2>5. CASE Transcribe(s)
    <3>1. audioStream[s] - 1 \in 0..AudioCapacity
      BY <1>4, <2>5, VoiceAssumption
    <3>2. StreamType'
      BY <1>4, <2>5, <3>1 DEF StreamType
    <3> QED
      BY <1>1, <2>5, <3>2 DEF VoiceIInv, Buffers
  <2>6. CASE TranscribeEnds(s) \/ CancelResponse(s)
    <3>1. StreamType'
      BY <1>4, <2>6 DEF StreamType
    <3> QED
      BY <1>1, <2>6, <3>1 DEF VoiceIInv, Buffers
  <2>7. CASE TimesOut(s)
    BY <1>1, <1>4, <2>7 DEF VoiceIInv, StreamType, Buffers, streamVars
  <2> QED
    BY <2>1, <2>2, <2>3, <2>4, <2>5, <2>6, <2>7
<1> QED
  BY <1>2, <1>3, <1>5 DEF VoiceIInv

LEMMA VoiceIInvType == VoiceIInv => VoiceTypeOK
BY VoiceAssumption DEF VoiceIInv, LoopType, StreamType, Buffers, VoiceTypeOK

LEMMA VoiceNextIInv == VoiceIInv /\ [VoiceNext]_voiceVars => VoiceIInv'
<1> SUFFICES ASSUME VoiceIInv, [VoiceNext]_voiceVars PROVE VoiceIInv'
  OBVIOUS
<1>1. CASE UNCHANGED voiceVars
  <2>1. LoopType' /\ StreamType' /\ Buffers'
    BY <1>1 DEF VoiceIInv, LoopType, StreamType, Buffers, voiceVars, streamVars
  <2>2. AnswerType' /\ AnsweredOnce'
    BY <1>1 DEF VoiceIInv, AnswerType, AnsweredOnce, voiceVars
  <2> QED
    BY <2>1, <2>2 DEF VoiceIInv
<1> QED
  BY <1>1, LoopIInv, TakeIInv, StreamIInv DEF VoiceNext, HandleStream

-----------------------------------------------------------------------------
THEOREM VoiceInductive == VoiceProcessSpec => []VoiceIInv
<1>1. VoiceInit => VoiceIInv
  BY VoiceInitIInv
<1>2. VoiceIInv /\ [VoiceNext]_voiceVars => VoiceIInv'
  BY VoiceNextIInv
<1> QED
  BY <1>1, <1>2, PTL DEF VoiceProcessSpec

\* The states of the loop, of the goroutines and of their channels.
THEOREM VoiceTypeCorrect == VoiceProcessSpec => []VoiceTypeOK
<1>1. VoiceIInv => VoiceTypeOK
  BY VoiceIInvType
<1> QED
  BY <1>1, VoiceInductive, PTL

\* The engine hears of a stream at most once, and of no stream after a later one,
\* although recognised text and time-outs of several streams are under way.
THEOREM VoiceAnswersOnce == VoiceProcessSpec => []AnsweredOnce
<1>1. VoiceIInv => AnsweredOnce
  BY DEF VoiceIInv
<1> QED
  BY <1>1, VoiceInductive, PTL

-----------------------------------------------------------------------------
\* The token service, for any clients, listeners and owners, and any number of
\* requests and crashes.

\* The queue handles one request at a time.
OneHandled ==
  \A a, b \in Actors : call[a].at \in Handled /\ call[b].at \in Handled => a = b

\* What a request works with, at each place: what is about to be saved belongs to
\* the user whom the token in memory is bound to, unless it is an Auth's.
CarriesItsUser(a) ==
  /\ call[a].at = "contacting" /\ call[a].kind \in JwtKinds => call[a].token = bound
  /\ call[a].at = "saving" =>
       IF call[a].kind = "Auth" THEN call[a].token = call[a].user
                                ELSE call[a].token = bound
  /\ call[a].at = "storing" => call[a].token = bound

\* The inductive invariant of the token service.
TokenIInv == TokenTypeOK /\ OneHandled /\ UserSticks /\ \A a \in Actors : CarriesItsUser(a)

CallType ==
  [at : {"none", "asking"} \cup Handled, kind : Kinds, user : Tokens,
   token : Tokens, err : {"nil", "failed", "PermissionDenied"}]

-----------------------------------------------------------------------------
\* What becomes of the request of a: its place, the token it works with and how it
\* ended may change, its kind and its user stay, and so do all other requests.
Becomes(a, place, token, err) ==
  /\ call' \in [Actors -> CallType]
  /\ call'[a].at = place /\ call'[a].token = token /\ call'[a].err = err
  /\ call'[a].kind = call[a].kind /\ call'[a].user = call[a].user
  /\ \A b \in Actors \ {a} : call'[b] = call[b]

LEMMA AtBecomes ==
  ASSUME call \in [Actors -> CallType], NEW a \in Actors, NEW place \in Handled, At(a, place)
  PROVE  Becomes(a, place, call[a].token, call[a].err)
<1>1. [call[a] EXCEPT !.at = place] \in CallType
  BY DEF CallType
<1>2. call' = [call EXCEPT ![a] = [call[a] EXCEPT !.at = place]]
  BY DEF At
<1> QED
  BY <1>1, <1>2 DEF Becomes, CallType

LEMMA TokenBecomes ==
  ASSUME call \in [Actors -> CallType], NEW a \in Actors, NEW place \in Handled,
         NEW token \in Tokens,
         call' = [call EXCEPT ![a].at = place, ![a].token = token]
  PROVE  Becomes(a, place, token, call[a].err)
<1>1. [call[a] EXCEPT !.at = place, !.token = token] \in CallType
  BY DEF CallType
<1>2. call' = [call EXCEPT ![a] = [call[a] EXCEPT !.at = place, !.token = token]]
  OBVIOUS
<1> QED
  BY <1>1, <1>2 DEF Becomes, CallType

LEMMA AnsweringBecomes ==
  ASSUME call \in [Actors -> CallType], NEW a \in Actors,
         NEW token \in Tokens, NEW err \in {"nil", "failed", "PermissionDenied"},
         Answering(a, token, err)
  PROVE  Becomes(a, "answering", token, err)
<1>1. [call[a] EXCEPT !.at = "answering", !.token = token, !.err = err] \in CallType
  BY DEF CallType, Handled
<1>2. call' = [call EXCEPT ![a] = [call[a] EXCEPT !.at = "answering", !.token = token, !.err = err]]
  BY DEF Answering
<1> QED
  BY <1>1, <1>2 DEF Becomes, CallType

LEMMA TokenInitIInv == TokenInit \/ TokenIdle => TokenIInv
<1> SUFFICES ASSUME TokenInit \/ TokenIdle PROVE TokenIInv
  OBVIOUS
<1>1. NoCall \in CallType
  BY DEF NoCall, NoToken, CallType, Kinds, JwtKinds, Tokens
<1>2. TokenStart
  BY Zenon DEF TokenInit, TokenIdle
<1>3. /\ file \in Tokens /\ due \in BOOLEAN /\ halted \in BOOLEAN
      /\ asks \in {0, MaxAsks} /\ boots \in {0, MaxBoots}
  BY Zenon DEF TokenInit, TokenIdle, Tokens
<1>4. \A a \in Actors : call[a] = NoCall
  BY <1>2 DEF TokenStart
<1>5. TokenTypeOK
  <2>1. call \in [Actors -> CallType]
    BY <1>1, <1>2 DEF TokenStart
  <2>2. asks \in 0..MaxAsks /\ boots \in 0..MaxBoots
    BY <1>3, TokenAssumption
  <2>3. retrier \in [Listeners -> {"none", "checked", "started", "retrying"}]
    BY <1>2 DEF TokenStart
  <2>4. memory \in Tokens /\ bound \in Tokens /\ backoff \in BOOLEAN /\ denied \in BOOLEAN
    BY <1>2, <1>3, Zenon DEF TokenStart
  <2> QED
    BY <1>3, <2>1, <2>2, <2>3, <2>4, Zenon DEF TokenTypeOK, CallType
<1>6. OneHandled /\ UserSticks /\ \A a \in Actors : CarriesItsUser(a)
  <2>1. memory = file /\ bound = file
    BY <1>2 DEF TokenStart
  <2> QED
    BY <1>4, <2>1 DEF OneHandled, UserSticks, CarriesItsUser, NoCall, Handled
<1> QED
  BY <1>5, <1>6 DEF TokenIInv

\* Steps of one request that leave its place outside the queue, and all else, as
\* it is.
LEMMA ReceiveIInv ==
  ASSUME TokenIInv, NEW a \in Actors, Receive(a)
  PROVE  TokenIInv'
<1>0. /\ call \in [Actors -> CallType]
      /\ UNCHANGED <<memory, file, due, halted, retrier, backoff, denied, bound, asks, boots>>
  BY DEF TokenIInv, TokenTypeOK, CallType, Receive
<1>1. memory \in Tokens /\ NoToken \in Tokens
  BY DEF TokenIInv, TokenTypeOK, Tokens
<1>2. PICK place, token, err :
        /\ Becomes(a, place, token, err)
        /\ \/ place = "contacting" /\ call[a].kind \notin JwtKinds
           \/ place = "contacting" /\ token = memory
           \/ place = "answering" /\ token \in {NoToken, memory}
  <2>1. CASE call[a].kind \in {"Auth", "Reassociate"}
    BY <1>0, <2>1, AtBecomes DEF Receive, Handled, JwtKinds
  <2>2. CASE /\ call[a].kind \notin {"Auth", "Reassociate"}
             /\ memory = NoToken \/ (call[a].kind = "Jwt" /\ ~due)
    BY <1>0, <1>1, <2>2, AnsweringBecomes DEF Receive
  <2>3. CASE /\ call[a].kind \notin {"Auth", "Reassociate"}
             /\ ~(memory = NoToken \/ (call[a].kind = "Jwt" /\ ~due))
    BY <1>0, <1>1, <2>3, TokenBecomes DEF Receive, Handled
  <2> QED
    BY <2>1, <2>2, <2>3
<1>3. \A b \in Actors : call[b].at \notin Handled
  BY DEF Receive, QueueIsFree
<1>4. memory = bound
  BY <1>3 DEF TokenIInv, UserSticks, Handled
<1>5. TokenTypeOK'
  BY <1>0, <1>2, Zenon DEF TokenIInv, TokenTypeOK, CallType, Becomes
<1>6. OneHandled'
  BY <1>2, <1>3 DEF OneHandled, Becomes
<1>7. UserSticks' /\ \A b \in Actors : CarriesItsUser(b)'
  BY <1>0, <1>2, <1>3, <1>4 DEF TokenIInv, UserSticks, CarriesItsUser, Handled, Becomes
<1> QED
  BY <1>5, <1>6, <1>7 DEF TokenIInv

\* A request that is being handled goes on, and nothing is stored.
LEMMA GoesOnIInv ==
  ASSUME TokenIInv, NEW a \in Actors, call[a].at \in Handled,
         UNCHANGED <<memory, file, due, halted, retrier, backoff, denied, bound, asks, boots>>,
         NEW place \in Handled \ {"storing"}, NEW token, NEW err,
         call[a].at # "storing",
         Becomes(a, place, token, err),
         place = "contacting" => token = bound,
         place = "saving" =>
           IF call[a].kind = "Auth" THEN token = call[a].user ELSE token = bound,
         place = "answering" => token \in {NoToken, bound}
  PROVE  TokenIInv'
<1>1. TokenTypeOK'
  BY Zenon DEF TokenIInv, TokenTypeOK, CallType, Becomes
<1>2. OneHandled'
  BY DEF TokenIInv, OneHandled, Becomes
<1>3. UserSticks' /\ \A b \in Actors : CarriesItsUser(b)'
  BY DEF TokenIInv, OneHandled, UserSticks, CarriesItsUser, Handled, Becomes
<1> QED
  BY <1>1, <1>2, <1>3 DEF TokenIInv

LEMMA ContactIInv ==
  ASSUME TokenIInv, NEW a \in Actors, Contact(a) \/ ContactFails(a)
  PROVE  TokenIInv'
<1>0. /\ call \in [Actors -> CallType] /\ NoToken \in Tokens
      /\ call[a].at = "contacting"
      /\ UNCHANGED <<memory, file, due, halted, retrier, backoff, denied, bound, asks, boots>>
  BY DEF TokenIInv, TokenTypeOK, CallType, Tokens, Contact, ContactFails
<1>1. CASE ContactFails(a)
  <2>1. PICK err \in {"failed", "PermissionDenied"} : Answering(a, NoToken, err)
    BY <1>1 DEF ContactFails
  <2>2. Becomes(a, "answering", NoToken, err)
    BY <1>0, <2>1, AnsweringBecomes
  <2> QED
    BY <1>0, <2>2, GoesOnIInv DEF Handled
<1>2. CASE Contact(a) /\ call[a].kind = "Auth"
  <2>1. /\ call' = [call EXCEPT ![a].at = "saving", ![a].token = call[a].user]
        /\ call[a].user \in Tokens
    BY <1>0, <1>2 DEF Contact, CallType, JwtKinds
  <2>2. Becomes(a, "saving", call[a].user, call[a].err)
    BY <1>0, <2>1, TokenBecomes DEF Handled
  <2> QED
    BY <1>0, <1>2, <2>2, GoesOnIInv DEF Handled
<1>3. CASE Contact(a) /\ call[a].kind \in JwtKinds
  <2>1. Becomes(a, "saving", call[a].token, call[a].err)
    BY <1>0, <1>3, AtBecomes DEF Contact, JwtKinds, Handled
  <2>2. call[a].token = bound
    BY <1>0, <1>3 DEF TokenIInv, CarriesItsUser
  <2> QED
    BY <1>0, <1>3, <2>1, <2>2, GoesOnIInv DEF JwtKinds, Handled
<1>4. CASE Contact(a) /\ call[a].kind \notin JwtKinds \cup {"Auth"}
  <2>1. Becomes(a, "answering", NoToken, "nil")
    BY <1>0, <1>4, AnsweringBecomes DEF Contact
  <2> QED
    BY <1>0, <2>1, GoesOnIInv DEF Handled
<1> QED
  BY <1>1, <1>2, <1>3, <1>4

LEMMA SaveFailsIInv ==
  ASSUME TokenIInv, NEW a \in Actors, SaveFails(a)
  PROVE  TokenIInv'
<1>0. /\ call \in [Actors -> CallType] /\ NoToken \in Tokens
      /\ call[a].at = "saving"
      /\ UNCHANGED <<memory, file, due, halted, retrier, backoff, denied, bound, asks, boots>>
  BY DEF TokenIInv, TokenTypeOK, CallType, Tokens, SaveFails
<1>1. Becomes(a, "answering", NoToken, "failed")
  BY <1>0, AnsweringBecomes DEF SaveFails
<1> QED
  BY <1>0, <1>1, GoesOnIInv DEF Handled

LEMMA SaveIInv ==
  ASSUME TokenIInv, NEW a \in Actors, Save(a)
  PROVE  TokenIInv'
<1>0. /\ call \in [Actors -> CallType] /\ call[a].at = "saving"
      /\ file' = call[a].token
      /\ bound' = IF call[a].kind = "Auth" THEN call[a].user ELSE bound
      /\ UNCHANGED <<memory, due, halted, retrier, backoff, denied, asks, boots>>
  BY DEF TokenIInv, TokenTypeOK, CallType, Save
<1>1. Becomes(a, "storing", call[a].token, call[a].err)
  BY <1>0, AtBecomes DEF Save, Handled
<1>2. file' = bound'
  BY <1>0 DEF TokenIInv, CarriesItsUser
<1>3. TokenTypeOK'
  <2>1. file' \in Tokens /\ bound' \in Tokens
    BY <1>0, <1>2 DEF CallType
  <2> QED
    BY <1>0, <1>1, <2>1, Zenon DEF TokenIInv, TokenTypeOK, CallType, Becomes
<1>4. \A b \in Actors : call'[b].at \in Handled => b = a
  BY <1>0, <1>1 DEF TokenIInv, OneHandled, Handled, Becomes
<1>5. OneHandled'
  BY <1>4 DEF OneHandled
<1>6. UserSticks' /\ \A b \in Actors : CarriesItsUser(b)'
  BY <1>0, <1>1, <1>2, <1>4 DEF TokenIInv, UserSticks, CarriesItsUser, Handled, Becomes
<1> QED
  BY <1>3, <1>5, <1>6 DEF TokenIInv

LEMMA StoreIInv ==
  ASSUME TokenIInv, NEW a \in Actors, Store(a)
  PROVE  TokenIInv'
<1>0. /\ call \in [Actors -> CallType] /\ call[a].at = "storing"
      /\ memory' = call[a].token /\ due' = FALSE
      /\ UNCHANGED <<file, halted, retrier, backoff, denied, bound, asks, boots>>
  BY DEF TokenIInv, TokenTypeOK, CallType, Store
<1>1. Becomes(a, "answering", call[a].token, call[a].err)
  BY <1>0, AtBecomes DEF Store, Handled
<1>2. memory' = bound
  BY <1>0 DEF TokenIInv, CarriesItsUser
<1>3. TokenTypeOK'
  <2>1. memory' \in Tokens /\ due' \in BOOLEAN
    BY <1>0 DEF CallType
  <2> QED
    BY <1>0, <1>1, <2>1, Zenon DEF TokenIInv, TokenTypeOK, CallType, Becomes
<1>4. \A b \in Actors : call'[b].at \in Handled => b = a
  BY <1>0, <1>1 DEF TokenIInv, OneHandled, Handled, Becomes
<1>5. OneHandled'
  BY <1>4 DEF OneHandled
<1>6. UserSticks' /\ \A b \in Actors : CarriesItsUser(b)'
  BY <1>0, <1>1, <1>2, <1>4 DEF TokenIInv, UserSticks, CarriesItsUser, Handled, Becomes
<1> QED
  BY <1>3, <1>5, <1>6 DEF TokenIInv

\* Nothing happens to the tokens, and no request enters the queue: requests stay
\* as they are, or become new ones, or none.
LEMMA AsideIInv ==
  ASSUME TokenIInv, TokenTypeOK', UNCHANGED <<memory, file, bound>>,
         \A a \in Actors : call'[a] = call[a] \/ call'[a].at \in {"none", "asking"},
         \A a \in Actors : call[a].at = "storing" => call'[a] = call[a]
  PROVE  TokenIInv'
<1>1. OneHandled'
  BY DEF TokenIInv, OneHandled, Handled
<1>2. UserSticks' /\ \A a \in Actors : CarriesItsUser(a)'
  BY DEF TokenIInv, UserSticks, CarriesItsUser
<1> QED
  BY <1>1, <1>2 DEF TokenIInv

LEMMA NewCallType == 
  /\ NoCall \in CallType /\ NoCall.at = "none"
  /\ \A kind \in Kinds, user \in Tokens :
       LET new == [NoCall EXCEPT !.at = "asking", !.kind = kind, !.user = user] IN
       new \in CallType /\ new.at = "asking"
BY DEF NoCall, NoToken, CallType, Kinds, JwtKinds, Tokens

LEMMA AskingIInv ==
  ASSUME TokenIInv, NEW a \in Actors, NEW kind \in Kinds, NEW user \in Tokens,
         Asking(a, kind, user), call[a].at = "none", asks' \in 0..MaxAsks,
         UNCHANGED <<memory, file, due, halted, retrier, backoff, denied, bound, boots>>
  PROVE  TokenIInv'
<1> DEFINE new == [NoCall EXCEPT !.at = "asking", !.kind = kind, !.user = user]
<1>1. new \in CallType /\ new.at = "asking"
  BY NewCallType, Zenon
<1>2. call \in [Actors -> CallType] /\ call' = [call EXCEPT ![a] = new]
  BY DEF TokenIInv, TokenTypeOK, CallType, Asking
<1> HIDE DEF new
<1>3. call' \in [Actors -> CallType] /\ call'[a] = new /\ \A b \in Actors \ {a} : call'[b] = call[b]
  BY <1>1, <1>2
<1>4. TokenTypeOK'
  BY <1>3, Zenon DEF TokenIInv, TokenTypeOK, CallType
<1> QED
  BY <1>1, <1>3, <1>4, AsideIInv

LEMMA AnswerRequestIInv ==
  ASSUME TokenIInv, NEW a \in Actors, AnswerRequest(a)
  PROVE  TokenIInv'
<1>1. /\ call \in [Actors -> CallType] /\ call' = [call EXCEPT ![a] = NoCall]
      /\ call[a].at = "answering"
      /\ UNCHANGED <<memory, file, due, halted, bound, asks, boots>>
  BY DEF TokenIInv, TokenTypeOK, CallType, AnswerRequest
<1>2. call' \in [Actors -> CallType] /\ call'[a] = NoCall /\ \A b \in Actors \ {a} : call'[b] = call[b]
  BY <1>1, NewCallType
<1>3. /\ retrier' \in [Listeners -> {"none", "checked", "started", "retrying"}]
      /\ backoff' \in BOOLEAN /\ denied' \in BOOLEAN
  <2>1. CASE a \in Listeners
    <3>1. Retried(a)
      BY <2>1 DEF AnswerRequest
    <3>2. denied' \in BOOLEAN
      BY <3>1, Zenon DEF Retried
    <3>3. PICK over \in BOOLEAN :
            /\ retrier' = [retrier EXCEPT ![a] = IF over THEN "none" ELSE @]
            /\ backoff' = (backoff /\ ~over)
      BY <3>1 DEF Retried
    <3>4. backoff' \in BOOLEAN
      BY <3>3, Zenon
    <3>5. retrier' \in [Listeners -> {"none", "checked", "started", "retrying"}]
      BY <3>3 DEF TokenIInv, TokenTypeOK
    <3> QED
      BY <3>2, <3>4, <3>5
  <2>2. CASE a \notin Listeners
    <3>1. /\ denied' = (denied /\ ~(call[a].err = "nil" /\ call[a].kind \notin JwtKinds))
          /\ UNCHANGED <<retrier, backoff>>
      BY <2>2 DEF AnswerRequest
    <3>2. denied' \in BOOLEAN
      BY <3>1, Zenon
    <3> QED
      BY <3>1, <3>2, Zenon DEF TokenIInv, TokenTypeOK
  <2> QED
    BY <2>1, <2>2
<1>4. TokenTypeOK'
  BY <1>1, <1>2, <1>3, Zenon DEF TokenIInv, TokenTypeOK, CallType
<1> QED
  BY <1>1, <1>2, <1>4, NewCallType, AsideIInv

\* The goroutines of OnError, up to their request.
LEMMA RetryIInv ==
  ASSUME TokenIInv, NEW l \in Listeners, NoticeDenial(l) \/ SetBackoff(l) \/ StartRetrying(l)
  PROVE  TokenIInv'
<1>1. UNCHANGED <<call, memory, file, due, halted, denied, bound, boots>>
  BY DEF NoticeDenial, SetBackoff, StartRetrying
<1>2. retrier' \in [Listeners -> {"none", "checked", "started", "retrying"}]
  BY DEF TokenIInv, TokenTypeOK, NoticeDenial, SetBackoff, StartRetrying
<1>3. backoff' \in BOOLEAN
  BY Zenon DEF TokenIInv, TokenTypeOK, NoticeDenial, SetBackoff, StartRetrying
<1>4. asks' \in 0..MaxAsks
  BY TokenAssumption DEF TokenIInv, TokenTypeOK, NoticeDenial, SetBackoff, StartRetrying, Count
<1>5. TokenTypeOK'
  BY <1>1, <1>2, <1>3, <1>4, Zenon DEF TokenIInv, TokenTypeOK
<1> QED
  BY <1>1, <1>5, AsideIInv

\* A crash loses every request; the file, which belongs to the bound user at all
\* times, becomes the memory, or is removed.
LEMMA RebootIInv ==
  ASSUME TokenIInv, Reboot
  PROVE  TokenIInv'
<1>1. call' = [a \in Actors |-> NoCall] /\ asks' = asks
  BY DEF Reboot
<1>2. boots' \in 0..MaxBoots
  BY TokenAssumption DEF TokenIInv, TokenTypeOK, Reboot
<1>3. due' \in BOOLEAN /\ halted' \in BOOLEAN /\ backoff' \in BOOLEAN /\ denied' \in BOOLEAN
  BY Zenon DEF Reboot, ReadToken, RemoveToken
<1>4. retrier' \in [Listeners -> {"none", "checked", "started", "retrying"}]
  BY DEF Reboot
<1>5. memory' = file' /\ bound' = file' /\ file' \in Tokens
  BY DEF TokenIInv, TokenTypeOK, UserSticks, Reboot, ReadToken, RemoveToken, Tokens
<1>6. call' \in [Actors -> CallType] /\ \A a \in Actors : call'[a] = NoCall
  BY <1>1, NewCallType
<1>7. TokenTypeOK'
  BY <1>1, <1>2, <1>3, <1>4, <1>5, <1>6, Zenon DEF TokenIInv, TokenTypeOK, CallType
<1>8. OneHandled' /\ UserSticks' /\ \A a \in Actors : CarriesItsUser(a)'
  BY <1>5, <1>6, NewCallType
  DEF TokenIInv, OneHandled, UserSticks, CarriesItsUser, Handled
<1> QED
  BY <1>7, <1>8 DEF TokenIInv

LEMMA TokenNextIInv == TokenIInv /\ [TokenNext]_tokenVars => TokenIInv'
<1> SUFFICES ASSUME TokenIInv, [TokenNext]_tokenVars PROVE TokenIInv'
  OBVIOUS
<1>0. asks \in 0..MaxAsks /\ NoToken \in Tokens
  BY DEF TokenIInv, TokenTypeOK, Tokens
<1>1. ASSUME NEW c \in Clients, NEW kind \in Kinds, Ask(c, kind) PROVE TokenIInv'
  <2>1. PICK user \in Tokens : Asking(c, kind, user)
    BY <1>0, <1>1 DEF Ask, Tokens
  <2>2. c \in Actors
    BY DEF Actors
  <2>3. asks' \in 0..MaxAsks
    BY <1>0, <1>1, TokenAssumption DEF Ask, Count
  <2>4. /\ call[c].at = "none"
        /\ UNCHANGED <<memory, file, due, halted, retrier, backoff, denied, bound, boots>>
    BY <1>1 DEF Ask
  <2> QED
    BY <2>1, <2>2, <2>3, <2>4, AskingIInv
<1>2. CASE RefresherAsks
  BY <1>0, <1>2, AskingIInv DEF RefresherAsks, Actors, Kinds, JwtKinds
<1>3. CASE Age
  <2>1. due' \in BOOLEAN /\ UNCHANGED <<call, memory, file, halted, retrier, backoff, denied, bound, asks, boots>>
    BY <1>3 DEF Age
  <2>2. TokenTypeOK'
    BY <2>1, Zenon DEF TokenIInv, TokenTypeOK
  <2> QED
    BY <2>1, <2>2, AsideIInv
<1>4. CASE StopQueue
  <2>1. halted' \in BOOLEAN /\ UNCHANGED <<call, memory, file, due, retrier, backoff, denied, bound, asks, boots>>
    BY <1>4 DEF StopQueue
  <2>2. TokenTypeOK'
    BY <2>1, Zenon DEF TokenIInv, TokenTypeOK
  <2> QED
    BY <2>1, <2>2, AsideIInv
<1>5. ASSUME NEW l \in Listeners, RetryNow(l) PROVE TokenIInv'
  BY <1>0, <1>5, AskingIInv DEF RetryNow, Actors, Kinds, JwtKinds
<1>6. CASE UNCHANGED tokenVars
  <2>1. TokenTypeOK'
    BY <1>6, Zenon DEF TokenIInv, TokenTypeOK, tokenVars
  <2> QED
    BY <1>6, <2>1, AsideIInv DEF tokenVars
<1> QED
  BY <1>1, <1>2, <1>3, <1>4, <1>5, <1>6, ReceiveIInv, ContactIInv, SaveFailsIInv, SaveIInv,
     StoreIInv, AnswerRequestIInv, RetryIInv, RebootIInv
  DEF TokenNext

-----------------------------------------------------------------------------
THEOREM TokenInductive == TokenSpec => []TokenIInv
<1>1. TokenInit => TokenIInv
  BY TokenInitIInv
<1>2. TokenIInv /\ [TokenNext]_tokenVars => TokenIInv'
  BY TokenNextIInv
<1> QED
  BY <1>1, <1>2, PTL DEF TokenSpec

\* Whatever refreshes, retries and requests of other clients are under way, and
\* wherever the process ends, the robot belongs to the user of the last Auth.
THEOREM RobotStaysItsUsers == TokenSpec => []UserSticks
<1>1. TokenIInv => UserSticks
  BY DEF TokenIInv
<1> QED
  BY <1>1, TokenInductive, PTL

\* An Auth, and nobody else, says for whom it wants a token.
AuthsName == \A a \in Actors : call[a].kind = "Auth" => call[a].user \in Owners

LEMMA AuthsNameNext ==
  ASSUME TokenIInv, AuthsName, [TokenNext]_tokenVars
  PROVE  AuthsName'
<1> SUFFICES ASSUME NEW a \in Actors, call'[a].kind = "Auth" PROVE call'[a].user \in Owners
  BY DEF AuthsName
<1>0. call \in [Actors -> CallType] /\ (call[a].kind = "Auth" => call[a].user \in Owners)
  BY DEF TokenIInv, TokenTypeOK, CallType, AuthsName
<1>1. CASE call'[a].kind = call[a].kind /\ call'[a].user = call[a].user
  BY <1>0, <1>1
<1>2. ASSUME NEW c \in Clients, NEW kind \in Kinds, Ask(c, kind)
      PROVE  call'[a].user \in Owners
  <2>1. PICK user \in IF kind \in {"Auth", "Reassociate"} THEN Owners ELSE {NoToken} :
          call' = [call EXCEPT ![c] = [NoCall EXCEPT !.at = "asking", !.kind = kind,
                                                     !.user = user]]
    BY <1>2 DEF Ask, Asking
  <2>2. CASE a = c
    BY <1>0, <2>1, <2>2 DEF NoCall
  <2>3. CASE a # c
    BY <1>0, <1>1, <2>1, <2>3
  <2> QED
    BY <2>2, <2>3
<1>3. ASSUME NEW b \in Actors, NEW kind \in JwtKinds, Asking(b, kind, NoToken)
      PROVE  call'[a].user \in Owners
  BY <1>0, <1>1, <1>3 DEF Asking, NoCall, JwtKinds
<1>4. CASE Reboot
  BY <1>4 DEF Reboot, NoCall
<1>5. ASSUME NEW b \in Actors,
             \/ Receive(b) \/ Contact(b) \/ ContactFails(b)
             \/ Save(b) \/ SaveFails(b) \/ Store(b)
      PROVE  call'[a].user \in Owners
  BY <1>0, <1>1, <1>5
  DEF Receive, Contact, ContactFails, Save, SaveFails, Store, At, Answering, CallType
<1>6. ASSUME NEW b \in Actors, AnswerRequest(b)
      PROVE  call'[a].user \in Owners
  BY <1>0, <1>1, <1>6 DEF AnswerRequest, NoCall
<1>7. CASE call' = call
  BY <1>1, <1>7
<1> QED
  BY <1>2, <1>3, <1>4, <1>5, <1>6, <1>7
  DEF TokenNext, RefresherAsks, Age, StopQueue, NoticeDenial, SetBackoff, StartRetrying,
      RetryNow, Actors, JwtKinds, tokenVars

\* The file is removed as the service starts again.
Removed == boots' = boots + 1 /\ file' = NoToken

\* What a step may do to the tokens: the one in the file is for another user only
\* when an Auth for that user stores it, and the one in memory only ever becomes the
\* file's.
UserChanges ==
  /\ file' # file =>
       \/ Removed
       \/ \E a \in Actors : /\ call[a].at = "saving" /\ call[a].kind = "Auth"
                            /\ call[a].user \in Owners /\ file' = call[a].user
  /\ memory' # memory => memory' = file' /\ (file' = file \/ Removed)

LEMMA StepUserChanges ==
  ASSUME TokenIInv, AuthsName, [TokenNext]_tokenVars
  PROVE  UserChanges
<1>1. file = bound /\ \A a \in Actors : CarriesItsUser(a)
  BY DEF TokenIInv, UserSticks
<1>2. ASSUME NEW a \in Actors, Save(a)
      PROVE  UserChanges
  BY <1>1, <1>2 DEF Save, CarriesItsUser, UserChanges, AuthsName
<1>3. ASSUME NEW a \in Actors, Store(a)
      PROVE  UserChanges
  BY <1>1, <1>3 DEF Store, CarriesItsUser, UserChanges
<1>4. CASE Reboot
  BY <1>4 DEF Reboot, ReadToken, RemoveToken, Removed, UserChanges
<1>5. CASE UNCHANGED <<memory, file>>
  BY <1>5 DEF UserChanges
<1>6. ASSUME NEW a \in Actors,
             \/ Receive(a) \/ Contact(a) \/ ContactFails(a) \/ SaveFails(a) \/ AnswerRequest(a)
      PROVE  UserChanges
  BY <1>5, <1>6 DEF Receive, Contact, ContactFails, SaveFails, AnswerRequest
<1> QED
  BY <1>2, <1>3, <1>4, <1>5, <1>6
  DEF TokenNext, Ask, RefresherAsks, Age, StopQueue, NoticeDenial, SetBackoff,
      StartRetrying, RetryNow, tokenVars

\* A robot changes hands only by an Auth: no refresh, no retry, no request of another
\* kind and no crash gives its file a token of another user, it is without one only
\* when the service finds its file broken, and the memory never gets a token that is
\* not the file's.  This is RobotStaysItsUsers as a property of steps, without the
\* history variable bound.
THEOREM OnlyAuthsChangeTheUser == TokenSpec => [][UserChanges]_tokenVars
<1>1. TokenInit => AuthsName
  BY DEF TokenInit, TokenStart, AuthsName, NoCall
<1>2. TokenIInv /\ AuthsName /\ [TokenNext]_tokenVars => AuthsName' /\ UserChanges
  BY AuthsNameNext, StepUserChanges
<1> QED
  BY <1>1, <1>2, TokenInductive, PTL DEF TokenSpec

-----------------------------------------------------------------------------
\* The client's link.  A loop reads only while the connection is open; ConnectWithRetry
\* runs only without one, and gives up in time; and nothing is there at the start.
LinkIInv ==
  /\ LinkTypeOK
  /\ linkAt = "retrying" => conn # "open" /\ loops = 0 /\ attempt < MaxAttempts
  /\ linkAt = "starting" => conn = "nil" /\ loops = 0

LEMMA LinkInitIInv == LinkInit \/ LinkIdle => LinkIInv
<1> SUFFICES ASSUME LinkInit \/ LinkIdle PROVE LinkIInv
  OBVIOUS
<1>1. /\ linkAt \in {"starting", "closed"} /\ conn = "nil" /\ attempt = 0 /\ connects = 0
      /\ loops = 0 /\ failed \in BOOLEAN
  BY Zenon DEF LinkInit, LinkIdle
<1> QED
  BY <1>1, LinkAssumption DEF LinkIInv, LinkTypeOK

LEMMA LinkNextIInv == LinkIInv /\ [LinkNext]_linkVars => LinkIInv'
<1> SUFFICES ASSUME LinkIInv, [LinkNext]_linkVars PROVE LinkIInv'
  OBVIOUS
<1> USE LinkAssumption DEF LinkIInv, LinkTypeOK
<1>1. CASE ConnectFirst
  <2>1. connects' \in 0..MaxConnects /\ attempt' = attempt /\ linkAt' = "sleeping"
    BY <1>1 DEF ConnectFirst, Count_connect
  <2>2. \/ conn' = "open" /\ loops' = 1
        \/ conn' \in {"nil", "closed"} /\ loops' = 0
    BY <1>1 DEF ConnectFirst, DialFails, HandshakeFails, Connected
  <2>3. failed' \in BOOLEAN
    BY <1>1, Zenon DEF ConnectFirst
  <2> QED
    BY <2>1, <2>2, <2>3
<1>2. CASE Supervise
  BY <1>2 DEF Supervise
<1>3. CASE Attempt
  BY <1>3 DEF Attempt, Count_connect, DialFails, HandshakeFails, Connected
<1>4. CASE StreamBreaks
  BY <1>4 DEF StreamBreaks
<1>5. CASE CloseLink
  BY <1>5 DEF CloseLink
<1>6. CASE UNCHANGED linkVars
  BY <1>6 DEF linkVars
<1> QED
  BY <1>1, <1>2, <1>3, <1>4, <1>5, <1>6 DEF LinkNext

\* The microphone's subscriber: its type invariant is inductive.
LEMMA MicInitType == MicInit \/ MicIdle => MicTypeOK
<1> SUFFICES ASSUME MicInit \/ MicIdle PROVE MicTypeOK
  OBVIOUS
<1>1. current \in 0..MaxStarts
  BY MicAssumption DEF MicInit, MicIdle
<1>2. active = FALSE /\ openConns = {} /\ reader = [r \in Starts |-> ReaderEnded]
  BY Zenon DEF MicInit, MicIdle, MicStart
<1>3. ReaderEnded \in [at : {"checking", "reading", "ended"}, conn : 0..MaxStarts]
  BY MicAssumption DEF ReaderEnded
<1> QED
  BY <1>1, <1>2, <1>3 DEF MicTypeOK

LEMMA MicNextType == MicTypeOK /\ [MicNext]_micVars => MicTypeOK'
<1> SUFFICES ASSUME MicTypeOK, [MicNext]_micVars PROVE MicTypeOK'
  OBVIOUS
<1> USE MicAssumption DEF MicTypeOK, Starts
<1>1. CASE Start
  BY <1>1 DEF Start, Checking
<1>2. CASE Stop
  BY <1>2 DEF Stop
<1>3. ASSUME NEW r \in Starts, Check(r) \/ Packet(r) \/ ReadFails(r) PROVE MicTypeOK'
  <2>1. UNCHANGED <<active, current, openConns>>
    BY <1>3 DEF Check, Packet, ReadFails
  <2>2. PICK x : /\ reader' = [reader EXCEPT ![r] = x]
                 /\ x \in {Checking, ReaderEnded, [at |-> "reading", conn |-> current]}
    BY <1>3, Zenon DEF Check, Packet, ReadFails
  <2>3. x \in [at : {"checking", "reading", "ended"}, conn : 0..MaxStarts]
    BY <2>2 DEF Checking, ReaderEnded
  <2>4. reader' \in [Starts -> [at : {"checking", "reading", "ended"}, conn : 0..MaxStarts]]
    BY <2>2, <2>3
  <2> QED
    BY <2>1, <2>4
<1>4. CASE UNCHANGED micVars
  BY <1>4 DEF micVars
<1> QED
  BY <1>1, <1>2, <1>3, <1>4 DEF MicNext

-----------------------------------------------------------------------------
\* The services beside each other.
ServicesIInv == VoiceIInv /\ TokenIInv /\ LinkIInv /\ MicTypeOK /\ SocketsIInv

LEMMA ServicesInitIInv == ServicesInit => ServicesIInv
<1>1. SocketsInit \/ SocketsIdle => SocketsIInv
  BY InitSockets DEF SocketsInit, SocketsIdle
<1> QED
  BY <1>1, VoiceInitIInv, TokenInitIInv, LinkInitIInv, MicInitType
  DEF ServicesInit, NoVoice, NoLink, NoService, ServicesIInv

LEMMA ServicesNextIInv == ServicesIInv /\ [ServicesNext]_servicesVars => ServicesIInv'
<1> SUFFICES ASSUME ServicesIInv, [ServicesNext]_servicesVars PROVE ServicesIInv'
  OBVIOUS
<1>1. /\ [VoiceNext]_voiceVars /\ [TokenNext]_tokenVars /\ [LinkNext]_linkVars
      /\ [MicNext]_micVars /\ [SocketsNext]_socketsVars
  BY Zenon DEF ServicesNext, servicesVars, otherVars
<1> QED
  BY <1>1, VoiceNextIInv, TokenNextIInv, LinkNextIInv, MicNextType, NextSockets
  DEF ServicesIInv

THEOREM ServicesInductive == ServicesSpec => []ServicesIInv
<1>1. ServicesInit => ServicesIInv
  BY ServicesInitIInv
<1>2. ServicesIInv /\ [ServicesNext]_servicesVars => ServicesIInv'
  BY ServicesNextIInv
<1> QED
  BY <1>1, <1>2, PTL DEF ServicesSpec

\* The states of the voice loop and its streams, of the requests and tokens, of the
\* link, of the microphone's readers and of the sockets' two sides: a loop of the
\* link reads only an open connection, a new connection is handed over only for a
\* peer that is known, and a reader holds an answer only if there is one.
THEOREM ServicesTypeCorrect == ServicesSpec => []ServicesTypeOK
<1>1. ServicesIInv => ServicesTypeOK
  BY VoiceIInvType, SocketsIInvSays DEF ServicesIInv, TokenIInv, LinkIInv, ServicesTypeOK
<1> QED
  BY <1>1, ServicesInductive, PTL

\* Whatever service runs: streams are answered once and in their order, tokens are
\* of the user whom the last Auth stored one for, and messages arrive in order and
\* are not lost.
THEOREM ServicesCorrect == ServicesSpec => [](AnsweredOnce /\ UserSticks /\ ArrivesInOrder)
<1>1. ServicesIInv => AnsweredOnce /\ UserSticks /\ ArrivesInOrder
  BY SocketsIInvSays DEF ServicesIInv, VoiceIInv, TokenIInv
<1> QED
  BY <1>1, ServicesInductive, PTL
=============================================================================
