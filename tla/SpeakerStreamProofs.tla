------------------------ MODULE SpeakerStreamProofs ------------------------
(***************************************************************************)
(* Theorems about the streams of the sentences, for any number of          *)
(* sentences and chunks, of responses and of failures.                     *)
(***************************************************************************)
EXTENDS SpeakerStream, FiniteSetTheorems, TLAPS

\* An RPC ends when its request handler is done, or its channel was closed by the
\* registry; spkPlay goes on to the next sentence only after that.
RpcBook ==
  \A n \in Number :
    /\ reader[n] # "none" => n <= current
    /\ responder[n] = "none" => reader[n] = "none"
    /\ responder[n] = "running" => n \in listening \/ n \in cut
    /\ responder[n] \in {"leaving", "returned"} => reader[n] \in {"done", "refused"} \/ n \in cut
    /\ n < current \/ (n = current /\ player = "idle") => Ended(n)

\* Nothing is written of a sentence that has not been begun.
WrittenBook == \A i \in DOMAIN written : written[i][2] <= current

-----------------------------------------------------------------------------
\* What a client sends of sentence n, in order, and how much of it spkPlay has sent.
Message(n, i) == IF i <= Chunks[n] + 2 THEN Part(n, i) ELSE "end"

SentOf(n) ==
  IF n > current THEN 0
  ELSE IF n < current THEN Chunks[n] + 3
  ELSE CASE player = "preparing" -> 0
         [] player = "sending" -> 1 + (Chunks[n] - left)
         [] player = "closing" -> Chunks[n] + 2
         [] OTHER -> Chunks[n] + 3

\* How much of it the request handler has read: what was written, and what it holds.
ReadOf(n) == CountOf(n, Len(written)) + (IF reader[n] = "writing" THEN 1 ELSE 0)

\* Nothing happened to the sentence that may leave a hole.
Unharmed(n) ==
  reader[n] # "refused" /\ n \notin cut /\ \A i \in DOMAIN failures : failures[i] # n

\* What has been sent is what has been read and, after it, what is on its way; the
\* request handler is done only when it has seen the end.
InTransit(n) ==
  /\ SentOf(n) = ReadOf(n) + Len(up[n])
  /\ \A i \in DOMAIN up[n] : up[n][i] = Message(n, ReadOf(n) + i)
  /\ reader[n] = "writing" => request[n] = Message(n, ReadOf(n))
  /\ reader[n] = "done" => up[n] # <<>> /\ Head(up[n]) = "end"
  /\ \A j \in DOMAIN written : written[j][2] = n => written[j][1] = Message(n, CountOf(n, j))

\* A sentence that is being played is one, and no more is left of it than it has;
\* before the first dial there is none.
LeftBook ==
  /\ ~dialled \/ player = "panicked" => current = 0
  /\ player \notin {"idle", "panicked"} => current \in Number
  /\ player = "preparing" => left = Chunks[current]
  /\ player = "sending" => left <= Chunks[current]

\* The inductive invariant.
IInv ==
  /\ TypeOK /\ RpcBook /\ WrittenBook /\ OneAtATime /\ LeftBook
  /\ \A n \in Number : Unharmed(n) => InTransit(n)
-----------------------------------------------------------------------------
\* The places of sentence n among the first j of a sequence, and what one more
\* request does to their number.
Places(q, n, j) == {i \in 1..j : q[i][2] = n}

LEMMA CountType ==
  ASSUME NEW q, NEW n, NEW j \in Nat
  PROVE  IsFiniteSet(Places(q, n, j)) /\ Cardinality(Places(q, n, j)) \in Nat
<1>1. IsFiniteSet(1..j)
  BY FS_Interval
<1>2. Places(q, n, j) \in SUBSET (1..j)
  BY DEF Places
<1>3. IsFiniteSet(Places(q, n, j))
  BY <1>1, <1>2, FS_Subset
<1> QED
  BY <1>3, FS_CardinalityType

LEMMA CountAppend ==
  ASSUME NEW q \in Seq(Requests \X Number), NEW w \in Requests \X Number, NEW n
  PROVE  LET p == Append(q, w)
         IN  /\ \A j \in 0..Len(q) : Places(p, n, j) = Places(q, n, j)
             /\ Cardinality(Places(p, n, Len(p))) =
                  Cardinality(Places(q, n, Len(q))) + (IF w[2] = n THEN 1 ELSE 0)
<1> DEFINE p == Append(q, w)
<1>1. PICK m \in Nat : m = Len(q)
  OBVIOUS
<1>2. Len(p) = m + 1 /\ p[m + 1] = w /\ \A i \in 1..m : p[i] = q[i]
  BY <1>1
<1> HIDE DEF p
<1>3. \A j \in 0..m : Places(p, n, j) = Places(q, n, j)
  BY <1>2 DEF Places
<1>4. Cardinality(Places(p, n, m + 1)) = Cardinality(Places(q, n, m)) + (IF w[2] = n THEN 1 ELSE 0)
  <2>1. IsFiniteSet(Places(q, n, m)) /\ Cardinality(Places(q, n, m)) \in Nat
    BY CountType
  <2>2. CASE w[2] = n
    <3>1. Places(p, n, m + 1) = Places(q, n, m) \cup {m + 1} /\ m + 1 \notin Places(q, n, m)
      BY <1>2, <2>2 DEF Places
    <3> QED
      BY <2>1, <2>2, <3>1, FS_AddElement
  <2>3. CASE w[2] # n
    <3>1. Places(p, n, m + 1) = Places(q, n, m)
      BY <1>2, <2>3 DEF Places
    <3> QED
      BY <2>1, <2>3, <3>1
  <2> QED
    BY <2>2, <2>3
<1> QED
  BY <1>1, <1>2, <1>3, <1>4 DEF p

\* The numbers an invariant is about are numbers.
LEMMA Numbers ==
  ASSUME TypeOK, LeftBook, NEW n \in Number
  PROVE  /\ Chunks[n] \in Nat /\ current \in Nat /\ n \in Nat /\ Len(written) \in Nat
         /\ SentOf(n) \in 0..(Chunks[n] + 3)
         /\ ReadOf(n) \in Nat
         /\ \A j \in Nat : CountOf(n, j) \in Nat
         /\ up[n] \in Seq(Requests \cup {"end"}) /\ Len(up[n]) \in Nat
<1>1. Chunks[n] \in Nat /\ current \in Nat /\ n \in Nat /\ Len(written) \in Nat
  BY StreamAssumption DEF TypeOK, Number
<1>2. up[n] \in Seq(Requests \cup {"end"}) /\ Len(up[n]) \in Nat
  BY DEF TypeOK
<1>3. \A j \in Nat : CountOf(n, j) \in Nat
  BY CountType DEF CountOf, Places
<1>4. ReadOf(n) \in Nat
  <2>1. CountOf(n, Len(written)) \in Nat
    BY <1>1, <1>3
  <2> QED
    BY <2>1 DEF ReadOf
<1>5. SentOf(n) \in 0..(Chunks[n] + 3)
  <2>1. CASE n # current
    BY <1>1, <2>1 DEF SentOf
  <2>2. CASE n = current
    <3>1. \/ player = "sending" /\ left \in Nat /\ left <= Chunks[n]
          \/ player # "sending"
      BY <2>2 DEF LeftBook, TypeOK
    <3> QED
      BY <1>1, <2>2, <3>1 DEF SentOf
  <2> QED
    BY <2>1, <2>2
<1> QED
  BY <1>1, <1>2, <1>3, <1>4, <1>5

\* While a sentence that is unharmed is being sent, its RPC has not ended.
LEMMA NotEnded ==
  ASSUME TypeOK, RpcBook, LeftBook, NEW n \in Number, Unharmed(n), InTransit(n),
         SentOf(n) < Chunks[n] + 3
  PROVE  ~Ended(n) /\ reader[n] \notin {"done", "refused"}
<1>0. /\ Chunks[n] \in Nat /\ ReadOf(n) \in Nat /\ SentOf(n) \in 0..(Chunks[n] + 3)
      /\ up[n] \in Seq(Requests \cup {"end"}) /\ Len(up[n]) \in Nat
  BY Numbers
<1>1. ASSUME reader[n] = "done" PROVE FALSE
  <2>1. up[n] # <<>> /\ Head(up[n]) = "end"
    BY <1>1 DEF InTransit
  <2>2. Len(up[n]) \in Nat \ {0} /\ 1 \in DOMAIN up[n] /\ up[n][1] = "end"
    BY <1>0, <2>1
  <2>3. Message(n, ReadOf(n) + 1) = "end" /\ SentOf(n) >= ReadOf(n) + 1
    BY <1>0, <2>2 DEF InTransit
  <2>4. ReadOf(n) + 1 <= Chunks[n] + 2 /\ ReadOf(n) + 1 \in Nat
    BY <1>0, <2>3
  <2> QED
    BY <2>3, <2>4 DEF Message, Part
<1> QED
  BY <1>1 DEF RpcBook, Unharmed, Ended, TypeOK

\* Nothing changes for a sentence that the step does not concern.
LEMMA TransitSame ==
  ASSUME NEW n \in Number, InTransit(n), UNCHANGED <<written, SentOf(n)>>,
         up'[n] = up[n], reader'[n] = reader[n], request'[n] = request[n]
  PROVE  InTransit(n)'
<1>1. ReadOf(n)' = ReadOf(n)
  BY DEF ReadOf, CountOf
<1>2. \A i : Message(n, i)' = Message(n, i) /\ CountOf(n, i)' = CountOf(n, i)
  BY DEF Message, Part, CountOf
<1> QED
  BY <1>1, <1>2 DEF InTransit

-----------------------------------------------------------------------------
LEMMA InitIInv == Init => IInv
<1> SUFFICES ASSUME Init PROVE IInv
  OBVIOUS
<1>1. TypeOK
  BY StreamAssumption DEF Init, TypeOK, Requests
<1>2. RpcBook /\ WrittenBook /\ OneAtATime /\ LeftBook
  BY DEF Init, RpcBook, WrittenBook, OneAtATime, LeftBook, Number, Ended
<1>3. ASSUME NEW n \in Number PROVE InTransit(n)
  <2>1. SentOf(n) = 0
    BY DEF Init, SentOf, Number
  <2>2. ReadOf(n) = 0
    <3>1. {i \in 1..Len(written) : written[i][2] = n} = {}
      BY DEF Init
    <3> QED
      BY <3>1, FS_EmptySet DEF Init, ReadOf, CountOf
  <2> QED
    BY <2>1, <2>2 DEF Init, InTransit
<1> QED
  BY <1>1, <1>2, <1>3 DEF IInv

\* Opening a stream, or failing to.
LEMMA OpenKeeps ==
  ASSUME IInv, Open \/ OpenFails
  PROVE  IInv'
<1>1. /\ player = "idle" /\ current < Sentences /\ current' = current + 1
      /\ dialled /\ UNCHANGED <<dialled, up, request, listening, inbox, engineVars>>
  BY DEF Open, OpenFails, handlerVars
<1>2. current + 1 \in Number /\ current \in Nat /\ current + 1 \in 0..Sentences
  BY <1>1, StreamAssumption DEF IInv, TypeOK, Number
<1>3. TypeOK' /\ LeftBook'
  <2>1. CASE Open
    <3>1. Chunks[current + 1] \in Nat
      BY <1>2, StreamAssumption
    <3> QED
      BY <1>1, <1>2, <2>1, <3>1 DEF IInv, TypeOK, LeftBook, Open, handlerVars, engineVars
  <2>2. CASE OpenFails
    BY <1>1, <1>2, <2>2 DEF IInv, TypeOK, LeftBook, OpenFails, engineVars
  <2> QED
    BY <2>1, <2>2
<1>4. RpcBook'
  <2>1. \A n \in Number : n \in Nat
    BY DEF Number
  <2>2. CASE Open
    BY <1>1, <1>2, <2>1, <2>2 DEF IInv, RpcBook, Open, Ended, handlerVars, engineVars
  <2>3. CASE OpenFails
    BY <1>1, <1>2, <2>1, <2>3 DEF IInv, TypeOK, RpcBook, OpenFails, Ended, engineVars
  <2> QED
    BY <2>2, <2>3
<1>5. WrittenBook' /\ OneAtATime'
  <2>1. written \in Seq(Requests \X Number) /\ \A i \in DOMAIN written : written[i][2] \in Nat
    BY DEF IInv, TypeOK, Number
  <2> QED
    BY <1>1, <1>2, <2>1 DEF IInv, WrittenBook, OneAtATime, engineVars
<1>6. ASSUME NEW n \in Number, Unharmed(n)' PROVE InTransit(n)'
  <2>1. n \in Nat /\ Chunks[n] \in Nat
    BY StreamAssumption DEF Number
  <2>2. reader'[n] = reader[n]
    BY <1>2, <1>6 DEF IInv, TypeOK, Unharmed, Open, OpenFails, handlerVars
  <2>3. Unharmed(n)
    BY <1>1, <1>6, <2>2 DEF Unharmed, engineVars
  <2>4. SentOf(n)' = SentOf(n)
    <3>1. CASE Open
      BY <1>1, <1>2, <2>1, <3>1 DEF Open, SentOf
    <3>2. CASE OpenFails
      <4>1. n # current + 1
        BY <1>2, <1>6, <3>2 DEF IInv, TypeOK, OpenFails, Unharmed
      <4> QED
        BY <1>1, <1>2, <2>1, <3>2, <4>1 DEF OpenFails, SentOf
    <3> QED
      BY <3>1, <3>2
  <2> QED
    BY <1>1, <2>2, <2>3, <2>4, TransitSame DEF IInv, engineVars
<1> QED
  BY <1>3, <1>4, <1>5, <1>6 DEF IInv

\* Sending the next message of a sentence.
LEMMA SendNext ==
  ASSUME IInv, current \in Number, Unharmed(current),
         NEW m \in Requests \cup {"end"}, Send(m), m = Message(current, SentOf(current) + 1),
         SentOf(current)' = SentOf(current) + 1, SentOf(current) < Chunks[current] + 3,
         UNCHANGED <<current, written, reader, request>>
  PROVE  InTransit(current)'
<1> DEFINE n == current
<1>1. InTransit(n)
  BY DEF IInv
<1>2. ~Ended(n) /\ reader[n] \notin {"done", "refused"}
  BY <1>1, NotEnded DEF IInv
<1>3. up'[n] = Append(up[n], m)
  BY <1>2 DEF Send, IInv, TypeOK
<1>4. /\ ReadOf(n) \in Nat /\ SentOf(n) \in 0..(Chunks[n] + 3) /\ Chunks[n] \in Nat
      /\ up[n] \in Seq(Requests \cup {"end"}) /\ Len(up[n]) \in Nat
  BY Numbers DEF IInv
<1>5. ReadOf(n)' = ReadOf(n)
  BY DEF ReadOf, CountOf
<1>6. \A i : Message(n, i)' = Message(n, i) /\ CountOf(n, i)' = CountOf(n, i)
  BY DEF Message, Part, CountOf
<1>7. SentOf(n) = ReadOf(n) + Len(up[n])
  BY <1>1 DEF InTransit
<1>8. SentOf(n)' = ReadOf(n)' + Len(up'[n])
  BY <1>3, <1>4, <1>5, <1>7
<1>9. ASSUME NEW i \in DOMAIN up'[n] PROVE up'[n][i] = Message(n, ReadOf(n) + i)
  <2>1. CASE i \in DOMAIN up[n]
    BY <1>1, <1>3, <1>4, <2>1 DEF InTransit
  <2>2. CASE i \notin DOMAIN up[n]
    <3>1. i = Len(up[n]) + 1 /\ up'[n][i] = m
      BY <1>3, <1>4, <1>9, <2>2
    <3> QED
      BY <1>4, <1>7, <3>1
  <2> QED
    BY <2>1, <2>2
<1>10. reader[n] = "writing" => request[n] = Message(n, ReadOf(n))
  BY <1>1 DEF InTransit
<1>11. \A j \in DOMAIN written : written[j][2] = n => written[j][1] = Message(n, CountOf(n, j))
  BY <1>1 DEF InTransit
<1>12. InTransit(n)'
  BY <1>2, <1>5, <1>6, <1>8, <1>9, <1>10, <1>11 DEF InTransit
<1> QED
  BY <1>12

\* spkPlay, from the first request to the end of the RPC.
LEMMA PlayerKeeps ==
  ASSUME IInv, SendPrepare \/ SendChunk \/ SendFails \/ SendComplete \/ CloseSend \/ Drained
  PROVE  IInv'
<1>1. UNCHANGED <<dialled, current, handlerVars, engineVars>> /\ player \notin {"idle", "panicked"}
  BY DEF SendPrepare, SendChunk, SendFails, SendComplete, CloseSend, Drained
<1>2. UNCHANGED <<reader, request, responder, listening, inbox, written, failures, cut, responses>>
  BY <1>1 DEF handlerVars, engineVars
<1>3. /\ current \in Number /\ current \in Nat /\ Chunks[current] \in Nat /\ left \in Nat
      /\ up \in [Number -> Seq(Requests \cup {"end"})]
      /\ player \in {"preparing", "sending", "closing", "draining"}
  BY <1>1, StreamAssumption DEF IInv, LeftBook, TypeOK, Number
<1>4. \A m \in Requests \cup {"end"} : Send(m) =>
        /\ up' \in [Number -> Seq(Requests \cup {"end"})]
        /\ \A n \in Number \ {current} : up'[n] = up[n]
  <2>1. \A m \in Requests \cup {"end"} :
          Append(up[current], m) \in Seq(Requests \cup {"end"})
    BY <1>3
  <2> QED
    BY <1>3, <2>1 DEF Send
<1>5. /\ up' \in [Number -> Seq(Requests \cup {"end"})]
      /\ \A n \in Number \ {current} : up'[n] = up[n]
  BY <1>3, <1>4 DEF SendPrepare, SendChunk, SendFails, SendComplete, CloseSend, Drained, Requests
<1>6. TypeOK' /\ LeftBook'
  <2>1. left' \in Nat /\ (left' = left \/ (player = "sending" /\ player' = "sending" /\ left' <= left))
    BY <1>3 DEF SendPrepare, SendChunk, SendFails, SendComplete, CloseSend, Drained
  <2>2. player' \in {"idle", "sending", "closing", "draining"}
        /\ (player' = "sending" => player \in {"preparing", "sending"})
    BY <1>3 DEF SendPrepare, SendChunk, SendFails, SendComplete, CloseSend, Drained
  <2>3. TypeOK'
    BY <1>1, <1>2, <1>5, <2>1, <2>2 DEF IInv, TypeOK
  <2>4. LeftBook'
    BY <1>1, <1>3, <2>1, <2>2 DEF IInv, LeftBook
  <2> QED
    BY <2>3, <2>4
<1>7. RpcBook'
  <2>1. player' = "idle" => Ended(current)
    BY DEF SendPrepare, SendChunk, SendFails, SendComplete, CloseSend, Drained
  <2> QED
    BY <1>1, <1>2, <2>1 DEF IInv, RpcBook, Ended
<1>8. WrittenBook' /\ OneAtATime'
  BY <1>1, <1>2 DEF IInv, WrittenBook, OneAtATime
<1>9. ASSUME NEW n \in Number, Unharmed(n)' PROVE InTransit(n)'
  <2>1. Unharmed(n) /\ InTransit(n)
    BY <1>2, <1>9 DEF IInv, Unharmed
  <2>2. CASE n # current
    <3>1. SentOf(n)' = SentOf(n)
      BY <1>1, <1>3, <2>2 DEF SentOf, Number
    <3> QED
      BY <1>2, <1>5, <2>1, <2>2, <3>1, TransitSame
  <2>3. CASE n = current
    <3>1. CASE SendPrepare
      <4>1. SentOf(n) = 0 /\ SentOf(n)' = 1 /\ Message(current, SentOf(current) + 1) = "prepare"
        BY <1>1, <1>3, <2>3, <3>1 DEF SentOf, SendPrepare, Message, Part, IInv, LeftBook
      <4> QED
        BY <1>1, <1>2, <1>3, <2>1, <2>3, <3>1, <4>1, SendNext DEF SendPrepare, Requests
    <3>2. CASE SendChunk
      <4>1. left <= Chunks[current] /\ left > 0
        BY <3>2 DEF IInv, LeftBook, SendChunk
      <4>2. SentOf(n) = 1 + (Chunks[n] - left) /\ SentOf(n)' = 1 + (Chunks[n] - (left - 1))
        BY <1>1, <1>3, <2>3, <3>2 DEF SentOf, SendChunk
      <4>3. Message(current, SentOf(current) + 1) = "chunk"
        BY <1>3, <2>3, <4>1, <4>2 DEF Message, Part
      <4>4. SentOf(n)' = SentOf(n) + 1 /\ SentOf(n) < Chunks[n] + 3
        BY <1>3, <2>3, <4>1, <4>2
      <4> QED
        BY <1>1, <1>2, <1>3, <2>1, <2>3, <3>2, <4>3, <4>4, SendNext DEF SendChunk, Requests
    <3>3. CASE SendFails
      <4>1. SentOf(n) < Chunks[n] + 3
        BY <1>3, <2>3, <3>3 DEF SentOf, SendFails
      <4> QED
        BY <2>1, <2>3, <3>3, <4>1, NotEnded DEF IInv, SendFails
    <3>4. CASE SendComplete
      <4>1. SentOf(n) = Chunks[n] + 1 /\ SentOf(n)' = Chunks[n] + 2
        BY <1>1, <1>3, <2>3, <3>4 DEF SentOf, SendComplete
      <4>2. Message(current, SentOf(current) + 1) = "complete"
        BY <1>3, <2>3, <4>1 DEF Message, Part
      <4>3. SentOf(n)' = SentOf(n) + 1 /\ SentOf(n) < Chunks[n] + 3
        BY <1>3, <2>3, <4>1
      <4> QED
        BY <1>1, <1>2, <1>3, <2>1, <2>3, <3>4, <4>2, <4>3, SendNext DEF SendComplete, Requests
    <3>5. CASE CloseSend
      <4>1. SentOf(n) = Chunks[n] + 2 /\ SentOf(n)' = Chunks[n] + 3
        BY <1>1, <1>3, <2>3, <3>5 DEF SentOf, CloseSend
      <4>2. Message(current, SentOf(current) + 1) = "end"
        BY <1>3, <2>3, <4>1 DEF Message, Part
      <4>3. SentOf(n)' = SentOf(n) + 1 /\ SentOf(n) < Chunks[n] + 3
        BY <1>3, <2>3, <4>1
      <4> QED
        BY <1>1, <1>2, <1>3, <2>1, <2>3, <3>5, <4>2, <4>3, SendNext DEF CloseSend
    <3>6. CASE Drained
      <4>1. SentOf(n)' = SentOf(n)
        BY <1>1, <1>3, <2>3, <3>6 DEF SentOf, Drained
      <4> QED
        BY <1>2, <2>1, <3>6, <4>1, TransitSame DEF Drained
    <3> QED
      BY <3>1, <3>2, <3>3, <3>4, <3>5, <3>6
  <2> QED
    BY <2>2, <2>3
<1> QED
  BY <1>6, <1>7, <1>8, <1>9 DEF IInv

-----------------------------------------------------------------------------
\* The request handler takes what is next, unless it is the end.
LEMMA ReadKeeps ==
  ASSUME IInv, NEW n \in Number, Read(n)
  PROVE  IInv'
<1>1. /\ reader[n] = "reading" /\ up[n] # <<>> /\ Head(up[n]) # "end"
      /\ up' = [up EXCEPT ![n] = Tail(@)]
      /\ request' = [request EXCEPT ![n] = Head(up[n])]
      /\ reader' = [reader EXCEPT ![n] = "writing"]
      /\ UNCHANGED <<dialled, current, player, left, responder, listening, inbox,
                     written, failures, cut, responses>>
  BY DEF Read, playerVars, engineVars
<1>2. /\ up \in [Number -> Seq(Requests \cup {"end"})]
      /\ request \in [Number -> Requests]
      /\ reader \in [Number -> {"none", "refused", "reading", "writing", "done"}]
  BY DEF IInv, TypeOK
<1>3. up[n] \in Seq(Requests \cup {"end"}) /\ up[n] # <<>>
  BY <1>1, <1>2
<1>4. Tail(up[n]) \in Seq(Requests \cup {"end"}) /\ Head(up[n]) \in Requests
  BY <1>1, <1>3
<1>5. TypeOK'
  <2>1. /\ up' \in [Number -> Seq(Requests \cup {"end"})]
        /\ request' \in [Number -> Requests]
        /\ reader' \in [Number -> {"none", "refused", "reading", "writing", "done"}]
    BY <1>1, <1>2, <1>4
  <2> QED
    BY <1>1, <2>1 DEF IInv, TypeOK
<1>6. RpcBook'
  BY <1>1, <1>2 DEF IInv, RpcBook, Ended
<1>7. WrittenBook' /\ OneAtATime' /\ LeftBook'
  BY <1>1 DEF IInv, WrittenBook, OneAtATime, LeftBook
<1>8. ASSUME NEW q \in Number, Unharmed(q)' PROVE InTransit(q)'
  <2>1. Unharmed(q) /\ InTransit(q)
    BY <1>1, <1>2, <1>8 DEF IInv, Unharmed
  <2>2. SentOf(q)' = SentOf(q)
    BY <1>1 DEF SentOf
  <2>3. CASE q # n
    BY <1>1, <1>2, <2>1, <2>2, <2>3, TransitSame
  <2>4. CASE q = n
    <3>1. /\ ReadOf(n) = CountOf(n, Len(written)) /\ ReadOf(n)' = CountOf(n, Len(written)) + 1
      <4>1. CountOf(n, Len(written)) \in Nat /\ Len(written) \in Nat
        BY Numbers DEF IInv
      <4>2. reader'[n] = "writing" /\ reader[n] # "writing"
        BY <1>1, <1>2
      <4>3. CountOf(n, Len(written))' = CountOf(n, Len(written))
        BY <1>1 DEF CountOf
      <4> QED
        BY <4>1, <4>2, <4>3 DEF ReadOf
    <3>2. /\ ReadOf(n) \in Nat /\ ReadOf(n)' = ReadOf(n) + 1 /\ Len(up[n]) \in Nat \ {0}
      <4>1. ReadOf(n) \in Nat
        BY Numbers DEF IInv
      <4> QED
        BY <1>3, <3>1, <4>1
    <3>3. /\ up'[n] = Tail(up[n]) /\ DOMAIN up'[n] = 1..(Len(up[n]) - 1)
          /\ Len(up'[n]) = Len(up[n]) - 1
          /\ \A i \in DOMAIN up'[n] : i + 1 \in DOMAIN up[n] /\ up'[n][i] = up[n][i + 1]
      BY <1>1, <1>2, <1>3
    <3>4. SentOf(n)' = ReadOf(n)' + Len(up'[n])
      <4>1. SentOf(n) = ReadOf(n) + Len(up[n])
        BY <2>1, <2>4 DEF InTransit
      <4> QED
        BY <2>2, <2>4, <3>2, <3>3, <4>1
    <3>5. \A i \in DOMAIN up'[n] : up'[n][i] = Message(n, ReadOf(n)' + i)
      <4>1. TAKE i \in DOMAIN up'[n]
      <4>2. up[n][i + 1] = Message(n, ReadOf(n) + (i + 1))
        BY <2>1, <2>4, <3>3 DEF InTransit
      <4>3. ReadOf(n) + (i + 1) = ReadOf(n)' + i
        BY <3>2, <3>3
      <4> QED
        BY <3>3, <4>2, <4>3
    <3>6. request'[n] = Message(n, ReadOf(n)')
      <4>1. 1 \in DOMAIN up[n] /\ request'[n] = up[n][1]
        BY <1>1, <1>2, <1>3
      <4>2. up[n][1] = Message(n, ReadOf(n) + 1)
        BY <2>1, <2>4, <4>1 DEF InTransit
      <4> QED
        BY <3>2, <4>1, <4>2
    <3>7. \A j \in DOMAIN written : written[j][2] = n => written[j][1] = Message(n, CountOf(n, j))
      BY <2>1, <2>4 DEF InTransit
    <3>8. \A i : Message(n, i)' = Message(n, i) /\ CountOf(n, i)' = CountOf(n, i)
      BY <1>1 DEF Message, Part, CountOf
    <3>9. reader'[n] = "writing" /\ written' = written
      BY <1>1, <1>2
    <3> QED
      BY <2>4, <3>4, <3>5, <3>6, <3>7, <3>8, <3>9 DEF InTransit
  <2> QED
    BY <2>3, <2>4
<1> QED
  BY <1>5, <1>6, <1>7, <1>8 DEF IInv

\* It is done: with the end of an unharmed sentence's messages before it.
LEMMA ReadEndKeeps ==
  ASSUME IInv, NEW n \in Number, ReadEnd(n)
  PROVE  IInv'
<1>1. /\ reader[n] = "reading" /\ reader' = [reader EXCEPT ![n] = "done"]
      /\ (up[n] # <<>> /\ Head(up[n]) = "end") \/ Ended(n)
      /\ UNCHANGED <<dialled, current, player, left, up, request, responder, listening, inbox,
                     written, failures, cut, responses>>
  BY DEF ReadEnd, playerVars, engineVars
<1>2. reader \in [Number -> {"none", "refused", "reading", "writing", "done"}]
  BY DEF IInv, TypeOK
<1>3. TypeOK'
  BY <1>1, <1>2 DEF IInv, TypeOK
<1>4. RpcBook'
  BY <1>1, <1>2 DEF IInv, RpcBook, Ended
<1>5. WrittenBook' /\ OneAtATime' /\ LeftBook'
  BY <1>1 DEF IInv, WrittenBook, OneAtATime, LeftBook
<1>6. ASSUME NEW q \in Number, Unharmed(q)' PROVE InTransit(q)'
  <2>1. Unharmed(q) /\ InTransit(q)
    BY <1>1, <1>2, <1>6 DEF IInv, Unharmed
  <2>2. SentOf(q)' = SentOf(q)
    BY <1>1 DEF SentOf
  <2>3. CASE q # n
    BY <1>1, <1>2, <2>1, <2>2, <2>3, TransitSame
  <2>4. CASE q = n
    <3>1. ~Ended(n)
      BY <1>1, <2>1, <2>4 DEF IInv, RpcBook, Ended, Unharmed
    <3>2. ReadOf(n)' = ReadOf(n)
      BY <1>1, <1>2 DEF ReadOf, CountOf
    <3>3. \A i : Message(n, i)' = Message(n, i) /\ CountOf(n, i)' = CountOf(n, i)
      BY <1>1 DEF Message, Part, CountOf
    <3>4. reader'[n] = "done" /\ up' = up /\ written' = written
      BY <1>1, <1>2
    <3> QED
      BY <1>1, <2>1, <2>2, <2>4, <3>1, <3>2, <3>3, <3>4 DEF InTransit
  <2> QED
    BY <2>3, <2>4
<1> QED
  BY <1>3, <1>4, <1>5, <1>6 DEF IInv

\* What is written of a sentence whose turn is over is of one that was cut off.
LEMMA WriteKeeps ==
  ASSUME IInv, NEW n \in Number, Write(n)
  PROVE  IInv'
<1>1. /\ reader[n] = "writing" /\ reader' = [reader EXCEPT ![n] = "reading"]
      /\ written' = Append(written, <<request[n], n>>)
      /\ UNCHANGED <<dialled, current, player, left, up, request, responder, listening, inbox,
                     failures, cut, responses>>
  BY DEF Write, playerVars
<1>2. /\ reader \in [Number -> {"none", "refused", "reading", "writing", "done"}]
      /\ written \in Seq(Requests \X Number) /\ <<request[n], n>> \in Requests \X Number
      /\ current \in Nat
  BY DEF IInv, TypeOK
<1>3. PICK m \in Nat : m = Len(written)
  BY <1>2
<1>4. /\ DOMAIN written = 1..m /\ DOMAIN written' = 1..(m + 1) /\ Len(written') = m + 1
      /\ \A i \in 1..m : written'[i] = written[i]
      /\ written'[m + 1] = <<request[n], n>>
      /\ \A i \in 1..m : written[i][2] \in Nat
  BY <1>1, <1>2, <1>3 DEF Number
<1>5. TypeOK'
  <2>1. written' \in Seq(Requests \X Number)
    BY <1>1, <1>2
  <2>2. reader' \in [Number -> {"none", "refused", "reading", "writing", "done"}]
    BY <1>1, <1>2
  <2> QED
    BY <1>1, <2>1, <2>2 DEF IInv, TypeOK
<1>6. RpcBook'
  BY <1>1, <1>2 DEF IInv, RpcBook, Ended
<1>7. n <= current /\ n \in Nat
  BY <1>1 DEF IInv, RpcBook, Number
<1>8. WrittenBook'
  BY <1>1, <1>4, <1>7 DEF IInv, WrittenBook
<1>9. OneAtATime'
  <2>1. SUFFICES ASSUME NEW i \in 1..(m + 1), NEW j \in 1..(m + 1), i < j,
                        written'[j][2] < written'[i][2]
                 PROVE  written'[j][2] \in cut
    BY <1>1, <1>4 DEF OneAtATime
  <2>2. i \in 1..m /\ written'[i] = written[i]
    BY <1>4, <2>1
  <2>3. CASE j \in 1..m
    BY <1>4, <2>1, <2>2, <2>3 DEF IInv, OneAtATime
  <2>4. CASE j = m + 1
    <3>1. n < written[i][2] /\ written'[j][2] = n
      BY <1>4, <2>1, <2>2, <2>4
    <3>2. n < current
      <4>1. written[i][2] <= current /\ written[i][2] \in Nat
        BY <1>4, <2>2 DEF IInv, WrittenBook
      <4> QED
        BY <1>2, <1>7, <3>1, <4>1
    <3>3. n \in cut
      BY <1>1, <3>2 DEF IInv, RpcBook, Ended
    <3> QED
      BY <3>1, <3>3
  <2> QED
    BY <2>1, <2>3, <2>4
<1>10. LeftBook'
  BY <1>1 DEF IInv, LeftBook
<1>11. ASSUME NEW q \in Number, Unharmed(q)' PROVE InTransit(q)'
  <2>1. Unharmed(q) /\ InTransit(q)
    BY <1>1, <1>2, <1>11 DEF IInv, Unharmed
  <2>2. SentOf(q)' = SentOf(q)
    BY <1>1 DEF SentOf
  <2>3. \A i : Message(q, i)' = Message(q, i)
    BY DEF Message, Part
  <2>4. /\ \A j \in 1..m : CountOf(q, j)' = CountOf(q, j)
        /\ CountOf(q, m) \in Nat
        /\ CountOf(q, m + 1)' = CountOf(q, m) + (IF n = q THEN 1 ELSE 0)
    <3>1. /\ \A j \in 0..m : Places(written', q, j) = Places(written, q, j)
          /\ Cardinality(Places(written', q, m + 1)) =
               Cardinality(Places(written, q, m)) + (IF n = q THEN 1 ELSE 0)
      BY SMTT(40), <1>1, <1>2, <1>3, <1>4, CountAppend
    <3>2. Cardinality(Places(written, q, m)) \in Nat
      BY CountType
    <3>3. \A j : /\ CountOf(q, j) = Cardinality(Places(written, q, j))
                 /\ CountOf(q, j)' = Cardinality(Places(written', q, j))
      BY DEF CountOf, Places
    <3> QED
      BY <3>1, <3>2, <3>3
  <2>5. /\ ReadOf(q) = CountOf(q, m) + (IF reader[q] = "writing" THEN 1 ELSE 0)
        /\ ReadOf(q)' = CountOf(q, m + 1)' + (IF reader'[q] = "writing" THEN 1 ELSE 0)
    <3>1. \A j \in {m + 1} : Len(written') = j
      BY <1>4
    <3> QED
      BY <1>3, <1>4 DEF ReadOf, CountOf
  <2>6. ReadOf(q)' = ReadOf(q)
    <3>1. CASE q = n
      BY <1>1, <1>2, <2>4, <2>5, <3>1
    <3>2. CASE q # n
      BY <1>1, <1>2, <2>4, <2>5, <3>2
    <3> QED
      BY <3>1, <3>2
  <2>7. ASSUME NEW j \in 1..(m + 1), written'[j][2] = q
        PROVE  written'[j][1] = Message(q, CountOf(q, j)')
    <3>1. CASE j \in 1..m
      BY SMTT(40), <1>4, <2>1, <2>4, <2>7, <3>1 DEF InTransit
    <3>2. CASE j = m + 1
      <4>1. q = n /\ written'[j][1] = request[n]
        BY <1>4, <2>7, <3>2
      <4>2. request[n] = Message(n, ReadOf(n))
        BY <1>1, <2>1, <4>1 DEF InTransit
      <4>3. CountOf(q, j)' = ReadOf(n)
        BY <1>1, <2>4, <2>5, <3>2, <4>1
      <4> QED
        BY <4>1, <4>2, <4>3
    <3> QED
      BY <2>7, <3>1, <3>2
  <2>8. reader'[q] = "writing" => reader[q] = "writing"
    BY <1>1, <1>2
  <2>9. reader'[q] = "done" => reader[q] = "done"
    BY <1>1, <1>2
  <2> QED
    BY <1>1, <1>4, <2>1, <2>2, <2>3, <2>6, <2>7, <2>8, <2>9 DEF InTransit
<1> QED
  BY <1>5, <1>6, <1>8, <1>9, <1>10, <1>11 DEF IInv

\* A write that fails harms the sentence.
LEMMA WriteFailsKeeps ==
  ASSUME IInv, NEW n \in Number, WriteFails(n)
  PROVE  IInv'
<1>1. /\ reader[n] = "writing" /\ reader' = [reader EXCEPT ![n] = "reading"]
      /\ failures' = Append(failures, n)
      /\ UNCHANGED <<dialled, current, player, left, up, request, responder, listening, inbox,
                     written, cut, responses>>
  BY DEF WriteFails, playerVars
<1>2. /\ reader \in [Number -> {"none", "refused", "reading", "writing", "done"}]
      /\ failures \in Seq(Number)
  BY DEF IInv, TypeOK
<1>3. TypeOK'
  <2>1. failures' \in Seq(Number)
    BY <1>1, <1>2
  <2> QED
    BY <1>1, <1>2, <2>1 DEF IInv, TypeOK
<1>4. RpcBook'
  BY <1>1, <1>2 DEF IInv, RpcBook, Ended
<1>5. WrittenBook' /\ OneAtATime' /\ LeftBook'
  BY <1>1 DEF IInv, WrittenBook, OneAtATime, LeftBook
<1>6. ASSUME NEW q \in Number, Unharmed(q)' PROVE InTransit(q)'
  <2>1. /\ \A i \in DOMAIN failures : i \in DOMAIN failures' /\ failures'[i] = failures[i]
        /\ Len(failures) + 1 \in DOMAIN failures' /\ failures'[Len(failures) + 1] = n
    BY <1>1, <1>2
  <2>2. q # n
    BY <1>6, <2>1 DEF Unharmed
  <2>3. Unharmed(q)
    BY <1>1, <1>2, <1>6, <2>1, <2>2 DEF Unharmed
  <2>4. SentOf(q)' = SentOf(q)
    BY <1>1 DEF SentOf
  <2> QED
    BY <1>1, <1>2, <2>2, <2>3, <2>4, TransitSame DEF IInv
<1> QED
  BY <1>3, <1>4, <1>5, <1>6 DEF IInv

\* The response handler, and the engine's responses.
LEMMA ResponderKeeps ==
  ASSUME IInv, NEW n \in Number,
         Accept(n) \/ Respond(n) \/ EndResponses(n) \/ Return(n) \/ EngineResponds
  PROVE  IInv'
<1>1. UNCHANGED <<dialled, current, player, left, up, request, written, failures>>
  BY DEF Accept, Respond, EndResponses, Return, EngineResponds, playerVars, engineVars
<1>2. /\ reader \in [Number -> {"none", "refused", "reading", "writing", "done"}]
      /\ responder \in [Number -> {"none", "running", "leaving", "returned"}]
      /\ listening \subseteq Number /\ cut \subseteq Number
      /\ inbox \in [Number -> {0, 1}]
      /\ responses \in 0..MaxResponses
  BY DEF IInv, TypeOK
<1>3. \/ reader' = reader
      \/ reader[n] = "none" /\ reader' = [reader EXCEPT ![n] = "reading"]
  BY DEF Accept, Respond, EndResponses, Return, EngineResponds, engineVars, IInv, RpcBook
<1>4. TypeOK'
  <2>1. CASE Accept(n)
    BY <1>1, <1>2, <2>1 DEF IInv, TypeOK, Accept, engineVars
  <2>2. CASE Respond(n)
    BY <1>1, <1>2, <2>2 DEF IInv, TypeOK, Respond, engineVars
  <2>3. CASE EndResponses(n)
    BY <1>1, <1>2, <2>3 DEF IInv, TypeOK, EndResponses, engineVars
  <2>4. CASE Return(n)
    BY <1>1, <1>2, <2>4 DEF IInv, TypeOK, Return, engineVars
  <2>5. CASE EngineResponds
    <3>1. responses + 1 \in 0..MaxResponses
      BY <1>2, <2>5, StreamAssumption DEF EngineResponds
    <3> QED
      BY <1>1, <1>2, <2>5, <3>1 DEF IInv, TypeOK, EngineResponds
  <2> QED
    BY <2>1, <2>2, <2>3, <2>4, <2>5
<1>5. RpcBook'
  <2>1. CASE Accept(n)
    BY <1>1, <1>2, <2>1 DEF IInv, RpcBook, Accept, Ended, engineVars
  <2>2. CASE Respond(n)
    BY <1>1, <1>2, <2>2 DEF IInv, RpcBook, Respond, Ended, engineVars
  <2>3. CASE EndResponses(n)
    BY <1>1, <1>2, <2>3 DEF IInv, RpcBook, EndResponses, Ended, engineVars
  <2>4. CASE Return(n)
    BY <1>1, <1>2, <2>4 DEF IInv, RpcBook, Return, Ended, engineVars
  <2>5. CASE EngineResponds
    BY <1>1, <1>2, <2>5 DEF IInv, RpcBook, EngineResponds, Ended
  <2> QED
    BY <2>1, <2>2, <2>3, <2>4, <2>5
<1>6. cut \subseteq cut'
  BY DEF Accept, Respond, EndResponses, Return, EngineResponds, engineVars
<1>7. WrittenBook' /\ OneAtATime' /\ LeftBook'
  BY <1>1, <1>6 DEF IInv, WrittenBook, OneAtATime, LeftBook
<1>8. ASSUME NEW q \in Number, Unharmed(q)' PROVE InTransit(q)'
  <2>1. Unharmed(q) /\ InTransit(q)
    BY <1>1, <1>2, <1>3, <1>6, <1>8 DEF IInv, Unharmed
  <2>2. SentOf(q)' = SentOf(q)
    BY <1>1 DEF SentOf
  <2>3. CASE reader'[q] = reader[q]
    BY <1>1, <2>1, <2>2, <2>3, TransitSame
  <2>4. CASE reader[q] = "none" /\ reader'[q] = "reading"
    <3>1. ReadOf(q)' = ReadOf(q)
      BY <1>1, <2>4 DEF ReadOf, CountOf
    <3>2. \A i : Message(q, i)' = Message(q, i) /\ CountOf(q, i)' = CountOf(q, i)
      BY <1>1 DEF Message, Part, CountOf
    <3> QED
      BY <1>1, <2>1, <2>2, <2>4, <3>1, <3>2 DEF InTransit
  <2> QED
    BY <1>2, <1>3, <2>3, <2>4
<1> QED
  BY <1>4, <1>5, <1>7, <1>8 DEF IInv

\* The first dial, and a sentence that comes before it.
LEMMA DialKeeps ==
  ASSUME IInv, Dial \/ OpenPanics
  PROVE  IInv'
<1>1. UNCHANGED <<current, left, up, reader, request, responder, listening, inbox,
                  written, failures, cut, responses>>
  BY DEF Dial, OpenPanics, handlerVars, engineVars
<1>2. /\ dialled' \in BOOLEAN /\ (dialled => dialled')
      /\ \/ player' = player /\ player # "panicked"
         \/ ~dialled /\ player' = "panicked"
  BY DEF Dial, OpenPanics, IInv, TypeOK
<1>3. TypeOK' /\ LeftBook'
  BY <1>1, <1>2 DEF IInv, TypeOK, LeftBook
<1>4. RpcBook' /\ WrittenBook' /\ OneAtATime'
  BY <1>1, <1>2 DEF IInv, RpcBook, Ended, WrittenBook, OneAtATime
<1>5. ASSUME NEW n \in Number, Unharmed(n)' PROVE InTransit(n)'
  <2>1. Unharmed(n)
    BY <1>1, <1>5 DEF Unharmed
  <2>2. SentOf(n)' = SentOf(n)
    BY <1>1, <1>2 DEF IInv, LeftBook, SentOf, Number
  <2> QED
    BY <1>1, <2>1, <2>2, TransitSame DEF IInv
<1> QED
  BY <1>3, <1>4, <1>5 DEF IInv

LEMMA NextIInv == IInv /\ [Next]_vars => IInv'
<1> SUFFICES ASSUME IInv, [Next]_vars PROVE IInv'
  OBVIOUS
<1>1. CASE UNCHANGED vars
  <2>1. TypeOK' /\ RpcBook' /\ WrittenBook' /\ OneAtATime' /\ LeftBook'
    BY <1>1 DEF IInv, TypeOK, RpcBook, Ended, WrittenBook, OneAtATime, LeftBook, vars, playerVars,
       handlerVars, engineVars
  <2>2. ASSUME NEW n \in Number, Unharmed(n)' PROVE InTransit(n)'
    <3>1. Unharmed(n) /\ SentOf(n)' = SentOf(n)
      BY <1>1, <2>2 DEF Unharmed, SentOf, vars, playerVars, handlerVars, engineVars
    <3> QED
      BY <1>1, <3>1, TransitSame DEF IInv, vars, handlerVars, engineVars
  <2> QED
    BY <2>1, <2>2 DEF IInv
<1>2. CASE EngineResponds
  <2>1. 1 \in DOMAIN written /\ written[1][2] \in Number
    <3>1. written \in Seq(Requests \X Number) /\ written # <<>>
      BY <1>2 DEF IInv, TypeOK, EngineResponds
    <3> QED
      BY <3>1
  <2> QED
    BY <1>2, <2>1, ResponderKeeps
<1> QED
  BY <1>1, <1>2, DialKeeps, OpenKeeps, PlayerKeeps, ReadKeeps, ReadEndKeeps, WriteKeeps, WriteFailsKeeps,
     ResponderKeeps DEF Next, PlayerStep, ReaderStep, ResponderStep

-----------------------------------------------------------------------------
THEOREM Inductive == Spec => []IInv
<1>1. Init => IInv
  BY InitIInv
<1>2. IInv /\ [Next]_vars => IInv'
  BY NextIInv
<1> QED
  BY <1>1, <1>2, PTL DEF Spec

\* The types of the player, of both handlers of every stream and of their channels.
THEOREM TypeCorrect == Spec => []TypeOK
<1>1. IInv => TypeOK
  BY DEF IInv
<1> QED
  BY <1>1, Inductive, PTL

\* Nothing of a sentence is written to the engine after something of a later one,
\* unless the registry closed its response channel.
THEOREM StreamsDoNotMix == Spec => []OneAtATime
<1>1. IInv => OneAtATime
  BY DEF IInv
<1> QED
  BY <1>1, Inductive, PTL

\* When spkPlay comes back from a sentence that nothing harmed, the engine has been
\* sent all of it, each part once and in order: what is on its way at the end is
\* the end, since the request handler, which must be done, has seen it.
LEMMA PlayedInFull ==
  ASSUME IInv, NEW n \in Number, Unharmed(n),
         n < current \/ (n = current /\ player = "idle")
  PROVE  /\ CountOf(n, Len(written)) = Chunks[n] + 2
         /\ \A j \in DOMAIN written : written[j][2] = n => written[j][1] = Part(n, CountOf(n, j))
<1>1. InTransit(n)
  BY DEF IInv
<1>2. /\ ReadOf(n) \in Nat /\ SentOf(n) \in 0..(Chunks[n] + 3) /\ Chunks[n] \in Nat
      /\ up[n] \in Seq(Requests \cup {"end"}) /\ Len(up[n]) \in Nat
      /\ CountOf(n, Len(written)) \in Nat
  BY Numbers DEF IInv
<1>3. reader[n] = "done"
  BY DEF IInv, RpcBook, Ended, Unharmed
<1>4. up[n] # <<>> /\ Head(up[n]) = "end"
  BY <1>1, <1>3 DEF InTransit
<1>5. Len(up[n]) \in Nat \ {0} /\ 1 \in DOMAIN up[n] /\ up[n][1] = "end"
  BY <1>2, <1>4
<1>6. Message(n, ReadOf(n) + 1) = "end" /\ SentOf(n) >= ReadOf(n) + 1
  BY <1>1, <1>2, <1>5 DEF InTransit
<1>7. ReadOf(n) + 1 > Chunks[n] + 2
  <2>1. Part(n, ReadOf(n) + 1) # "end"
    BY DEF Part
  <2> QED
    BY <1>2, <1>6, <2>1 DEF Message
<1>8. CountOf(n, Len(written)) = Chunks[n] + 2
  <2>1. ReadOf(n) = CountOf(n, Len(written))
    BY <1>2, <1>3 DEF ReadOf
  <2> QED
    BY <1>2, <1>6, <1>7, <2>1
<1>9. ASSUME NEW j \in DOMAIN written, written[j][2] = n
      PROVE  written[j][1] = Part(n, CountOf(n, j))
  <2>1. written[j][1] = Message(n, CountOf(n, j))
    BY <1>1, <1>9 DEF InTransit
  <2>2. written[j][1] \in Requests
    <3>1. written \in Seq(Requests \X Number)
      BY DEF IInv, TypeOK
    <3> QED
      BY <3>1
  <2>3. "end" \notin Requests
    BY DEF Requests
  <2> QED
    BY <2>1, <2>2, <2>3 DEF Message
<1> QED
  BY <1>8, <1>9

\* A sentence that was played, and that no failure or closed channel made a hole
\* in, was sent to the engine in full, in order and with its end, before the next
\* one may start.
THEOREM AlwaysInFull == Spec => []HeardInFull
<1>1. IInv => HeardInFull
  <2> SUFFICES ASSUME IInv, NEW n \in Number, Unharmed(n),
                      n < current \/ (n = current /\ player = "idle")
               PROVE  /\ CountOf(n, Len(written)) = Chunks[n] + 2
                      /\ \A j \in DOMAIN written :
                           written[j][2] = n => written[j][1] = Part(n, CountOf(n, j))
    BY DEF HeardInFull, Unharmed
  <2> QED
    BY PlayedInFull
<1> QED
  BY <1>1, Inductive, PTL

=============================================================================
