------------------------- MODULE IpcListenersProofs -------------------------
(***************************************************************************)
(* Theorems about the listener registry, for any number of channels,       *)
(* senders and tags and any capacities.                                    *)
(***************************************************************************)
EXTENDS IpcListeners, FiniteSetTheorems, TLAPS

\* What a sender is doing determines which of its sets can be nonempty, and
\* everything it still handles listens for the tag it sends.
SenderBook ==
  \A s \in Senders :
    /\ sender[s] # "sending" => sending[s] = {} /\ timedOut[s] = {}
    /\ sender[s] \in {"idle", "stopped"} => marked[s] = {}
    /\ sender[s] \in {"sending", "sweeping"} => sendTag[s] \in Tags
    /\ sender[s] = "sending" => sent[s][sendTag[s]] > 0
    /\ sending[s] \subseteq Listening(sendTag[s])

\* Channels that were never registered are open and empty.
FreshChannels ==
  \A c \in Channels : handler[c] \in {"idle", "creating", "refused"}
                        => closes[c] = 0 /\ buffer[c] = <<>>

\* The inductive invariant: why no channel is closed under a sender.  While a
\* sender has goroutines selecting on channels it is a reader, so nobody can
\* be past Lock(); and what the map lists is exactly what is open.
IInv ==
  /\ TypeOK
  /\ RegistryIsExact
  /\ NoPanic
  /\ SenderBook
  /\ FreshChannels

-----------------------------------------------------------------------------
\* The message a sender is propagating is one of Message.
LEMMA MessageInFlight ==
  ASSUME TypeOK, SenderBook, NEW s \in Senders, sender[s] = "sending"
  PROVE  <<s, sendTag[s], sent[s][sendTag[s]]>> \in Message
<1>1. sendTag[s] \in Tags
  BY DEF TypeOK, SenderBook
<1>2. sent[s][sendTag[s]] \in Nat /\ MaxSends[s][sendTag[s]] \in 0..MaxNumber
  BY <1>1, ConstantsAssumption DEF TypeOK
<1>3. sent[s][sendTag[s]] \in 1..MaxNumber
  BY <1>1, <1>2, ConstantsAssumption DEF TypeOK, SenderBook
<1> QED
  BY <1>1, <1>3 DEF Message

LEMMA MessageNumber ==
  ASSUME NEW m \in Message
  PROVE  m[1] \in Senders /\ m[2] \in Tags /\ m[3] \in Nat
  BY ConstantsAssumption DEF Message

\* Deleting channels under the write lock: what the map, the channels and the
\* invariants about them become.
LEMMA DeleteKeepsRegistry ==
  ASSUME TypeOK, RegistryIsExact, NoPanic, FreshChannels,
         NEW tag \in Tags, NEW D \in SUBSET Channels, DeleteListeners(D, tag)
  PROVE  /\ DOMAIN managedChannels' \subseteq Tags
         /\ \A t \in DOMAIN managedChannels' :
               managedChannels'[t] \subseteq Channels /\ managedChannels'[t] # {}
         /\ \A t \in Tags : Listening(t)' =
               IF t = tag THEN Listening(t) \ D ELSE Listening(t)
         /\ closes' \in [Channels -> Nat]
         /\ \A c \in Channels : closes'[c] =
               IF c \in D \cap Listening(tag) THEN 1 ELSE closes[c]
         /\ buffer' \in [Channels -> Seq(Message)]
         /\ \A c \in Channels : Len(buffer'[c]) <= Capacity
         /\ \A c \in Channels : buffer[c] = <<>> => buffer'[c] = <<>>
         /\ taken' = taken
<1> DEFINE L == D \cap Listening(tag)
<1>1. \A c \in L : c \in Channels /\ closes[c] = 0
  BY DEF RegistryIsExact
<1>2. closes' = [c \in Channels |-> IF c \in L THEN 1 ELSE closes[c]]
  BY <1>1 DEF DeleteListeners, SafeClose, TypeOK
<1>3. buffer' = [c \in Channels |-> IF c \in L /\ buffer[c] # <<>>
                                      THEN Tail(buffer[c]) ELSE buffer[c]]
  BY DEF DeleteListeners, SafeClose
<1>4. \A c \in Channels : buffer[c] # <<>> =>
        Tail(buffer[c]) \in Seq(Message) /\ Len(Tail(buffer[c])) <= Capacity
  BY ConstantsAssumption DEF TypeOK
<1>5. managedChannels' = Removed(D, tag)
  BY DEF DeleteListeners
<1>6. /\ DOMAIN managedChannels' \subseteq Tags
      /\ \A t \in DOMAIN managedChannels' :
            managedChannels'[t] \subseteq Channels /\ managedChannels'[t] # {}
  BY <1>5 DEF Removed, Listening, TypeOK, RegistryIsExact
<1>7. \A t \in Tags : Listening(t)' =
        IF t = tag THEN Listening(t) \ D ELSE Listening(t)
  BY <1>5 DEF Removed, Listening
<1>8. taken' = taken
  BY DEF DeleteListeners, SafeClose
<1> QED
  BY <1>2, <1>3, <1>4, <1>6, <1>7, <1>8 DEF TypeOK

-----------------------------------------------------------------------------
LEMMA InitIInv == Init => IInv
  BY ConstantsAssumption
  DEF Init, IInv, TypeOK, RegistryIsExact, NoPanic, SenderBook, FreshChannels,
      Listening

\* The steps that do not touch the map.
LEMMA LockIInv ==
  ASSUME IInv, NEW p \in Channels \cup Senders, Lock(p)
  PROVE  IInv'
  BY DEF IInv, Lock, channelVars, senderVars, TypeOK, RegistryIsExact, NoPanic,
         SenderBook, FreshChannels, Listening

LEMMA CreateIInv ==
  ASSUME IInv, NEW c \in Channels, CreateChannel(c) \/ CreateUniqueChannel(c)
  PROVE  IInv'
<1>1. handler' = [handler EXCEPT ![c] = handler'[c]]
      /\ handler[c] = "idle" /\ handler'[c] \in {"creating", "refused"}
  BY DEF IInv, TypeOK, CreateChannel, CreateUniqueChannel
<1>2. UNCHANGED <<managedChannels, writer, channelVars, senderVars>>
  BY DEF CreateChannel, CreateUniqueChannel
<1>3. TypeOK'
  BY ZenonT(60), <1>1, <1>2 DEF IInv, channelVars, senderVars, TypeOK
<1>4. RegistryIsExact'
  BY <1>1, <1>2 DEF IInv, channelVars, TypeOK, RegistryIsExact, Listening
<1>5. NoPanic' /\ SenderBook' /\ FreshChannels'
  BY <1>1, <1>2 DEF IInv, channelVars, senderVars, TypeOK, NoPanic, SenderBook,
                    FreshChannels, Listening
<1> QED
  BY <1>3, <1>4, <1>5 DEF IInv

LEMMA LeaveIInv ==
  ASSUME IInv, NEW c \in Channels, Leave(c)
  PROVE  IInv'
<1>1. handler[c] = "open" /\ handler' = [handler EXCEPT ![c] = "leaving"]
  BY DEF Leave
<1>2. UNCHANGED <<managedChannels, writer, channelVars, senderVars>>
  BY DEF Leave
<1>3. TypeOK'
  BY <1>1, <1>2 DEF IInv, channelVars, senderVars, TypeOK
<1>4. RegistryIsExact'
  BY <1>1, <1>2 DEF IInv, channelVars, TypeOK, RegistryIsExact, Listening
<1>5. NoPanic' /\ SenderBook' /\ FreshChannels'
  BY <1>1, <1>2 DEF IInv, channelVars, senderVars, TypeOK, NoPanic, SenderBook,
                    FreshChannels, Listening
<1> QED
  BY <1>3, <1>4, <1>5 DEF IInv

LEMMA ReceiveIInv ==
  ASSUME IInv, NEW c \in Channels, Receive(c)
  PROVE  IInv'
<1>1. /\ Head(buffer[c]) \in Message
      /\ Tail(buffer[c]) \in Seq(Message)
      /\ Len(Tail(buffer[c])) <= Capacity
  BY ConstantsAssumption DEF Receive, IInv, TypeOK
<1>2. Head(buffer[c])[3] \in Nat
  BY <1>1, MessageNumber
<1>3. TypeOK'
  BY <1>1, <1>2 DEF Receive, IInv, TypeOK, senderVars
<1>4. /\ UNCHANGED <<managedChannels, handler, closes, senderVars>>
      /\ handler[c] = "open" /\ \A d \in Channels : d # c => buffer'[d] = buffer[d]
  BY DEF Receive, IInv, TypeOK
<1>5. RegistryIsExact'
  BY <1>4 DEF IInv, RegistryIsExact, Listening
<1>6. NoPanic' /\ SenderBook'
  BY <1>4 DEF IInv, NoPanic, SenderBook, senderVars, Listening
<1>7. FreshChannels'
  BY <1>4 DEF IInv, FreshChannels
<1> QED
  BY <1>3, <1>5, <1>6, <1>7 DEF IInv

\* The steps under the write lock.  Nobody is sending then.
LEMMA RegisterIInv ==
  ASSUME IInv, NEW c \in Channels, Register(c)
  PROVE  IInv'
<1>1. \A s \in Senders : sending[s] = {}
  BY DEF IInv, Register, HoldsLock, Readers, SenderBook
<1>2. TagOf[c] \in Tags
  BY ConstantsAssumption
<1>3. /\ DOMAIN managedChannels' \subseteq Tags
      /\ \A t \in DOMAIN managedChannels' :
            managedChannels'[t] \subseteq Channels /\ managedChannels'[t] # {}
  BY <1>2 DEF IInv, Register, Added, Listening, TypeOK, RegistryIsExact
<1>4. \A t \in Tags : Listening(t)' =
        IF t = TagOf[c] THEN Listening(t) \cup {c} ELSE Listening(t)
  BY <1>2 DEF Register, Added, Listening
<1>5. TypeOK' /\ NoPanic' /\ SenderBook' /\ FreshChannels'
  BY <1>1, <1>3 DEF IInv, Register, channelVars, senderVars, TypeOK, NoPanic,
                    SenderBook, FreshChannels
<1>6. RegistryIsExact'
  BY <1>3, <1>4 DEF IInv, Register, channelVars, RegistryIsExact, TypeOK, FreshChannels
<1> QED
  BY <1>5, <1>6 DEF IInv

LEMMA UnregisterIInv ==
  ASSUME IInv, NEW c \in Channels, Unregister(c)
  PROVE  IInv'
<1>1. \A s \in Senders : sending[s] = {}
  BY DEF IInv, Unregister, HoldsLock, Readers, SenderBook
<1>2. TagOf[c] \in Tags /\ {c} \in SUBSET Channels
  BY ConstantsAssumption
<1>3. DeleteListeners({c}, TagOf[c])
  BY DEF Unregister
<1>4. c \in Listening(TagOf[c]) <=> closes[c] = 0
  BY <1>2 DEF IInv, RegistryIsExact, Unregister
<1>5. TypeOK' /\ NoPanic' /\ SenderBook' /\ FreshChannels'
  <2>1. /\ DOMAIN managedChannels' \subseteq Tags
        /\ \A t \in DOMAIN managedChannels' :
              managedChannels'[t] \subseteq Channels /\ managedChannels'[t] # {}
        /\ closes' \in [Channels -> Nat]
        /\ \A d \in Channels : closes'[d] =
             IF d \in {c} \cap Listening(TagOf[c]) THEN 1 ELSE closes[d]
        /\ buffer' \in [Channels -> Seq(Message)]
        /\ \A d \in Channels : Len(buffer'[d]) <= Capacity
        /\ \A d \in Channels : buffer[d] = <<>> => buffer'[d] = <<>>
        /\ taken' = taken
    BY <1>2, <1>3, DeleteKeepsRegistry DEF IInv
  <2>2. TypeOK'
    BY <2>1 DEF IInv, Unregister, senderVars, TypeOK
  <2>3. NoPanic' /\ SenderBook'
    BY <1>1, <2>1 DEF IInv, Unregister, senderVars, TypeOK, NoPanic, SenderBook
  <2>4. FreshChannels'
    <3>1. /\ handler' = [handler EXCEPT ![c] = "gone"]
          /\ handler \in [Channels -> {"idle", "creating", "refused", "open", "leaving", "gone"}]
      BY DEF IInv, Unregister, TypeOK
    <3>2. ASSUME NEW d \in Channels, handler'[d] \in {"idle", "creating", "refused"}
          PROVE  closes'[d] = 0 /\ buffer'[d] = <<>>
      <4>1. d # c /\ handler'[d] = handler[d]
        BY <3>1, <3>2
      <4>2. closes[d] = 0 /\ buffer[d] = <<>>
        BY <3>2, <4>1 DEF IInv, FreshChannels
      <4> QED
        BY <2>1, <4>1, <4>2
    <3> QED
      BY <3>2 DEF FreshChannels
  <2> QED
    BY <2>2, <2>3, <2>4
<1>6. RegistryIsExact'
  <2> DEFINE Open(t) == {d \in Channels : /\ TagOf[d] = t
                                          /\ handler[d] \in {"open", "leaving"}
                                          /\ closes[d] = 0}
  <2>1. /\ \A t \in DOMAIN managedChannels' : managedChannels'[t] # {}
        /\ \A t \in Tags : Listening(t)' =
             IF t = TagOf[c] THEN Listening(t) \ {c} ELSE Listening(t)
        /\ \A d \in Channels : closes'[d] =
             IF d \in {c} \cap Listening(TagOf[c]) THEN 1 ELSE closes[d]
    BY <1>2, <1>3, DeleteKeepsRegistry DEF IInv
  <2>2. ASSUME NEW t \in Tags  PROVE Listening(t)' = Open(t)'
    <3>1. Listening(t) = Open(t)
      BY DEF IInv, RegistryIsExact
    <3>2. \A d \in Channels : d # c => handler'[d] = handler[d] /\ closes'[d] = closes[d]
      BY <2>1 DEF Unregister, IInv, TypeOK
    <3>3. handler'[c] = "gone"
      BY DEF Unregister, IInv, TypeOK
    <3>4. c \notin Listening(t)'
      BY <2>1, <3>1
    <3>5. \A d \in Channels : d # c => (d \in Listening(t)' <=> d \in Listening(t))
      BY <2>1
    <3>6. Listening(t)' \subseteq Channels
      BY <2>1, <3>1
    <3> QED
      BY <3>1, <3>2, <3>3, <3>4, <3>5, <3>6
  <2> QED
    BY <2>1, <2>2 DEF RegistryIsExact
<1> QED
  BY <1>5, <1>6 DEF IInv

LEMMA SweepIInv ==
  ASSUME IInv, NEW s \in Senders, Sweep(s)
  PROVE  IInv'
<1>1. \A r \in Senders : sending[r] = {}
  BY DEF IInv, Sweep, HoldsLock, Readers, SenderBook
<1>2. sendTag[s] \in Tags /\ marked[s] \in SUBSET Channels
  BY DEF IInv, Sweep, SenderBook, TypeOK
<1>3. DeleteListeners(marked[s], sendTag[s])
  BY DEF Sweep
<1>4. /\ DOMAIN managedChannels' \subseteq Tags
      /\ \A t \in DOMAIN managedChannels' :
            managedChannels'[t] \subseteq Channels /\ managedChannels'[t] # {}
      /\ \A t \in Tags : Listening(t)' =
            IF t = sendTag[s] THEN Listening(t) \ marked[s] ELSE Listening(t)
      /\ closes' \in [Channels -> Nat]
      /\ \A c \in Channels : closes'[c] =
            IF c \in marked[s] \cap Listening(sendTag[s]) THEN 1 ELSE closes[c]
      /\ buffer' \in [Channels -> Seq(Message)]
      /\ \A c \in Channels : Len(buffer'[c]) <= Capacity
      /\ \A c \in Channels : buffer[c] = <<>> => buffer'[c] = <<>>
      /\ taken' = taken
  BY <1>2, <1>3, DeleteKeepsRegistry DEF IInv
<1>5. TypeOK'
  BY <1>4 DEF IInv, Sweep, TypeOK
<1>6. NoPanic' /\ SenderBook'
  BY <1>1, <1>4 DEF IInv, Sweep, TypeOK, NoPanic, SenderBook
<1>7. \A c \in Listening(sendTag[s]) : c \in Channels /\ handler[c] \in {"open", "leaving"}
  BY <1>2 DEF IInv, RegistryIsExact
<1>8. FreshChannels'
  BY <1>4, <1>7 DEF IInv, Sweep, FreshChannels
<1>9. RegistryIsExact'
  <2>1. ASSUME NEW t \in Tags
        PROVE  Listening(t)' = {c \in Channels : /\ TagOf[c] = t
                                                 /\ handler[c] \in {"open", "leaving"}
                                                 /\ closes'[c] = 0}
    <3>1. Listening(t) = {c \in Channels : /\ TagOf[c] = t
                                           /\ handler[c] \in {"open", "leaving"}
                                           /\ closes[c] = 0}
      BY DEF IInv, RegistryIsExact
    <3>2. \A c \in Listening(sendTag[s]) : TagOf[c] = sendTag[s]
      BY <1>2 DEF IInv, RegistryIsExact
    <3>3. CASE t = sendTag[s]
      <4>1. Listening(t)' = Listening(t) \ marked[s]
        BY <1>4, <3>3
      <4>2. \A c \in Channels : (c \in Listening(t) \ marked[s])
               <=> (c \in Listening(t) /\ closes'[c] = 0)
        BY <1>4, <3>1, <3>3
      <4>3. \A c \in Channels : closes'[c] = 0 => closes[c] = 0
        BY <1>4
      <4> QED
        BY <3>1, <4>1, <4>2, <4>3
    <3>4. CASE t # sendTag[s]
      <4>1. Listening(t)' = Listening(t)
        BY <1>4, <3>4
      <4>2. \A c \in Channels : TagOf[c] = t => closes'[c] = closes[c]
        BY <1>4, <3>2, <3>4
      <4> QED
        BY <3>1, <4>1, <4>2
    <3> QED
      BY <3>3, <3>4
  <2>2. handler' = handler
    BY DEF Sweep
  <2> QED
    BY <1>4, <2>1, <2>2 DEF RegistryIsExact
<1> QED
  BY <1>5, <1>6, <1>8, <1>9 DEF IInv

\* The steps of a sender that holds the read lock.
LEMMA StartSendIInv ==
  ASSUME IInv, NEW s \in Senders, NEW t \in Tags, StartSend(s, t)
  PROVE  IInv'
<1>1. Listening(t) \subseteq Channels /\ \A c \in Listening(t) : closes[c] = 0
  BY DEF IInv, RegistryIsExact
<1>2. sent[s] \in [Tags -> Nat] /\ MaxSends[s] \in [Tags -> 0..MaxNumber]
  BY ConstantsAssumption DEF IInv, TypeOK
<1>3. sent[s][t] + 1 \in Nat /\ sent[s][t] + 1 <= MaxSends[s][t] /\ sent[s][t] + 1 > 0
  BY <1>2 DEF StartSend
<1>4. sent' = [sent EXCEPT ![s] = [sent[s] EXCEPT ![t] = sent[s][t] + 1]]
  BY DEF StartSend
<1>5. /\ sent' \in [Senders -> [Tags -> Nat]]
      /\ \A r \in Senders, u \in Tags : sent'[r][u] <= MaxSends[r][u]
      /\ sent'[s][t] > 0
      /\ \A r \in Senders : r # s => sent'[r] = sent[r]
  BY <1>2, <1>3, <1>4 DEF IInv, TypeOK
<1>6. TypeOK'
  <2>1. /\ sender' \in [Senders -> {"idle", "sending", "sweeping", "stopped"}]
        /\ sendTag' \in [Senders -> Tags \cup {None}]
        /\ sending' \in [Senders -> SUBSET Channels]
    <3>1. sender' \in [Senders -> {"idle", "sending", "sweeping", "stopped"}]
      BY DEF IInv, StartSend, TypeOK
    <3>2. sendTag' \in [Senders -> Tags \cup {None}]
      BY DEF IInv, StartSend, TypeOK
    <3>3. sending' \in [Senders -> SUBSET Channels]
      BY ZenonT(60), <1>1 DEF IInv, StartSend, TypeOK
    <3> QED
      BY <3>1, <3>2, <3>3
  <2>2. UNCHANGED <<managedChannels, writer, handler, buffer, closes, taken,
                    timedOut, marked>>
    BY DEF StartSend, channelVars
  <2> QED
    BY <1>5, <2>1, <2>2 DEF IInv, TypeOK
<1>7. RegistryIsExact' /\ FreshChannels'
  BY DEF IInv, StartSend, channelVars, RegistryIsExact, FreshChannels, Listening
<1>8. UNCHANGED <<managedChannels, closes, timedOut, marked>>
  BY DEF StartSend, channelVars
<1>9. CASE Listening(t) = {}
  <2>1. UNCHANGED <<sender, sendTag, sending>> /\ sender[s] = "idle"
    BY <1>9 DEF StartSend
  <2> QED
    BY <1>5, <1>6, <1>7, <1>8, <2>1 DEF IInv, NoPanic, SenderBook, Listening
<1>10. CASE Listening(t) # {}
  <2>1. /\ sender' = [sender EXCEPT ![s] = "sending"]
        /\ sendTag' = [sendTag EXCEPT ![s] = t]
        /\ sending' = [sending EXCEPT ![s] = Listening(t)]
        /\ sender[s] = "idle"
    BY <1>10 DEF StartSend
  <2>2. Listening(t)' = Listening(t)
    BY <1>8 DEF Listening
  <2>3. NoPanic'
    BY <1>1, <1>8, <2>1 DEF IInv, TypeOK, NoPanic
  <2>4. \A r \in Senders : r # s => /\ sender'[r] = sender[r]
                                     /\ sendTag'[r] = sendTag[r]
                                     /\ sending'[r] = sending[r]
                                     /\ sent'[r] = sent[r]
    BY <1>5, <2>1 DEF IInv, TypeOK
  <2>5. /\ sender'[s] = "sending" /\ sendTag'[s] = t /\ sending'[s] = Listening(t)
        /\ marked[s] = {} /\ timedOut[s] = {}
    BY <2>1 DEF IInv, TypeOK, SenderBook
  <2>6. SenderBook'
    BY <1>5, <1>8, <2>4, <2>5 DEF IInv, SenderBook, Listening
  <2> QED
    BY <1>6, <1>7, <2>3, <2>6 DEF IInv
<1> QED
  BY <1>9, <1>10

LEMMA DeliverIInv ==
  ASSUME IInv, NEW s \in Senders, NEW c \in Channels, Deliver(s, c)
  PROVE  IInv'
<1>1. sender[s] = "sending"
  BY DEF IInv, Deliver, SenderBook
<1> DEFINE m == <<s, sendTag[s], sent[s][sendTag[s]]>>
<1>2. m \in Message
  BY <1>1, MessageInFlight DEF IInv
<1>3. Append(buffer[c], m) \in Seq(Message) /\ Len(Append(buffer[c], m)) <= Capacity
  BY <1>2, ConstantsAssumption DEF IInv, Deliver, TypeOK
<1>4. handler[c] \in {"open", "leaving"}
  BY <1>1 DEF IInv, Deliver, SenderBook, RegistryIsExact
<1>5. TypeOK'
  BY <1>3 DEF IInv, Deliver, TypeOK
<1>6. RegistryIsExact' /\ NoPanic'
  BY DEF IInv, Deliver, TypeOK, RegistryIsExact, NoPanic, Listening
<1>7. SenderBook'
  BY DEF IInv, Deliver, TypeOK, SenderBook, Listening
<1>8. FreshChannels'
  BY <1>4 DEF IInv, Deliver, TypeOK, FreshChannels
<1> QED
  BY <1>5, <1>6, <1>7, <1>8 DEF IInv

LEMMA TimeOutIInv ==
  ASSUME IInv, NEW s \in Senders, NEW c \in Channels, TimeOut(s, c) \/ Mark(s, c)
  PROVE  IInv'
<1>1. CASE TimeOut(s, c)
  <2>1. UNCHANGED <<managedChannels, handler, channelVars>>
    BY <1>1 DEF TimeOut
  <2>2. TypeOK'
    BY <1>1 DEF IInv, TimeOut, channelVars, TypeOK
  <2>3. RegistryIsExact' /\ FreshChannels'
    BY <2>1 DEF IInv, channelVars, RegistryIsExact, FreshChannels, Listening
  <2>4. NoPanic' /\ SenderBook'
    BY SMTT(40), <1>1 DEF IInv, TimeOut, channelVars, TypeOK, NoPanic, SenderBook, Listening
  <2> QED
    BY <2>2, <2>3, <2>4 DEF IInv
<1>2. CASE Mark(s, c)
  <2>1. UNCHANGED <<managedChannels, handler, channelVars>>
    BY <1>2 DEF Mark
  <2>2. TypeOK'
    BY <1>2 DEF IInv, Mark, channelVars, TypeOK
  <2>3. RegistryIsExact' /\ FreshChannels'
    BY <2>1 DEF IInv, channelVars, RegistryIsExact, FreshChannels, Listening
  <2>4. NoPanic' /\ SenderBook'
    BY <1>2 DEF IInv, Mark, channelVars, TypeOK, NoPanic, SenderBook, Listening
  <2> QED
    BY <2>2, <2>3, <2>4 DEF IInv
<1> QED
  BY <1>1, <1>2

LEMMA FinishSendIInv ==
  ASSUME IInv, NEW s \in Senders, FinishSend(s)
  PROVE  IInv'
<1>1. TypeOK'
  BY DEF IInv, FinishSend, channelVars, TypeOK
<1>2. UNCHANGED <<managedChannels, handler, channelVars, sending>>
  BY DEF FinishSend
<1>3. RegistryIsExact' /\ FreshChannels'
  BY <1>2 DEF IInv, channelVars, RegistryIsExact, FreshChannels, Listening
<1>4. NoPanic'
  BY <1>2 DEF IInv, channelVars, NoPanic
<1>5. SenderBook'
  BY ZenonT(60) DEF IInv, FinishSend, channelVars, TypeOK, SenderBook, Listening
<1> QED
  BY <1>1, <1>3, <1>4, <1>5 DEF IInv

LEMMA SocketEndsIInv ==
  ASSUME IInv, NEW s \in Senders, SocketEnds(s)
  PROVE  IInv'
<1>1. UNCHANGED <<managedChannels, handler, channelVars, sending>>
  BY DEF SocketEnds
<1>2. TypeOK'
  BY DEF IInv, SocketEnds, channelVars, TypeOK
<1>3. RegistryIsExact' /\ FreshChannels'
  BY <1>1 DEF IInv, channelVars, RegistryIsExact, FreshChannels, Listening
<1>4. NoPanic'
  BY <1>1 DEF IInv, channelVars, NoPanic
<1>5. SenderBook'
  BY DEF IInv, SocketEnds, channelVars, TypeOK, SenderBook, Listening
<1> QED
  BY <1>2, <1>3, <1>4, <1>5 DEF IInv

LEMMA StepIInv == IInv /\ [Next]_vars => IInv'
<1> SUFFICES ASSUME IInv, [Next]_vars  PROVE IInv'
  OBVIOUS
<1>1. ASSUME NEW p \in Channels \cup Senders, Lock(p)  PROVE IInv'
  BY <1>1, LockIInv
<1>2. ASSUME NEW c \in Channels, HandlerStep(c)  PROVE IInv'
  BY <1>2, CreateIInv, RegisterIInv, ReceiveIInv, LeaveIInv, UnregisterIInv
  DEF HandlerStep
<1>3. ASSUME NEW s \in Senders, SenderStep(s)  PROVE IInv'
  BY <1>3, StartSendIInv, DeliverIInv, TimeOutIInv, FinishSendIInv, SweepIInv,
     SocketEndsIInv
  DEF SenderStep
<1>4. CASE UNCHANGED vars
  BY <1>4 DEF IInv, vars, channelVars, senderVars, TypeOK, RegistryIsExact, NoPanic,
              SenderBook, FreshChannels, Listening
<1> QED
  BY <1>1, <1>2, <1>3, <1>4 DEF Next

THEOREM Invariance == Spec => []IInv
  BY InitIInv, StepIInv, PTL DEF Spec

\* The registry's variables keep their types and their bounds.
THEOREM TypeCorrect == Spec => []TypeOK
<1>1. IInv => TypeOK
  BY DEF IInv
<1> QED
  BY <1>1, Invariance, PTL

\* No goroutine sends on a closed channel and no channel is closed twice.
THEOREM NeverPanics == Spec => []NoPanic
<1>1. IInv => NoPanic
  BY DEF IInv
<1> QED
  BY <1>1, Invariance, PTL

\* The map lists exactly the open channels, under keys that are in use.
THEOREM RegistryCorrect == Spec => []RegistryIsExact
<1>1. IInv => RegistryIsExact
  BY DEF IInv
<1> QED
  BY <1>1, Invariance, PTL

-----------------------------------------------------------------------------
\* How many handlers it takes to wedge a sender.  A sender gives up on and
\* marks only channels of the tag it sends, each once.
MarkBook ==
  \A s \in Senders :
    /\ timedOut[s] \cup marked[s] \cup sending[s] \subseteq {c \in Channels : TagOf[c] = sendTag[s]}
    /\ timedOut[s] \cap marked[s] = {}
    /\ sending[s] \cap (timedOut[s] \cup marked[s]) = {}

LEMMA StepMarkBook == IInv /\ MarkBook /\ [Next]_vars => MarkBook'
<1> SUFFICES ASSUME IInv, MarkBook, [Next]_vars  PROVE MarkBook'
  OBVIOUS
<1>1. CASE UNCHANGED <<sendTag, sending, timedOut, marked>>
  BY <1>1 DEF MarkBook
<1>2. ASSUME NEW s \in Senders, NEW t \in Tags, StartSend(s, t)  PROVE MarkBook'
  <2>1. \A c \in Listening(t) : c \in Channels /\ TagOf[c] = t
    BY DEF IInv, RegistryIsExact
  <2>2. CASE Listening(t) = {}
    BY <1>2, <2>2 DEF StartSend, MarkBook
  <2>3. CASE Listening(t) # {}
    <3>1. /\ sendTag' = [sendTag EXCEPT ![s] = t]
          /\ sending' = [sending EXCEPT ![s] = Listening(t)]
          /\ UNCHANGED <<timedOut, marked>>
          /\ timedOut[s] = {} /\ marked[s] = {}
      BY <1>2, <2>3 DEF StartSend, IInv, SenderBook
    <3> QED
      BY <2>1, <3>1 DEF MarkBook, IInv, TypeOK
  <2> QED
    BY <2>2, <2>3
<1>3. ASSUME NEW s \in Senders, NEW c \in Channels, Deliver(s, c)  PROVE MarkBook'
  BY SMTT(40), <1>3 DEF Deliver, MarkBook, IInv, TypeOK
<1>4. ASSUME NEW s \in Senders, NEW c \in Channels, TimeOut(s, c)  PROVE MarkBook'
  BY <1>4 DEF TimeOut, MarkBook, IInv, TypeOK
<1>5. ASSUME NEW s \in Senders, NEW c \in Channels, Mark(s, c)  PROVE MarkBook'
  BY <1>5 DEF Mark, MarkBook, IInv, TypeOK
<1>6. ASSUME NEW s \in Senders, FinishSend(s) \/ Sweep(s)  PROVE MarkBook'
  <2>1. UNCHANGED <<sending, timedOut>> /\ sending[s] = {} /\ timedOut[s] = {}
    BY <1>6 DEF FinishSend, Sweep, IInv, SenderBook
  <2>2. \/ UNCHANGED <<sendTag, marked>>
        \/ marked'[s] = {} /\ \A r \in Senders : r # s => /\ marked'[r] = marked[r]
                                                          /\ sendTag'[r] = sendTag[r]
    BY <1>6 DEF FinishSend, Sweep, IInv, TypeOK
  <2> QED
    BY <2>1, <2>2 DEF MarkBook
<1> QED
  BY <1>1, <1>2, <1>3, <1>4, <1>5, <1>6
  DEF Next, HandlerStep, SenderStep, Lock, CreateChannel, CreateUniqueChannel,
      Register, Receive, Leave, Unregister, SocketEnds, senderVars, vars

\* While a sender is at it nobody can delete what it has given up or marked.
Listed ==
  \A s \in Senders : sender[s] = "sending" => timedOut[s] \cup marked[s] \subseteq Listening(sendTag[s])

LEMMA StepListed == IInv /\ Listed /\ [Next]_vars => Listed'
<1> SUFFICES ASSUME IInv, Listed, [Next]_vars  PROVE Listed'
  OBVIOUS
<1>1. CASE UNCHANGED <<managedChannels, sender, sendTag, sending, timedOut, marked>>
  BY <1>1 DEF Listed, Listening
<1>2. ASSUME NEW s \in Senders, NEW t \in Tags, StartSend(s, t)  PROVE Listed'
  <2>1. timedOut[s] = {} /\ marked[s] = {} /\ UNCHANGED <<managedChannels, timedOut, marked>>
    BY <1>2 DEF StartSend, IInv, SenderBook
  <2>2. \A r \in Senders \ {s} :
          sender'[r] = sender[r] /\ sendTag'[r] = sendTag[r] /\ sending'[r] = sending[r]
    BY <1>2 DEF StartSend, IInv, TypeOK
  <2> QED
    BY <2>1, <2>2 DEF Listed, Listening
<1>3. ASSUME NEW s \in Senders, NEW c \in Channels, Deliver(s, c)  PROVE Listed'
  BY SMTT(40), <1>3 DEF Deliver, Listed, Listening, IInv, TypeOK
<1>4. ASSUME NEW s \in Senders, NEW c \in Channels, TimeOut(s, c)  PROVE Listed'
  <2>1. /\ c \in sending[s] /\ sending[s] \subseteq Listening(sendTag[s])
        /\ UNCHANGED <<managedChannels, sender, sendTag, marked>>
    BY <1>4 DEF TimeOut, IInv, SenderBook
  <2>2. /\ sending'[s] = sending[s] \ {c} /\ timedOut'[s] = timedOut[s] \cup {c}
        /\ \A r \in Senders \ {s} : sending'[r] = sending[r] /\ timedOut'[r] = timedOut[r]
    BY <1>4 DEF TimeOut, IInv, TypeOK
  <2> QED
    BY <2>1, <2>2 DEF Listed, Listening
<1>5. ASSUME NEW s \in Senders, NEW c \in Channels, Mark(s, c)  PROVE Listed'
  <2>1. c \in timedOut[s] /\ UNCHANGED <<managedChannels, sender, sendTag, sending>>
    BY <1>5 DEF Mark
  <2>2. /\ timedOut'[s] = timedOut[s] \ {c} /\ marked'[s] = marked[s] \cup {c}
        /\ \A r \in Senders \ {s} : timedOut'[r] = timedOut[r] /\ marked'[r] = marked[r]
    BY <1>5 DEF Mark, IInv, TypeOK
  <2> QED
    BY <2>1, <2>2 DEF Listed, Listening
<1>6. ASSUME NEW s \in Senders, FinishSend(s)  PROVE Listed'
  <2>1. sender'[s] # "sending" /\ UNCHANGED <<managedChannels, sending, timedOut, marked>>
    BY <1>6 DEF FinishSend, IInv, TypeOK
  <2>2. \A r \in Senders \ {s} : sender'[r] = sender[r] /\ sendTag'[r] = sendTag[r]
    BY <1>6 DEF FinishSend, IInv, TypeOK
  <2> QED
    BY <2>1, <2>2 DEF Listed, Listening
<1>7. ASSUME NEW p \in Channels \cup Senders, HoldsLock(p),
             \A r \in Senders : sender'[r] = "sending" => sender[r] = "sending",
             UNCHANGED <<sending, timedOut>>,
             \A r \in Senders : marked'[r] \subseteq marked[r]
      PROVE  Listed'
  <2>1. \A r \in Senders : sender'[r] # "sending"
    BY <1>7 DEF HoldsLock, Readers
  <2> QED
    BY <1>7, <2>1 DEF Listed
<1>8. ASSUME NEW c \in Channels, Register(c) \/ Unregister(c)  PROVE Listed'
  <2>1. HoldsLock(c) /\ UNCHANGED senderVars
    BY <1>8 DEF Register, Unregister
  <2> QED
    BY <1>7, <2>1 DEF senderVars
<1>9. ASSUME NEW s \in Senders, Sweep(s)  PROVE Listed'
  <2>1. HoldsLock(s) /\ UNCHANGED <<sending, timedOut>>
    BY <1>9 DEF Sweep
  <2>2. \A r \in Senders : /\ sender'[r] = "sending" => sender[r] = "sending"
                          /\ marked'[r] \subseteq marked[r]
    BY <1>9 DEF Sweep, IInv, TypeOK
  <2> QED
    BY <1>7, <2>1, <2>2
<1>10. ASSUME NEW s \in Senders, SocketEnds(s)  PROVE Listed'
  <2>1. /\ \A r \in Senders : sender'[r] = "sending" => sender[r] = "sending"
        /\ UNCHANGED <<managedChannels, sendTag, sending, timedOut, marked>>
    BY <1>10 DEF SocketEnds, IInv, TypeOK
  <2> QED
    BY <2>1 DEF Listed, Listening
<1> QED
  BY <1>1, <1>2, <1>3, <1>4, <1>5, <1>6, <1>8, <1>9, <1>10
  DEF Next, HandlerStep, SenderStep, Lock, CreateChannel, CreateUniqueChannel,
      Receive, Leave, senderVars, vars

\* At no time do more than MarkCapacity handlers listen for one tag.
FewListen ==
  \A tag \in Tags : IsFiniteSet(Listening(tag)) /\ Cardinality(Listening(tag)) <= MarkCapacity

\* No sender is wedged as long as no more than MarkCapacity handlers listen for
\* one tag at a time, however many come and go: the five entries of markedForDelete
\* are enough for five listeners, and the run IpcWedge shows that they are not for
\* six.  While a sender is at it, what it has given up and what it has marked are
\* different channels, and all still listed.
THEOREM WedgeNeedsManyListeners == Spec /\ []FewListen => []NoSenderWedged
<1>1. Init => MarkBook /\ Listed
  BY DEF Init, MarkBook, Listed
<1>2. IInv /\ MarkBook /\ Listed /\ FewListen => NoSenderWedged
  <2> SUFFICES ASSUME IInv, MarkBook, Listed, FewListen, NEW s \in Senders, timedOut[s] # {}
               PROVE  Cardinality(marked[s]) < MarkCapacity
    BY DEF NoSenderWedged, MarkRoom
  <2> DEFINE L == Listening(sendTag[s])
  <2>1. sender[s] = "sending" /\ sendTag[s] \in Tags
    BY DEF IInv, TypeOK, SenderBook
  <2>2. IsFiniteSet(L) /\ Cardinality(L) <= MarkCapacity
    BY <2>1 DEF FewListen
  <2>3. marked[s] \subseteq L /\ marked[s] # L
    BY <2>1 DEF MarkBook, Listed
  <2> HIDE DEF L
  <2>4. /\ Cardinality(marked[s]) \in Nat /\ Cardinality(L) \in Nat
        /\ Cardinality(marked[s]) <= Cardinality(L)
        /\ Cardinality(marked[s]) # Cardinality(L)
    BY <2>2, <2>3, FS_Subset, FS_CardinalityType
  <2> QED
    BY <2>2, <2>4, ConstantsAssumption
<1> QED
  BY <1>1, <1>2, StepMarkBook, StepListed, Invariance, PTL DEF Spec

-----------------------------------------------------------------------------
\* The order in which a handler gets the messages of one sender s: those in the
\* channel q, after the last taken, t.
From(q, s) == {i \in DOMAIN q : q[i][1] = s}

InOrder(q, s, t) ==
  \A i \in From(q, s) : q[i][3] > t /\ \A j \in From(q, s) : j < i => q[j][3] < q[i][3]

Gapless(q, s, t) ==
  \A i \in From(q, s) : \/ q[i][3] = t + 1
                        \/ \E j \in From(q, s) : j < i /\ q[i][3] = q[j][3] + 1
                        \/ t = 0 /\ \A j \in From(q, s) : i <= j

\* Nothing after n was given, and n was, unless nothing at all.
UpTo(q, s, t, n) == t <= n /\ \A i \in From(q, s) : q[i][3] <= n

UpToDate(q, s, t, n) ==
  \/ t = 0 /\ From(q, s) = {}
  \/ t = n
  \/ \E i \in From(q, s) : q[i][3] = n

\* The number of the last message of sender s that channel c has been offered.
Offered(s, c) == sent[s][TagOf[c]] - (IF c \in sending[s] THEN 1 ELSE 0)

\* A channel that has missed a message is on its way to be deleted by the sender,
\* which sends nothing before that is done.
Misses(s, c) == closes[c] # 0 \/ c \in timedOut[s] \cup marked[s]

Fed(s, c) ==
  /\ InOrder(buffer[c], s, taken[c][s])
  /\ UpTo(buffer[c], s, taken[c][s], Offered(s, c))
  /\ closes[c] = 0 => Gapless(buffer[c], s, taken[c][s])
  /\ ~Misses(s, c) => UpToDate(buffer[c], s, taken[c][s], Offered(s, c))

OrderBook == \A c \in Channels, s \in Senders : Fed(s, c)

\* What comes of channels before and after they are on the list.
LifeBook ==
  \A c \in Channels :
    /\ handler[c] \in {"idle", "creating", "refused"} => \A s \in Senders : taken[c][s] = 0
    /\ handler[c] = "gone" => closes[c] > 0

\* The first message of a channel is taken by its handler, or dropped.
LEMMA TailOrder ==
  ASSUME NEW q \in Seq(Message), q # <<>>, NEW s \in Senders, NEW t \in Nat, NEW n \in Int,
         InOrder(q, s, t), UpTo(q, s, t, n)
  PROVE  LET u == IF Head(q)[1] = s THEN Head(q)[3] ELSE t
         IN  /\ InOrder(Tail(q), s, t) /\ UpTo(Tail(q), s, t, n)
             /\ InOrder(Tail(q), s, u) /\ UpTo(Tail(q), s, u, n)
             /\ Gapless(q, s, t) => Gapless(Tail(q), s, u)
             /\ UpToDate(q, s, t, n) => UpToDate(Tail(q), s, u, n)
<1> DEFINE r == Tail(q)
           u == IF Head(q)[1] = s THEN Head(q)[3] ELSE t
<1>1. PICK m \in Nat : m + 1 = Len(q)
  <2>1. Len(q) \in Nat \ {0}
    OBVIOUS
  <2> QED
    BY <2>1
<1>2. /\ DOMAIN q = 1..(m + 1) /\ DOMAIN r = 1..m /\ Head(q) = q[1]
      /\ \A i \in 1..m : r[i] = q[i + 1]
  BY <1>1
<1>3. \A i \in DOMAIN q : q[i] \in Message /\ q[i][3] \in Nat
  <2>1. \A i \in DOMAIN q : q[i] \in Message
    OBVIOUS
  <2> QED
    BY <2>1, MessageNumber
<1>4. \A i \in From(r, s) : i \in Nat /\ i + 1 \in From(q, s) /\ r[i] = q[i + 1]
  BY <1>2 DEF From
<1>5. \A i \in From(q, s) : i # 1 => i - 1 \in From(r, s) /\ r[i - 1] = q[i]
  BY <1>2 DEF From
<1>6. u \in Nat /\ \A i \in From(q, s) : i \in Nat /\ q[i][3] \in Nat
  BY <1>2, <1>3 DEF From
<1>7. 1 \in From(q, s) => u = q[1][3]
  BY <1>2 DEF From
<1>8. 1 \notin From(q, s) => u = t
  BY <1>2 DEF From
<1> HIDE DEF r, u
<1>9. InOrder(r, s, t) /\ UpTo(r, s, t, n)
  BY SMTT(40), <1>4, <1>6 DEF InOrder, UpTo
<1>10. InOrder(r, s, u) /\ UpTo(r, s, u, n)
  <2>1. CASE 1 \in From(q, s)
    <3>1. u <= n /\ \A i \in From(r, s) : q[i + 1][3] > u
      <4>1. \A i \in From(r, s) : 1 < i + 1
        BY <1>2 DEF From
      <4> QED
        BY <1>4, <1>7, <2>1, <4>1 DEF InOrder, UpTo
    <3> QED
      BY <1>4, <1>9, <3>1 DEF InOrder, UpTo
  <2>2. CASE 1 \notin From(q, s)
    BY <1>8, <1>9, <2>2
  <2> QED
    BY <2>1, <2>2
<1>11. ASSUME Gapless(q, s, t) PROVE Gapless(r, s, u)
  <2>1. SUFFICES ASSUME NEW i \in From(r, s)
                 PROVE  \/ r[i][3] = u + 1
                        \/ \E j \in From(r, s) : j < i /\ r[i][3] = r[j][3] + 1
                        \/ u = 0 /\ \A j \in From(r, s) : i <= j
    BY DEF Gapless
  <2>2. i \in Nat /\ i + 1 \in From(q, s) /\ r[i] = q[i + 1] /\ 1 <= i
    BY <1>2, <1>4 DEF From
  <2>3. CASE q[i + 1][3] = t + 1
    <3>1. 1 \notin From(q, s)
      <4>1. ASSUME 1 \in From(q, s) PROVE FALSE
        <5>1. q[1][3] > t /\ q[1][3] < q[i + 1][3]
          BY <2>2, <4>1 DEF InOrder
        <5> QED
          BY <1>6, <2>2, <2>3, <4>1, <5>1
      <4> QED
        BY <4>1
    <3> QED
      BY <1>8, <2>2, <2>3, <3>1
  <2>4. CASE \E j \in From(q, s) : j < i + 1 /\ q[i + 1][3] = q[j][3] + 1
    <3>1. PICK j \in From(q, s) : j < i + 1 /\ q[i + 1][3] = q[j][3] + 1
      BY <2>4
    <3>2. CASE j = 1
      BY <1>7, <2>2, <3>1, <3>2
    <3>3. CASE j # 1
      <4>1. j - 1 \in From(r, s) /\ r[j - 1] = q[j] /\ j - 1 < i
        BY <1>5, <1>6, <2>2, <3>1, <3>3
      <4> QED
        BY <2>2, <3>1, <4>1
    <3> QED
      BY <3>2, <3>3
  <2>5. CASE t = 0 /\ \A j \in From(q, s) : i + 1 <= j
    <3>1. 1 \notin From(q, s)
      BY <2>2, <2>5
    <3>2. \A j \in From(r, s) : i <= j
      BY <1>4, <2>2, <2>5
    <3> QED
      BY <1>8, <2>5, <3>1, <3>2
  <2> QED
    BY <1>11, <2>2, <2>3, <2>4, <2>5 DEF Gapless
<1>12. ASSUME UpToDate(q, s, t, n) PROVE UpToDate(r, s, u, n)
  <2>1. CASE t = 0 /\ From(q, s) = {}
    <3>1. From(r, s) = {} /\ u = t
      BY <1>4, <1>8, <2>1
    <3> QED
      BY <2>1, <3>1 DEF UpToDate
  <2>2. CASE t = n
    <3>1. From(q, s) = {}
      <4>1. \A i \in From(q, s) : q[i][3] > t /\ q[i][3] <= t
        BY <2>2 DEF InOrder, UpTo
      <4> QED
        BY <1>6, <4>1
    <3> QED
      BY <1>8, <2>2, <3>1 DEF UpToDate
  <2>3. CASE \E i \in From(q, s) : q[i][3] = n
    <3>1. PICK i \in From(q, s) : q[i][3] = n
      BY <2>3
    <3>2. CASE i = 1
      BY <1>7, <3>1, <3>2 DEF UpToDate
    <3>3. CASE i # 1
      BY <1>5, <3>1, <3>3 DEF UpToDate
    <3> QED
      BY <3>2, <3>3
  <2> QED
    BY <1>12, <2>1, <2>2, <2>3 DEF UpToDate
<1> QED
  BY <1>9, <1>10, <1>11, <1>12 DEF r, u

\* One more message is put in, of another sender, or the next of this one.
LEMMA AppendOrder ==
  ASSUME NEW q \in Seq(Message), NEW m \in Message, NEW s \in Senders, NEW t \in Nat,
         NEW n \in Int, InOrder(q, s, t), UpTo(q, s, t, n)
  PROVE  LET r == Append(q, m)
         IN  /\ m[1] # s => /\ InOrder(r, s, t) /\ UpTo(r, s, t, n)
                            /\ Gapless(q, s, t) => Gapless(r, s, t)
                            /\ UpToDate(q, s, t, n) => UpToDate(r, s, t, n)
             /\ m[1] = s /\ m[3] = n + 1 =>
                  /\ InOrder(r, s, t) /\ UpTo(r, s, t, n + 1) /\ UpToDate(r, s, t, n + 1)
                  /\ Gapless(q, s, t) /\ UpToDate(q, s, t, n) => Gapless(r, s, t)
<1> DEFINE r == Append(q, m)
<1>1. PICK l \in Nat : l = Len(q)
  OBVIOUS
<1>2. /\ DOMAIN q = 1..l /\ DOMAIN r = 1..(l + 1)
      /\ \A i \in 1..l : r[i] = q[i]
      /\ r[l + 1] = m
  BY <1>1
<1>3. m[3] \in Nat /\ \A i \in 1..l : q[i][3] \in Nat
  <2>1. \A i \in 1..l : q[i] \in Message
    BY <1>2
  <2> QED
    BY <2>1, MessageNumber
<1> HIDE DEF r
<1>4. From(q, s) \subseteq 1..l /\ \A i \in From(q, s) : i < l + 1 /\ r[i] = q[i]
  BY <1>2 DEF From
<1>5. CASE m[1] # s
  <2>1. From(r, s) = From(q, s)
    BY <1>2, <1>5 DEF From
  <2>2. InOrder(r, s, t) /\ UpTo(r, s, t, n)
    BY <1>4, <2>1 DEF InOrder, UpTo
  <2>3. Gapless(q, s, t) => Gapless(r, s, t)
    BY <1>4, <2>1 DEF Gapless
  <2>4. UpToDate(q, s, t, n) => UpToDate(r, s, t, n)
    BY <1>4, <2>1 DEF UpToDate
  <2> QED
    BY <1>5, <2>2, <2>3, <2>4 DEF r
<1>6. CASE m[1] = s /\ m[3] = n + 1
  <2>1. From(r, s) = From(q, s) \cup {l + 1}
    BY <1>2, <1>6 DEF From
  <2>2. \A i \in From(q, s) : q[i][3] < n + 1 /\ q[i][3] \in Nat
    BY SMTT(40), <1>3, <1>4 DEF UpTo
  <2>3. t < n + 1
    BY DEF UpTo
  <2>4. InOrder(r, s, t)
    BY <1>2, <1>4, <1>6, <2>1, <2>2, <2>3 DEF InOrder
  <2>5. UpTo(r, s, t, n + 1) /\ UpToDate(r, s, t, n + 1)
    BY <1>2, <1>4, <1>6, <2>1, <2>2, <2>3 DEF UpTo, UpToDate
  <2>6. ASSUME Gapless(q, s, t), UpToDate(q, s, t, n) PROVE Gapless(r, s, t)
    <3>1. ASSUME NEW i \in From(q, s)
          PROVE  \/ r[i][3] = t + 1
                 \/ \E j \in From(r, s) : j < i /\ r[i][3] = r[j][3] + 1
                 \/ t = 0 /\ \A j \in From(r, s) : i <= j
      BY SMTT(40), <1>4, <2>1, <2>6 DEF Gapless
    <3>2. \/ r[l + 1][3] = t + 1
          \/ \E j \in From(r, s) : j < l + 1 /\ r[l + 1][3] = r[j][3] + 1
          \/ t = 0 /\ \A j \in From(r, s) : l + 1 <= j
      BY <1>2, <1>4, <1>6, <2>1, <2>6 DEF UpToDate
    <3> QED
      BY <2>1, <3>1, <3>2 DEF Gapless
  <2> QED
    BY <1>5, <1>6, <2>4, <2>5, <2>6 DEF r
<1> QED
  BY <1>5, <1>6 DEF r

\* Nothing changes for a channel and a sender that the step does not concern.
LEMMA FedSame ==
  ASSUME NEW c \in Channels, NEW s \in Senders, Fed(s, c),
         buffer'[c] = buffer[c], taken'[c][s] = taken[c][s],
         Offered(s, c)' = Offered(s, c),
         closes'[c] = 0 => closes[c] = 0, Misses(s, c) => Misses(s, c)'
  PROVE  Fed(s, c)'
  BY DEF Fed

LEMMA OfferedType ==
  ASSUME IInv, MarkBook, NEW c \in Channels, NEW s \in Senders
  PROVE  /\ Offered(s, c) \in Nat /\ sent[s][TagOf[c]] \in Nat
         /\ taken[c][s] \in Nat /\ buffer[c] \in Seq(Message)
         /\ c \in sending[s] => /\ sender[s] = "sending" /\ sendTag[s] = TagOf[c] /\ closes[c] = 0
                                /\ sent[s][TagOf[c]] > 0 /\ ~Misses(s, c)
<1>1. TagOf[c] \in Tags /\ sent[s][TagOf[c]] \in Nat
      /\ taken[c][s] \in Nat /\ buffer[c] \in Seq(Message)
  BY ConstantsAssumption DEF IInv, TypeOK
<1>2. c \in sending[s] => /\ sender[s] = "sending" /\ sendTag[s] = TagOf[c] /\ closes[c] = 0
                          /\ sent[s][TagOf[c]] > 0 /\ ~Misses(s, c)
  BY DEF IInv, SenderBook, NoPanic, MarkBook, Misses
<1> QED
  BY <1>1, <1>2 DEF Offered

\* Channels are deleted: each may lose the message it holds, and is closed.
LEMMA DeleteFed ==
  ASSUME IInv, MarkBook, OrderBook, NEW tag \in Tags, NEW D \in SUBSET Channels,
         DeleteListeners(D, tag), UNCHANGED <<sent, sending>>,
         NEW c \in Channels, NEW s \in Senders,
         Misses(s, c) => Misses(s, c)' \/ UpToDate(buffer'[c], s, taken'[c][s], Offered(s, c)')
  PROVE  Fed(s, c)'
<1> DEFINE L == D \cap Listening(tag)
<1>1. /\ closes[c] \in Nat /\ closes \in [Channels -> Nat]
      /\ taken' = taken
      /\ closes'[c] = IF c \in L /\ (closes[c] = 0 \/ buffer[c] # <<>>)
                        THEN closes[c] + 1 ELSE closes[c]
      /\ buffer'[c] = IF c \in L /\ buffer[c] # <<>> THEN Tail(buffer[c]) ELSE buffer[c]
  BY DEF IInv, TypeOK, DeleteListeners, SafeClose
<1>2. Offered(s, c)' = Offered(s, c)
  BY DEF Offered
<1>3. Fed(s, c)
  BY DEF OrderBook
<1>4. CASE buffer'[c] = buffer[c]
  <2>1. closes'[c] = 0 => closes[c] = 0
    BY <1>1
  <2>2. InOrder(buffer'[c], s, taken'[c][s]) /\ UpTo(buffer'[c], s, taken'[c][s], Offered(s, c)')
        /\ (closes'[c] = 0 => Gapless(buffer'[c], s, taken'[c][s]))
    BY <1>1, <1>2, <1>3, <1>4, <2>1 DEF Fed
  <2>3. ~Misses(s, c)' => UpToDate(buffer'[c], s, taken'[c][s], Offered(s, c)')
    BY <1>1, <1>2, <1>3, <1>4 DEF Fed
  <2> QED
    BY <2>2, <2>3 DEF Fed
<1>5. CASE buffer'[c] # buffer[c]
  <2>1. c \in L /\ buffer[c] # <<>> /\ buffer'[c] = Tail(buffer[c]) /\ closes'[c] # 0
    BY <1>1, <1>5
  <2>2. InOrder(buffer'[c], s, taken[c][s]) /\ UpTo(buffer'[c], s, taken[c][s], Offered(s, c))
    BY <1>3, <2>1, TailOrder, OfferedType DEF Fed
  <2> QED
    BY <1>1, <1>2, <2>1, <2>2 DEF Fed, Misses
<1> QED
  BY <1>4, <1>5

-----------------------------------------------------------------------------
\* Each step keeps the order.
LEMMA ReceiveFed ==
  ASSUME IInv, MarkBook, OrderBook, NEW d \in Channels, Receive(d)
  PROVE  OrderBook'
<1> SUFFICES ASSUME NEW c \in Channels, NEW s \in Senders PROVE Fed(s, c)'
  BY DEF OrderBook
<1>1. /\ buffer[d] # <<>> /\ buffer' = [buffer EXCEPT ![d] = Tail(@)]
      /\ taken' = [taken EXCEPT ![d][Head(buffer[d])[1]] = Head(buffer[d])[3]]
      /\ UNCHANGED <<closes, sent, sending, timedOut, marked>>
  BY DEF Receive, senderVars
<1>2. buffer \in [Channels -> Seq(Message)] /\ taken \in [Channels -> [Senders -> Nat]]
  BY DEF IInv, TypeOK
<1>3. /\ Fed(s, c) /\ Offered(s, c)' = Offered(s, c) /\ Misses(s, c)' = Misses(s, c)
  BY <1>1 DEF OrderBook, Offered, Misses
<1>4. CASE c # d
  BY <1>1, <1>2, <1>3, <1>4, FedSame
<1>5. CASE c = d
  <2>1. /\ buffer'[c] = Tail(buffer[c])
        /\ taken'[c][s] = IF Head(buffer[c])[1] = s THEN Head(buffer[c])[3] ELSE taken[c][s]
    BY <1>1, <1>2, <1>5
  <2>2. /\ Offered(s, c) \in Int /\ taken[c][s] \in Nat /\ buffer[c] \in Seq(Message)
    BY OfferedType
  <2>3. /\ InOrder(buffer'[c], s, taken'[c][s])
        /\ UpTo(buffer'[c], s, taken'[c][s], Offered(s, c))
        /\ closes[c] = 0 => Gapless(buffer'[c], s, taken'[c][s])
        /\ ~Misses(s, c) => UpToDate(buffer'[c], s, taken'[c][s], Offered(s, c))
    BY <1>1, <1>3, <1>5, <2>1, <2>2, TailOrder DEF Fed
  <2> QED
    BY <1>1, <1>3, <2>3 DEF Fed
<1> QED
  BY <1>4, <1>5

LEMMA StartSendFed ==
  ASSUME IInv, MarkBook, OrderBook, LifeBook, NEW r \in Senders, NEW tag \in Tags,
         StartSend(r, tag)
  PROVE  OrderBook'
<1> SUFFICES ASSUME NEW c \in Channels, NEW s \in Senders PROVE Fed(s, c)'
  BY DEF OrderBook
<1>1. /\ sent' = [sent EXCEPT ![r][tag] = @ + 1]
      /\ UNCHANGED <<buffer, closes, taken, timedOut, marked>>
      /\ sending[r] = {} /\ Listening(tag) \subseteq Channels
      /\ sending' = [sending EXCEPT ![r] = Listening(tag)]
  <2>1. /\ sent' = [sent EXCEPT ![r][tag] = @ + 1] /\ sender[r] # "sending"
        /\ UNCHANGED <<buffer, closes, taken, timedOut, marked>>
        /\ \/ Listening(tag) = {} /\ sending' = sending
           \/ sending' = [sending EXCEPT ![r] = Listening(tag)]
    BY DEF StartSend, channelVars
  <2>2. sending[r] = {}
    BY <2>1 DEF IInv, SenderBook
  <2>3. Listening(tag) \subseteq Channels
    BY DEF IInv, RegistryIsExact
  <2>4. sending \in [Senders -> SUBSET Channels]
    BY DEF IInv, TypeOK
  <2> QED
    BY <2>1, <2>2, <2>3, <2>4
<1>2. /\ sent \in [Senders -> [Tags -> Nat]] /\ sending \in [Senders -> SUBSET Channels]
      /\ TagOf[c] \in Tags
  BY ConstantsAssumption DEF IInv, TypeOK
<1>3. /\ Fed(s, c) /\ Misses(s, c)' = Misses(s, c)
  BY <1>1 DEF OrderBook, Misses
<1>4. CASE s # r \/ TagOf[c] # tag
  <2>1. c \in sending'[s] <=> c \in sending[s]
    BY <1>1, <1>2, <1>4 DEF IInv, RegistryIsExact
  <2>2. sent'[s][TagOf[c]] = sent[s][TagOf[c]]
    BY <1>1, <1>2, <1>4
  <2>3. Offered(s, c)' = Offered(s, c)
    BY <2>1, <2>2 DEF Offered
  <2> QED
    BY <1>1, <1>3, <2>3, FedSame
<1>5. CASE s = r /\ TagOf[c] = tag
  <2>1. sent'[s][TagOf[c]] = sent[s][TagOf[c]] + 1 /\ sent[s][TagOf[c]] \in Nat
    BY <1>1, <1>2, <1>5
  <2>2. CASE c \in Listening(tag)
    <3>1. c \in sending'[s] /\ c \notin sending[s]
      BY <1>1, <1>2, <1>5, <2>2
    <3>2. Offered(s, c)' = Offered(s, c)
      BY <2>1, <3>1 DEF Offered
    <3> QED
      BY <1>1, <1>3, <3>2, FedSame
  <2>3. CASE c \notin Listening(tag)
    <3>1. c \notin sending'[s] /\ c \notin sending[s]
      BY <1>1, <1>2, <1>5, <2>3
    <3>2. Offered(s, c)' = Offered(s, c) + 1 /\ Offered(s, c) \in Nat
      BY <2>1, <3>1 DEF Offered
    <3>3. closes[c] # 0 \/ handler[c] \in {"idle", "creating", "refused"}
      BY <1>5, <2>3 DEF IInv, TypeOK, RegistryIsExact, LifeBook
    <3>4. closes[c] = 0 => taken[c][s] = 0 /\ From(buffer[c], s) = {}
      BY <3>3 DEF IInv, FreshChannels, LifeBook, From
    <3>5. taken[c][s] \in Nat /\ \A i \in From(buffer[c], s) : buffer[c][i][3] \in Nat
      <4>1. taken[c][s] \in Nat /\ buffer[c] \in Seq(Message)
        BY OfferedType
      <4>2. \A i \in From(buffer[c], s) : buffer[c][i] \in Message
        BY <4>1 DEF From
      <4> QED
        BY <4>1, <4>2, MessageNumber
    <3>6. UpTo(buffer[c], s, taken[c][s], Offered(s, c)')
      BY <1>3, <3>2, <3>5 DEF Fed, UpTo
    <3>7. ~Misses(s, c) => UpToDate(buffer[c], s, taken[c][s], Offered(s, c)')
      BY <3>4 DEF UpToDate, Misses
    <3> QED
      BY <1>1, <1>3, <3>6, <3>7 DEF Fed
  <2> QED
    BY <2>2, <2>3
<1> QED
  BY <1>4, <1>5

LEMMA DeliverFed ==
  ASSUME IInv, MarkBook, OrderBook, NEW r \in Senders, NEW d \in Channels, Deliver(r, d)
  PROVE  OrderBook'
<1> SUFFICES ASSUME NEW c \in Channels, NEW s \in Senders PROVE Fed(s, c)'
  BY DEF OrderBook
<1> DEFINE m == <<r, sendTag[r], sent[r][sendTag[r]]>>
<1>1. /\ d \in sending[r] /\ buffer' = [buffer EXCEPT ![d] = Append(@, m)]
      /\ sending' = [sending EXCEPT ![r] = @ \ {d}]
      /\ UNCHANGED <<closes, taken, sent, timedOut, marked>>
  BY DEF Deliver
<1>2. buffer \in [Channels -> Seq(Message)] /\ sending \in [Senders -> SUBSET Channels]
  BY DEF IInv, TypeOK
<1>3. Fed(s, c) /\ Misses(s, c)' = Misses(s, c)
  BY <1>1 DEF OrderBook, Misses
<1>4. m \in Message
  BY <1>1, MessageInFlight DEF IInv, SenderBook
<1>5. /\ Offered(s, c) \in Nat /\ sent[s][TagOf[c]] \in Nat
      /\ taken[c][s] \in Nat /\ buffer[c] \in Seq(Message)
  BY OfferedType
<1>6. CASE c # d
  <2>1. buffer'[c] = buffer[c] /\ (c \in sending'[s] <=> c \in sending[s])
    BY <1>1, <1>2, <1>6
  <2>2. Offered(s, c)' = Offered(s, c)
    BY <1>1, <2>1 DEF Offered
  <2> QED
    BY <1>1, <1>3, <2>1, <2>2, FedSame
<1>7. CASE c = d /\ s # r
  <2>1. buffer'[c] = Append(buffer[c], m) /\ (c \in sending'[s] <=> c \in sending[s])
    BY <1>1, <1>2, <1>7
  <2>2. Offered(s, c)' = Offered(s, c)
    BY <1>1, <2>1 DEF Offered
  <2>3. m[1] # s
    BY <1>7
  <2>4. /\ InOrder(buffer'[c], s, taken[c][s]) /\ UpTo(buffer'[c], s, taken[c][s], Offered(s, c))
        /\ closes[c] = 0 => Gapless(buffer'[c], s, taken[c][s])
        /\ ~Misses(s, c) => UpToDate(buffer'[c], s, taken[c][s], Offered(s, c))
    BY <1>3, <1>4, <1>5, <2>1, <2>3, AppendOrder DEF Fed
  <2> QED
    BY <1>1, <1>3, <2>2, <2>4 DEF Fed
<1>8. CASE c = d /\ s = r
  <2>1. buffer'[c] = Append(buffer[c], m) /\ c \notin sending'[s] /\ c \in sending[s]
    BY <1>1, <1>2, <1>8
  <2>2. sendTag[s] = TagOf[c] /\ closes[c] = 0 /\ ~Misses(s, c)
    BY <2>1, OfferedType
  <2>3. Offered(s, c)' = Offered(s, c) + 1 /\ m[1] = s /\ m[3] = Offered(s, c) + 1
    BY SMTT(40), <1>1, <1>5, <1>8, <2>1, <2>2 DEF Offered
  <2>4. /\ InOrder(buffer'[c], s, taken[c][s])
        /\ UpTo(buffer'[c], s, taken[c][s], Offered(s, c) + 1)
        /\ UpToDate(buffer'[c], s, taken[c][s], Offered(s, c) + 1)
        /\ Gapless(buffer'[c], s, taken[c][s])
    BY SMTT(40), <1>3, <1>4, <1>5, <2>1, <2>2, <2>3, AppendOrder DEF Fed
  <2> QED
    BY <1>1, <2>3, <2>4 DEF Fed
<1> QED
  BY <1>6, <1>7, <1>8

LEMMA TimeOutFed ==
  ASSUME IInv, MarkBook, OrderBook, NEW r \in Senders, NEW d \in Channels, TimeOut(r, d)
  PROVE  OrderBook'
<1> SUFFICES ASSUME NEW c \in Channels, NEW s \in Senders PROVE Fed(s, c)'
  BY DEF OrderBook
<1>1. /\ d \in sending[r]
      /\ sending' = [sending EXCEPT ![r] = @ \ {d}]
      /\ timedOut' = [timedOut EXCEPT ![r] = @ \cup {d}]
      /\ UNCHANGED <<buffer, closes, taken, sent, marked>>
  BY DEF TimeOut, channelVars
<1>2. sending \in [Senders -> SUBSET Channels] /\ timedOut \in [Senders -> SUBSET Channels]
  BY DEF IInv, TypeOK
<1>3. Fed(s, c)
  BY DEF OrderBook
<1>4. CASE c # d \/ s # r
  <2>1. /\ (c \in sending'[s] <=> c \in sending[s]) /\ (c \in timedOut'[s] <=> c \in timedOut[s])
    BY <1>1, <1>2, <1>4
  <2>2. Offered(s, c)' = Offered(s, c) /\ Misses(s, c)' = Misses(s, c)
    BY <1>1, <2>1 DEF Offered, Misses
  <2> QED
    BY <1>1, <1>3, <2>2, FedSame
<1>5. CASE c = d /\ s = r
  <2>1. c \in sending[s] /\ c \notin sending'[s] /\ c \in timedOut'[s]
    BY <1>1, <1>2, <1>5
  <2>2. sent[s][TagOf[c]] \in Nat
    BY OfferedType
  <2>3. Offered(s, c)' = Offered(s, c) + 1 /\ Misses(s, c)' /\ Offered(s, c) \in Int
    BY <1>1, <2>1, <2>2 DEF Offered, Misses
  <2>4. taken[c][s] \in Nat /\ \A i \in From(buffer[c], s) : buffer[c][i][3] \in Nat
    <3>1. taken[c][s] \in Nat /\ buffer[c] \in Seq(Message)
      BY OfferedType
    <3>2. \A i \in From(buffer[c], s) : buffer[c][i] \in Message
      BY <3>1 DEF From
    <3> QED
      BY <3>1, <3>2, MessageNumber
  <2>5. UpTo(buffer[c], s, taken[c][s], Offered(s, c)')
    BY <1>3, <2>3, <2>4 DEF Fed, UpTo
  <2> QED
    BY <1>1, <1>3, <2>3, <2>5 DEF Fed
<1> QED
  BY <1>4, <1>5

LEMMA MarkFed ==
  ASSUME IInv, OrderBook, NEW r \in Senders, NEW d \in Channels, Mark(r, d)
  PROVE  OrderBook'
<1> SUFFICES ASSUME NEW c \in Channels, NEW s \in Senders PROVE Fed(s, c)'
  BY DEF OrderBook
<1>1. /\ timedOut' = [timedOut EXCEPT ![r] = @ \ {d}]
      /\ marked' = [marked EXCEPT ![r] = @ \cup {d}]
      /\ UNCHANGED <<buffer, closes, taken, sent, sending>>
  BY DEF Mark, channelVars
<1>2. timedOut \in [Senders -> SUBSET Channels] /\ marked \in [Senders -> SUBSET Channels]
  BY DEF IInv, TypeOK
<1>3. Fed(s, c) /\ Offered(s, c)' = Offered(s, c)
  BY <1>1 DEF OrderBook, Offered
<1>4. Misses(s, c) => Misses(s, c)'
  BY <1>1, <1>2 DEF Misses
<1> QED
  BY <1>1, <1>3, <1>4, FedSame

LEMMA UnregisterFed ==
  ASSUME IInv, MarkBook, OrderBook, NEW d \in Channels, Unregister(d)
  PROVE  OrderBook'
<1> SUFFICES ASSUME NEW c \in Channels, NEW s \in Senders PROVE Fed(s, c)'
  BY DEF OrderBook
<1>1. /\ TagOf[d] \in Tags /\ DeleteListeners({d}, TagOf[d])
      /\ UNCHANGED <<sent, sending, timedOut, marked>>
  BY ConstantsAssumption DEF Unregister, senderVars
<1>2. Misses(s, c) => Misses(s, c)'
  <2>1. closes[c] # 0 => closes'[c] # 0
    BY <1>1 DEF DeleteListeners, SafeClose, IInv, TypeOK
  <2> QED
    BY <1>1, <2>1 DEF Misses
<1> QED
  BY <1>1, <1>2, DeleteFed

\* The sender forgets what it marked; those channels are closed now.
LEMMA SweepFed ==
  ASSUME IInv, MarkBook, OrderBook, LifeBook, NEW r \in Senders, Sweep(r)
  PROVE  OrderBook'
<1> SUFFICES ASSUME NEW c \in Channels, NEW s \in Senders PROVE Fed(s, c)'
  BY DEF OrderBook
<1>1. /\ sendTag[r] \in Tags /\ marked[r] \in SUBSET Channels
      /\ DeleteListeners(marked[r], sendTag[r])
      /\ marked' = [marked EXCEPT ![r] = {}]
      /\ UNCHANGED <<sent, sending, timedOut>>
      /\ timedOut[r] = {}
  BY DEF Sweep, IInv, TypeOK, SenderBook
<1>2. marked \in [Senders -> SUBSET Channels] /\ closes \in [Channels -> Nat]
  BY DEF IInv, TypeOK
<1>3. closes[c] # 0 => closes'[c] # 0
  BY <1>1, <1>2 DEF DeleteListeners, SafeClose
<1>4. CASE s # r \/ c \notin marked[r]
  <2>1. Misses(s, c) => Misses(s, c)'
    BY <1>1, <1>2, <1>3, <1>4 DEF Misses
  <2> QED
    BY <1>1, <2>1, DeleteFed
<1>5. CASE s = r /\ c \in marked[r]
  <2>1. TagOf[c] = sendTag[r]
    BY <1>5 DEF MarkBook
  <2>2. CASE c \in Listening(sendTag[r])
    <3>1. closes'[c] # 0
      BY <1>1, <1>2, <1>5, <2>2 DEF DeleteListeners, SafeClose, IInv, RegistryIsExact
    <3> QED
      BY <1>1, <3>1, DeleteFed DEF Misses
  <2>3. CASE c \notin Listening(sendTag[r])
    <3>1. closes[c] # 0 \/ handler[c] \in {"idle", "creating", "refused"}
      BY <2>1, <2>3, <1>1 DEF IInv, TypeOK, RegistryIsExact, LifeBook
    <3>2. CASE closes[c] # 0
      BY <1>1, <1>3, <3>2, DeleteFed DEF Misses
    <3>3. CASE handler[c] \in {"idle", "creating", "refused"}
      <4>1. buffer[c] = <<>> /\ taken[c][s] = 0
        BY <3>3 DEF IInv, FreshChannels, LifeBook
      <4>2. buffer'[c] = <<>> /\ taken'[c][s] = 0
        BY <1>1, <4>1 DEF DeleteListeners, SafeClose, IInv, TypeOK
      <4>3. UpToDate(buffer'[c], s, taken'[c][s], Offered(s, c)')
        BY <4>2 DEF UpToDate, From
      <4> QED
        BY <1>1, <4>3, DeleteFed
    <3> QED
      BY <3>1, <3>2, <3>3
  <2> QED
    BY <2>2, <2>3
<1> QED
  BY <1>4, <1>5

LEMMA StepLifeBook == IInv /\ LifeBook /\ [Next]_vars => LifeBook'
<1> SUFFICES ASSUME IInv, LifeBook, [Next]_vars PROVE LifeBook'
  OBVIOUS
<1>1. CASE UNCHANGED <<handler, closes, taken>>
  BY <1>1 DEF LifeBook
<1>2. ASSUME NEW d \in Channels,
             CreateChannel(d) \/ CreateUniqueChannel(d) \/ Register(d) \/ Leave(d)
      PROVE  LifeBook'
  <2>1. /\ handler'[d] \in {"creating", "refused"} => handler[d] = "idle"
        /\ handler'[d] \in {"creating", "refused", "open", "leaving"}
        /\ \A c \in Channels \ {d} : handler'[c] = handler[c]
        /\ UNCHANGED <<closes, taken>>
    BY <1>2 DEF CreateChannel, CreateUniqueChannel, Register, Leave, channelVars, IInv, TypeOK
  <2> QED
    BY <2>1 DEF LifeBook
<1>3. ASSUME NEW d \in Channels, Receive(d) PROVE LifeBook'
  <2>1. /\ handler[d] = "open" /\ UNCHANGED <<handler, closes>>
        /\ \A c \in Channels \ {d} : taken'[c] = taken[c]
    BY <1>3 DEF Receive, IInv, TypeOK
  <2> QED
    BY <2>1 DEF LifeBook
<1>4. ASSUME NEW d \in Channels, Unregister(d) PROVE LifeBook'
  <2>1. /\ handler[d] = "leaving" /\ handler' = [handler EXCEPT ![d] = "gone"]
        /\ DeleteListeners({d}, TagOf[d]) /\ taken' = taken
    BY <1>4 DEF Unregister, DeleteListeners, SafeClose
  <2>2. \A c \in Channels : closes[c] > 0 => closes'[c] > 0
    BY <2>1 DEF DeleteListeners, SafeClose, IInv, TypeOK
  <2>3. closes'[d] > 0
    <3>1. closes[d] \in Nat /\ TagOf[d] \in Tags
      BY ConstantsAssumption DEF IInv, TypeOK
    <3>2. closes[d] = 0 => d \in Listening(TagOf[d])
      BY <2>1, <3>1 DEF IInv, RegistryIsExact
    <3>3. closes[d] = 0 => closes'[d] = closes[d] + 1
      BY <2>1, <3>2 DEF DeleteListeners, SafeClose, IInv, TypeOK
    <3> QED
      BY <2>2, <3>1, <3>3
  <2> QED
    BY <2>1, <2>2, <2>3 DEF LifeBook, IInv, TypeOK
<1>5. ASSUME NEW s \in Senders, Sweep(s) PROVE LifeBook'
  <2>1. \A c \in Channels : closes[c] > 0 => closes'[c] > 0
    BY <1>5 DEF Sweep, DeleteListeners, SafeClose, IInv, TypeOK
  <2> QED
    BY <1>5, <2>1 DEF LifeBook, Sweep, DeleteListeners, SafeClose
<1>6. ASSUME NEW s \in Senders, NEW c \in Channels, Deliver(s, c) \/ TimeOut(s, c) \/ Mark(s, c)
      PROVE  LifeBook'
  BY <1>1, <1>6 DEF Deliver, TimeOut, Mark, channelVars
<1> QED
  BY <1>1, <1>2, <1>3, <1>4, <1>5, <1>6
  DEF Next, HandlerStep, SenderStep, Lock, StartSend, FinishSend, SocketEnds, channelVars, vars

LEMMA StepOrderBook == IInv /\ MarkBook /\ LifeBook /\ OrderBook /\ [Next]_vars => OrderBook'
<1> SUFFICES ASSUME IInv, MarkBook, LifeBook, OrderBook, [Next]_vars PROVE OrderBook'
  OBVIOUS
<1>1. CASE UNCHANGED <<channelVars, sent, sending, timedOut, marked>>
  <2> SUFFICES ASSUME NEW c \in Channels, NEW s \in Senders PROVE Fed(s, c)'
    BY DEF OrderBook
  <2>1. Fed(s, c) /\ Offered(s, c)' = Offered(s, c) /\ Misses(s, c)' = Misses(s, c)
    BY <1>1 DEF OrderBook, Offered, Misses, channelVars
  <2> QED
    BY <1>1, <2>1, FedSame DEF channelVars
<1>2. ASSUME NEW d \in Channels, HandlerStep(d) PROVE OrderBook'
  BY <1>1, <1>2, ReceiveFed, UnregisterFed
  DEF HandlerStep, CreateChannel, CreateUniqueChannel, Register, Leave, senderVars
<1>3. ASSUME NEW s \in Senders, SenderStep(s) PROVE OrderBook'
  BY <1>1, <1>3, StartSendFed, DeliverFed, TimeOutFed, MarkFed, SweepFed
  DEF SenderStep, FinishSend, SocketEnds
<1> QED
  BY <1>1, <1>2, <1>3 DEF Next, Lock, senderVars, vars

\* A handler sees the messages of one sender in the order they were sent, and as
\* long as its channel is open it has missed none in between.
THEOREM FedInOrderAlways == Spec => []FedInOrder
<1>1. Init => MarkBook /\ LifeBook /\ OrderBook
  <2> SUFFICES ASSUME Init PROVE MarkBook /\ LifeBook /\ OrderBook
    OBVIOUS
  <2>1. MarkBook /\ LifeBook
    BY DEF Init, MarkBook, LifeBook
  <2>2. ASSUME NEW c \in Channels, NEW s \in Senders PROVE Fed(s, c)
    <3>1. From(buffer[c], s) = {} /\ taken[c][s] = 0 /\ Offered(s, c) = 0
      BY ConstantsAssumption DEF Init, From, Offered
    <3> QED
      BY <3>1 DEF Fed, InOrder, UpTo, Gapless, UpToDate
  <2> QED
    BY <2>1, <2>2 DEF OrderBook
<1>2. OrderBook => FedInOrder
  BY DEF OrderBook, Fed, InOrder, Gapless, From, Own, FedInOrder
<1> QED
  BY <1>1, <1>2, StepMarkBook, StepLifeBook, StepOrderBook, Invariance, PTL DEF Spec

-----------------------------------------------------------------------------
\* The registry implements mailboxes: steps on the map and the channels are
\* mailbox steps, everything else is invisible.
LEMMA DeleteIsClose ==
  ASSUME IInv, NEW tag \in Tags, NEW D \in SUBSET Channels, DeleteListeners(D, tag),
         \A c \in Channels : handler[c] \in {"open", "leaving"} =>
                               handler'[c] \in {"open", "leaving", "gone"},
         \A c \in Channels : handler'[c] # handler[c] => c \in D /\ tag = TagOf[c],
         \A c \in Channels : handler'[c] # handler[c] => handler[c] \in {"open", "leaving"}
  PROVE  [Mail!Next]_(Mail!mailVars)
<1> DEFINE S == D \cap Listening(tag)
<1>1. /\ S \subseteq Channels
      /\ \A c \in S : closes[c] = 0 /\ handler[c] \in {"open", "leaving"}
  BY DEF IInv, RegistryIsExact
<1>2. /\ closes' = [c \in Channels |-> IF c \in S THEN 1 ELSE closes[c]]
      /\ buffer' = [c \in Channels |-> IF c \in S /\ buffer[c] # <<>>
                                          THEN Tail(buffer[c]) ELSE buffer[c]]
  BY <1>1 DEF DeleteListeners, SafeClose, IInv, TypeOK
<1>3. \A c \in Channels : handler'[c] # handler[c] => closes'[c] > 0
  BY <1>2 DEF IInv, RegistryIsExact, NoPanic
<1>4. MailPhase' = [c \in Channels |-> IF c \in S THEN "closed" ELSE MailPhase[c]]
  BY <1>1, <1>2, <1>3 DEF MailPhase, IInv, TypeOK
<1>5. \A c \in S : MailPhase[c] = "open"
  BY <1>1 DEF MailPhase
<1>6. CASE S = {}
  BY <1>2, <1>4, <1>6 DEF Mail!mailVars, MailPhase, IInv, TypeOK
<1>7. CASE S # {}
  BY <1>1, <1>2, <1>4, <1>5, <1>7 DEF Mail!Next, Mail!Close
<1> QED
  BY <1>6, <1>7

LEMMA StepImplements == IInv /\ [Next]_vars => [Mail!Next]_(Mail!mailVars)
<1> SUFFICES ASSUME IInv, [Next]_vars  PROVE [Mail!Next]_(Mail!mailVars)
  OBVIOUS
<1>1. CASE UNCHANGED <<closes, buffer>>
           /\ \A c \in Channels : handler'[c] \in {"open", "leaving"}
                                     <=> handler[c] \in {"open", "leaving"}
  BY <1>1 DEF Mail!mailVars, MailPhase
<1>2. ASSUME NEW c \in Channels, Register(c)  PROVE Mail!Open(c)
  <2>1. /\ handler[c] = "creating" /\ handler' = [handler EXCEPT ![c] = "open"]
        /\ UNCHANGED <<closes, buffer>>
        /\ closes[c] = 0
    BY <1>2 DEF Register, channelVars, IInv, FreshChannels
  <2>2. handler \in [Channels -> {"idle", "creating", "refused", "open", "leaving", "gone"}]
    BY DEF IInv, TypeOK
  <2>3. MailPhase' = [MailPhase EXCEPT ![c] = "open"]
    <3>1. handler'[c] = "open" /\ closes'[c] = 0
      BY <2>1, <2>2
    <3>2. \A d \in Channels : d # c => handler'[d] = handler[d] /\ closes'[d] = closes[d]
      BY <2>1, <2>2
    <3>3. MailPhase'[c] = "open"
      BY <3>1 DEF MailPhase
    <3>4. \A d \in Channels : d # c => MailPhase'[d] = MailPhase[d]
      BY <3>2 DEF MailPhase
    <3>5. MailPhase \in [Channels -> {"fresh", "open", "closed"}]
      BY DEF MailPhase
    <3>6. MailPhase' = [d \in Channels |-> MailPhase'[d]]
      BY DEF MailPhase
    <3> QED
      BY <3>3, <3>4, <3>5, <3>6
  <2>4. MailPhase[c] = "fresh"
    BY <2>1 DEF MailPhase
  <2> QED
    BY <2>1, <2>3, <2>4 DEF Mail!Open
<1>3. ASSUME NEW c \in Channels, Receive(c)  PROVE Mail!Take(c)
  BY <1>3 DEF Receive, Mail!Take, MailPhase
<1>4. ASSUME NEW c \in Channels, Unregister(c)  PROVE [Mail!Next]_(Mail!mailVars)
  <2>1. handler \in [Channels -> {"idle", "creating", "refused", "open", "leaving", "gone"}]
    BY DEF IInv, TypeOK
  <2>2. /\ handler[c] = "leaving" /\ handler' = [handler EXCEPT ![c] = "gone"]
        /\ DeleteListeners({c}, TagOf[c])
    BY <1>4 DEF Unregister
  <2>3. TagOf[c] \in Tags /\ {c} \in SUBSET Channels
    BY ConstantsAssumption
  <2>4. \A d \in Channels : handler'[d] # handler[d] =>
          d = c /\ handler[d] \in {"open", "leaving"}
    BY <2>1, <2>2
  <2>5. \A d \in Channels : handler[d] \in {"open", "leaving"} =>
          handler'[d] \in {"open", "leaving", "gone"}
    BY <2>1, <2>2
  <2> QED
    BY <2>2, <2>3, <2>4, <2>5, DeleteIsClose
<1>5. ASSUME NEW s \in Senders, Sweep(s)  PROVE [Mail!Next]_(Mail!mailVars)
  BY <1>5, DeleteIsClose DEF Sweep, IInv, TypeOK, SenderBook
<1>6. ASSUME NEW s \in Senders, NEW c \in Channels, Deliver(s, c)
      PROVE  [Mail!Next]_(Mail!mailVars)
  <2> DEFINE m == <<s, sendTag[s], sent[s][sendTag[s]]>>
             Fitting == [d \in Channels |-> {n \in Message : n[2] = TagOf[d]}]
  <2>1. sender[s] = "sending" /\ c \in Listening(sendTag[s])
    BY <1>6 DEF Deliver, IInv, SenderBook
  <2>2. m \in Message /\ sendTag[s] = TagOf[c]
    BY <2>1, MessageInFlight DEF IInv, SenderBook, RegistryIsExact
  <2>3. m \in Fitting[c]
    BY <2>2
  <2>4. MailPhase[c] = "open"
    BY <2>1 DEF MailPhase, IInv, SenderBook, RegistryIsExact
  <2>5. MailPhase' = MailPhase
    BY <1>6 DEF Deliver, MailPhase
  <2>6. Mail!Put(c, m)
    BY <1>6, <2>3, <2>4, <2>5 DEF Deliver, Mail!Put
  <2> QED
    BY <2>3, <2>6 DEF Mail!Next
<1>7. ASSUME NEW c \in Channels, CreateChannel(c) \/ CreateUniqueChannel(c) \/ Leave(c)
      PROVE  [Mail!Next]_(Mail!mailVars)
  BY <1>1, <1>7 DEF CreateChannel, CreateUniqueChannel, Leave, channelVars, IInv, TypeOK
<1>8. ASSUME NEW p \in Channels \cup Senders, Lock(p)
      PROVE  [Mail!Next]_(Mail!mailVars)
  BY <1>1, <1>8 DEF Lock, channelVars
<1>9. ASSUME NEW s \in Senders,
             \/ \E t \in Tags : StartSend(s, t)
             \/ \E c \in Channels : TimeOut(s, c) \/ Mark(s, c)
             \/ FinishSend(s) \/ SocketEnds(s)
      PROVE  [Mail!Next]_(Mail!mailVars)
  BY <1>1, <1>9 DEF StartSend, TimeOut, Mark, FinishSend, SocketEnds, channelVars
<1>10. CASE UNCHANGED vars
  BY <1>1, <1>10 DEF vars, channelVars
<1> QED
  BY <1>2, <1>3, <1>4, <1>5, <1>6, <1>7, <1>8, <1>9, <1>10
  DEF Next, HandlerStep, SenderStep, Mail!Next

\* To an RPC handler the registry is a mailbox that is opened once, closed
\* once and never written to afterwards.
THEOREM Refinement == Spec => ImplementsMailboxes
<1>1. Init => Mail!Init
  BY DEF Init, Mail!Init, MailPhase
<1> QED
  BY <1>1, StepImplements, Invariance, PTL DEF Spec, ImplementsMailboxes, Mail!Spec

-----------------------------------------------------------------------------
\* Two channels for one tag.  A handler claims the tag from its look at the map until
\* its channel is off the list.
Rivals(c, d) == c # d /\ TagOf[c] = TagOf[d]

Claims(c) == handler[c] = "creating" \/ c \in Listening(TagOf[c])

ClaimedOnce == \A c, d \in Unique : Rivals(c, d) => ~(Claims(c) /\ Claims(d))

\* No unique channel is granted between the look at the map and the registration of
\* another one for the tag, as if both were done under one lock.
ChecksApart ==
  \A c, d \in Unique :
    Rivals(c, d) /\ handler[c] = "idle" /\ handler'[c] = "creating" => handler[d] # "creating"

\* Only the look at the map makes a claim; registering keeps it, and whatever deletes
\* channels may end one.
LEMMA ClaimsDoNotGrow ==
  ASSUME IInv, [Next]_vars,
         \A c \in Channels : handler[c] = "idle" => handler'[c] # "creating"
  PROVE  \A c \in Channels : Claims(c)' => Claims(c)
<1>1. TagOf \in [Channels -> Tags] /\ handler \in [Channels -> {"idle", "creating", "refused",
                                                           "open", "leaving", "gone"}]
  BY ConstantsAssumption DEF IInv, TypeOK
<1>2. ASSUME UNCHANGED managedChannels,
             \A c \in Channels : handler'[c] = "creating" => handler[c] = "creating"
      PROVE  \A c \in Channels : Claims(c)' => Claims(c)
  BY <1>2 DEF Claims, Listening
<1>3. ASSUME NEW tag \in Tags, NEW D \in SUBSET Channels, DeleteListeners(D, tag),
             \A c \in Channels : handler'[c] = "creating" => handler[c] = "creating"
      PROVE  \A c \in Channels : Claims(c)' => Claims(c)
  <2>1. \A t \in Tags : Listening(t)' \subseteq Listening(t)
    BY <1>3, DeleteKeepsRegistry DEF IInv
  <2> QED
    BY <1>1, <1>3, <2>1 DEF Claims
<1>4. ASSUME NEW c \in Channels, CreateChannel(c) \/ CreateUniqueChannel(c) \/ Leave(c)
      PROVE  \A d \in Channels : Claims(d)' => Claims(d)
  <2>1. UNCHANGED managedChannels
    BY <1>4 DEF CreateChannel, CreateUniqueChannel, Leave
  <2>2. handler[c] = "idle" \/ handler'[c] = "leaving"
    BY <1>1, <1>4 DEF CreateChannel, CreateUniqueChannel, Leave
  <2>3. \A d \in Channels : d # c => handler'[d] = handler[d]
    BY <1>1, <1>4 DEF CreateChannel, CreateUniqueChannel, Leave
  <2> QED
    BY <1>2, <2>1, <2>2, <2>3
<1>5. ASSUME NEW c \in Channels, Register(c)
      PROVE  \A d \in Channels : Claims(d)' => Claims(d)
  <2>1. handler[c] = "creating" /\ managedChannels' = Added(c)
    BY <1>5 DEF Register
  <2>2. \A t \in Tags : Listening(t)' \subseteq Listening(t) \cup {c}
    BY <2>1 DEF Added, Listening
  <2>3. \A d \in Channels : d # c => handler'[d] = handler[d]
    BY <1>1, <1>5 DEF Register
  <2> QED
    BY SMTT(40), <1>1, <2>1, <2>2, <2>3 DEF Claims
<1>6. ASSUME NEW c \in Channels, Unregister(c)
      PROVE  \A d \in Channels : Claims(d)' => Claims(d)
  <2>1. handler' = [handler EXCEPT ![c] = "gone"] /\ DeleteListeners({c}, TagOf[c])
    BY <1>6 DEF Unregister
  <2>2. \A d \in Channels : handler'[d] = "creating" => handler[d] = "creating"
    BY <1>1, <2>1
  <2>3. TagOf[c] \in Tags /\ {c} \in SUBSET Channels
    BY <1>1
  <2> QED
    BY <1>3, <2>1, <2>2, <2>3
<1>7. ASSUME NEW s \in Senders, Sweep(s)
      PROVE  \A d \in Channels : Claims(d)' => Claims(d)
  <2>1. sender[s] = "sweeping" /\ DeleteListeners(marked[s], sendTag[s]) /\ handler' = handler
    BY <1>7 DEF Sweep
  <2>2. sendTag[s] \in Tags /\ marked[s] \in SUBSET Channels
    BY <2>1 DEF IInv, TypeOK, SenderBook
  <2> QED
    BY <1>3, <2>1, <2>2
<1>8. ASSUME NEW c \in Channels, Receive(c)
      PROVE  \A d \in Channels : Claims(d)' => Claims(d)
  BY <1>2, <1>8 DEF Receive
<1>9. ASSUME NEW s \in Senders,
             \/ \E t \in Tags : StartSend(s, t)
             \/ \E c \in Channels : Deliver(s, c) \/ TimeOut(s, c) \/ Mark(s, c)
             \/ FinishSend(s) \/ SocketEnds(s)
      PROVE  \A d \in Channels : Claims(d)' => Claims(d)
  <2>1. UNCHANGED <<managedChannels, handler>>
    BY <1>9 DEF StartSend, Deliver, TimeOut, Mark, FinishSend, SocketEnds
  <2> QED
    BY <1>2, <2>1
<1>10. ASSUME NEW p \in Channels \cup Senders, Lock(p)
       PROVE  \A d \in Channels : Claims(d)' => Claims(d)
  BY <1>2, <1>10 DEF Lock
<1>11. CASE UNCHANGED vars
  BY <1>2, <1>11 DEF vars
<1> QED
  BY <1>4, <1>5, <1>6, <1>7, <1>8, <1>9, <1>10, <1>11 DEF Next, HandlerStep, SenderStep

LEMMA StepClaimedOnce == IInv /\ ClaimedOnce /\ [Next]_vars /\ [ChecksApart]_vars => ClaimedOnce'
<1> SUFFICES ASSUME IInv, ClaimedOnce, [Next]_vars, [ChecksApart]_vars
             PROVE  ClaimedOnce'
  OBVIOUS
<1>1. Unique \subseteq Channels
  BY ConstantsAssumption
<1>2. CASE \A c \in Channels : handler[c] = "idle" => handler'[c] # "creating"
  BY <1>1, <1>2, ClaimsDoNotGrow DEF ClaimedOnce, Rivals
<1>3. ASSUME NEW c \in Channels, handler[c] = "idle", handler'[c] = "creating"
      PROVE  ClaimedOnce'
  <2>1. CreateChannel(c) \/ CreateUniqueChannel(c)
    <3>1. handler' # handler /\ handler \in [Channels -> {"idle", "creating", "refused",
                                                           "open", "leaving", "gone"}]
      BY <1>3 DEF IInv, TypeOK
    <3>2. Next
      BY <3>1 DEF vars
    <3>3. PICK d \in Channels : \/ CreateChannel(d) \/ CreateUniqueChannel(d)
                                \/ Register(d) \/ Leave(d) \/ Unregister(d)
      BY <3>1, <3>2 DEF Next, HandlerStep, SenderStep, Lock, Receive, StartSend, Deliver,
         TimeOut, Mark, FinishSend, Sweep, SocketEnds
    <3>4. d = c /\ ~Register(d) /\ ~Leave(d) /\ ~Unregister(d)
      BY <1>3, <3>1, <3>3 DEF CreateChannel, CreateUniqueChannel, Register, Leave, Unregister
    <3> QED
      BY <3>3, <3>4
  <2>2. /\ UNCHANGED managedChannels
        /\ \A d \in Channels : d # c => handler'[d] = handler[d]
    BY <2>1 DEF CreateChannel, CreateUniqueChannel, IInv, TypeOK
  <2>3. \A d \in Channels : d # c => Claims(d)' = Claims(d)
    BY <2>2 DEF Claims, Listening
  <2>4. ASSUME NEW d \in Unique, c \in Unique, Rivals(c, d)
        PROVE  ~Claims(d)
    <3>1. CreateUniqueChannel(c)
      BY <2>1, <2>4 DEF CreateChannel
    <3>2. TagOf[c] \notin DOMAIN managedChannels
      BY <1>3, <3>1 DEF CreateUniqueChannel, IInv, TypeOK
    <3>3. ChecksApart
      BY <1>3 DEF vars
    <3>4. handler[d] # "creating"
      BY <1>3, <2>4, <3>3 DEF ChecksApart
    <3> QED
      BY <2>4, <3>2, <3>4 DEF Claims, Listening, Rivals
  <2> QED
    BY <1>1, <2>3, <2>4 DEF ClaimedOnce, Rivals
<1> QED
  BY <1>2, <1>3

\* What the run IpcUnique finds takes a second look before the first channel is
\* registered: if none is taken then, two unique channels for one tag are never on
\* the list together, whatever senders delete and other handlers do meanwhile.
THEOREM UniqueNeedsOneLock == Spec /\ [][ChecksApart]_vars => []UniqueIsAlone
<1>1. Init => ClaimedOnce
  BY ConstantsAssumption DEF Init, ClaimedOnce, Claims, Listening
<1>2. ClaimedOnce => UniqueIsAlone
  BY DEF ClaimedOnce, Claims, Rivals, UniqueIsAlone
<1> QED
  BY <1>1, <1>2, StepClaimedOnce, Invariance, PTL DEF Spec
=============================================================================
